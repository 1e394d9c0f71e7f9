-------------------------- MODULE PasswordAttempts --------------------------
(***************************************************************************)
(* The budget of failed password attempts of one account, which sign-in    *)
(* and password change share.                                              *)
(*                                                                         *)
(* Sign-in verifies inside its transaction.  A password change verifies    *)
(* between two transactions: it reserves an attempt first, and clears the  *)
(* bucket afterwards if the password was right and is still the one        *)
(* stored.  Passwords are numbered; a reset or a completed change by       *)
(* anyone is Rotate.  A tick is the time in which one attempt comes back,  *)
(* six minutes for ten an hour.  A missing row is a full bucket.           *)
(***************************************************************************)
EXTENDS Integers, FiniteSetsExt

CONSTANTS
    Callers,          \* password changes under way at a time
    MaxAttempts,      \* MAX_FAILED_PASSWORD_ATTEMPTS_PER_HOUR
    MaxTime,
    MaxRotations,
    MaxRights         \* right guesses counted

VARIABLES
    clock,
    stored,           \* number of the stored password
    bucket,           \* authRateLimits row: attempts left, and when
    caller,           \* where each change stands, and its snapshot
    wrong,            \* history: wrong guesses verified
    right             \* history: right guesses of the stored password

vars == <<clock, stored, bucket, caller, wrong, right>>

FullBucket == [left |-> MaxAttempts, at |-> 0]
NoCaller == [pc |-> "idle", hash |-> 0]

Init ==
    /\ clock = 0
    /\ stored = 0
    /\ bucket = FullBucket
    /\ caller = [c \in Callers |-> NoCaller]
    /\ wrong = 0
    /\ right = 0

AttemptsLeft == Min({MaxAttempts, bucket.left + (clock - bucket.at)})
Spend == [left |-> AttemptsLeft - 1, at |-> clock]

RefuseSignIn ==
    /\ AttemptsLeft >= 1
    /\ bucket' = Spend
    /\ wrong' = wrong + 1
    /\ UNCHANGED <<clock, stored, caller, right>>

AcceptSignIn ==
    /\ AttemptsLeft >= 1
    /\ right < MaxRights
    /\ bucket' = FullBucket
    /\ right' = right + 1
    /\ UNCHANGED <<clock, stored, caller, wrong>>

getOwnPasswordAccount(c) ==
    /\ caller[c].pc = "idle"
    /\ caller' = [caller EXCEPT ![c] = [pc |-> "read", hash |-> stored]]
    /\ UNCHANGED <<clock, stored, bucket, wrong, right>>

\* A slip: whatever was verified counts as the password of today.
WhateverVerified(c) == caller[c].pc # "idle"

Unchanged(c) == caller[c].hash = stored

reserveCurrentPasswordAttempt(c) ==
    /\ caller[c].pc = "read"
    /\ Unchanged(c)
    /\ AttemptsLeft >= 1
    /\ bucket' = Spend
    /\ caller' = [caller EXCEPT ![c].pc = "reserved"]
    /\ UNCHANGED <<clock, stored, wrong, right>>

\* In the action, against the snapshot.
VerifyWrong(c) ==
    /\ caller[c].pc = "reserved"
    /\ wrong' = wrong + 1
    /\ caller' = [caller EXCEPT ![c] = NoCaller]
    /\ UNCHANGED <<clock, stored, bucket, right>>

VerifyRight(c) ==
    /\ caller[c].pc = "reserved"
    /\ caller' = [caller EXCEPT ![c].pc = "verified"]
    /\ UNCHANGED <<clock, stored, bucket, wrong, right>>

recordCurrentPasswordVerified(c) ==
    /\ caller[c].pc = "verified"
    /\ Unchanged(c)
    /\ right < MaxRights
    /\ bucket' = FullBucket
    /\ right' = right + (IF caller[c].hash = stored THEN 1 ELSE 0)
    /\ caller' = [caller EXCEPT ![c] = NoCaller]
    /\ UNCHANGED <<clock, stored, wrong>>

\* Refused, or the action died.
Abandon(c) ==
    /\ caller[c].pc # "idle"
    /\ caller' = [caller EXCEPT ![c] = NoCaller]
    /\ UNCHANGED <<clock, stored, bucket, wrong, right>>

Rotate ==
    /\ stored < MaxRotations
    /\ stored' = stored + 1
    /\ UNCHANGED <<clock, bucket, caller, wrong, right>>

Tick ==
    /\ clock < MaxTime
    /\ clock' = clock + 1
    /\ UNCHANGED <<stored, bucket, caller, wrong, right>>

Change(c) ==
    \/ getOwnPasswordAccount(c)
    \/ reserveCurrentPasswordAttempt(c)
    \/ VerifyWrong(c)
    \/ VerifyRight(c)
    \/ recordCurrentPasswordVerified(c)
    \/ Abandon(c)

Next ==
    \/ RefuseSignIn
    \/ AcceptSignIn
    \/ \E c \in Callers : Change(c)
    \/ Rotate
    \/ Tick

\* However sign-ins and password changes interleave with resets, nobody ever
\* verifies more wrong passwords than the budget that the right ones renewed
\* and what time gave back; a password known only before a reset renews
\* nothing.
AttemptsBounded == wrong <= MaxAttempts * (1 + right) + clock
=============================================================================

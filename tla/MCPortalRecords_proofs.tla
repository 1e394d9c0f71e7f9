----------------------- MODULE MCPortalRecords_proofs -----------------------
(***************************************************************************)
(* The portal's records, for any number of requests, people, runs, photos  *)
(* and supervisors, and any bounds.                                        *)
(***************************************************************************)
EXTENDS MCPortalRecords, FiniteSetTheorems, NaturalsInduction,
        WellFoundedInduction, TLAPS

allVars == <<part, vars, attemptVars, closeoutVars, photoVars, peopleVars,
             kioskVars, correctionVars>>

-----------------------------------------------------------------------------
(* Corrections of attendance.                                              *)

CorrectionsTypeOK ==
    /\ asked \in 0..MaxRequests
    /\ DOMAIN wanted = Corrections!Requests
    /\ effects \in [Corrections!Requests -> {0, 1}]

\* What has taken effect is on record, under the id of a request of its kind.
OnRecord ==
    /\ corrections \subseteq 1..asked
    /\ \A r \in corrections : wanted[r].kind = "void"
    /\ \A v \in reversals : v.request \in 1..asked /\ wanted[v.request].kind = "reverse"
    /\ \A r \in Corrections!Requests :
          effects[r] = 1 => r \in corrections \/ \E v \in reversals : v.request = r

CorrectionsInv == CorrectionsTypeOK /\ OnRecord /\ Corrections!OneActiveVoid

LEMMA CorrectionsInitInv ==
    ASSUME Corrections!Init
    PROVE  CorrectionsInv
<1>1. MaxRequests \in Nat
  BY RecordsAssumption
<1>2. CorrectionsTypeOK
  BY <1>1 DEF Corrections!Init, CorrectionsTypeOK
<1>3. OnRecord
  BY DEF Corrections!Init, OnRecord
<1>4. Corrections!OneActiveVoid
  BY DEF Corrections!Init, Corrections!OneActiveVoid, Corrections!ActiveVoids,
         Corrections!PriorVoids
<1> QED
  BY <1>2, <1>3, <1>4 DEF CorrectionsInv

\* A request that is drawn up is none of those that took effect.
LEMMA AskInv ==
    ASSUME CorrectionsInv, NEW what, Corrections!Ask(what)
    PROVE  CorrectionsInv'
<1>1. /\ asked < MaxRequests /\ asked' = asked + 1
      /\ wanted' = [wanted EXCEPT ![asked + 1] = what]
      /\ UNCHANGED <<evidence, corrections, reversals, effects>>
  BY DEF Corrections!Ask
<1>2. MaxRequests \in Nat
  BY RecordsAssumption
<1>3. \A r \in 1..asked : r \in Corrections!Requests /\ wanted'[r] = wanted[r]
  BY <1>1, <1>2 DEF CorrectionsInv, CorrectionsTypeOK, Corrections!Requests
<1>4. CorrectionsTypeOK'
  BY <1>1, <1>2 DEF CorrectionsInv, CorrectionsTypeOK, Corrections!Requests
<1>5. OnRecord'
  BY <1>1, <1>2, <1>3 DEF CorrectionsInv, CorrectionsTypeOK, OnRecord
<1>6. \A e : Corrections!ActiveVoids(e)' = Corrections!ActiveVoids(e)
  BY <1>1, <1>3
     DEF CorrectionsInv, OnRecord, Corrections!ActiveVoids, Corrections!PriorVoids,
         Corrections!IsReversed
<1>7. Corrections!OneActiveVoid'
  BY <1>6 DEF CorrectionsInv, Corrections!OneActiveVoid
<1> QED
  BY <1>4, <1>5, <1>7 DEF CorrectionsInv

LEMMA CreateCorrectionInv ==
    ASSUME CorrectionsInv, NEW r \in 1..asked, Corrections!create(r)
    PROVE  CorrectionsInv'
<1>1. /\ wanted[r].kind = "void" /\ r \notin corrections
      /\ \A c \in Corrections!PriorVoids(wanted[r].event) : Corrections!IsReversed(c)
      /\ corrections' = corrections \cup {r}
      /\ effects' = [effects EXCEPT ![r] = @ + 1]
      /\ UNCHANGED <<evidence, asked, wanted, reversals>>
  BY DEF Corrections!create, Corrections!Replayed, Corrections!NotVoided
<1>2. r \in Corrections!Requests
  BY RecordsAssumption DEF CorrectionsInv, CorrectionsTypeOK, Corrections!Requests
<1>3. effects[r] = 0
  BY <1>1, <1>2 DEF CorrectionsInv, CorrectionsTypeOK, OnRecord
<1>4. CorrectionsTypeOK'
  BY <1>1, <1>2, <1>3 DEF CorrectionsInv, CorrectionsTypeOK
<1>5. OnRecord'
  BY <1>1, <1>2, <1>3 DEF CorrectionsInv, CorrectionsTypeOK, OnRecord
<1>6. Corrections!OneActiveVoid'
  BY <1>1
     DEF CorrectionsInv, Corrections!OneActiveVoid, Corrections!ActiveVoids,
         Corrections!PriorVoids, Corrections!IsReversed
<1> QED
  BY <1>4, <1>5, <1>6 DEF CorrectionsInv

LEMMA ReverseInv ==
    ASSUME CorrectionsInv, NEW r \in 1..asked, Corrections!reverse(r)
    PROVE  CorrectionsInv'
<1>1. /\ wanted[r].kind = "reverse"
      /\ \A v \in reversals : v.request # r
      /\ reversals' = reversals \cup {[correction |-> wanted[r].correction, request |-> r]}
      /\ effects' = [effects EXCEPT ![r] = @ + 1]
      /\ UNCHANGED <<evidence, asked, wanted, corrections>>
  BY DEF Corrections!reverse
<1>2. r \in Corrections!Requests
  BY RecordsAssumption DEF CorrectionsInv, CorrectionsTypeOK, Corrections!Requests
<1>3. effects[r] = 0
  BY <1>1, <1>2 DEF CorrectionsInv, CorrectionsTypeOK, OnRecord
<1>4. CorrectionsTypeOK'
  BY <1>1, <1>2, <1>3 DEF CorrectionsInv, CorrectionsTypeOK
<1>5. OnRecord'
  <2> DEFINE new == [correction |-> wanted[r].correction, request |-> r]
  <2>1. new.request = r /\ reversals' = reversals \cup {new}
    BY <1>1
  <2> HIDE DEF new
  <2>2. \A q \in Corrections!Requests : q # r => effects'[q] = effects[q]
    BY <1>1 DEF CorrectionsInv, CorrectionsTypeOK
  <2> QED
    BY <2>1, <2>2, <1>1, <1>2 DEF CorrectionsInv, OnRecord
<1>6. Corrections!OneActiveVoid'
  BY <1>1
     DEF CorrectionsInv, Corrections!OneActiveVoid, Corrections!ActiveVoids,
         Corrections!PriorVoids, Corrections!IsReversed
<1> QED
  BY <1>4, <1>5, <1>6 DEF CorrectionsInv

LEMMA CorrectionsNextInv ==
    ASSUME CorrectionsInv, Corrections!Next
    PROVE  CorrectionsInv'
<1>1. CASE Corrections!EvidenceChanges
  BY <1>1
     DEF Corrections!EvidenceChanges, CorrectionsInv, CorrectionsTypeOK, OnRecord,
         Corrections!OneActiveVoid, Corrections!ActiveVoids, Corrections!PriorVoids,
         Corrections!IsReversed
<1>2. CASE \E e \in Punches : Corrections!AskVoid(e)
  BY <1>2, AskInv DEF Corrections!AskVoid
<1>3. CASE \E c \in corrections : Corrections!AskReversal(c)
  BY <1>3, AskInv DEF Corrections!AskReversal
<1>4. CASE \E r \in 1..asked : Corrections!create(r) \/ Corrections!reverse(r)
  BY <1>4, CreateCorrectionInv, ReverseInv
<1> QED
  BY <1>1, <1>2, <1>3, <1>4 DEF Corrections!Next

LEMMA CorrectionsStutterInv ==
    ASSUME CorrectionsInv, UNCHANGED correctionVars
    PROVE  CorrectionsInv'
<1>1. CorrectionsTypeOK' /\ OnRecord'
  BY DEF correctionVars, CorrectionsInv, CorrectionsTypeOK, OnRecord
<1>2. Corrections!OneActiveVoid'
  BY DEF correctionVars, CorrectionsInv, Corrections!OneActiveVoid,
         Corrections!ActiveVoids, Corrections!PriorVoids, Corrections!IsReversed
<1> QED
  BY <1>1, <1>2 DEF CorrectionsInv

\* However voids, reversals and late repetitions interleave, no event is voided by
\* two corrections at a time, and a request takes effect at most once.
\* (create, reverse)
THEOREM VoidsAreDoneOnce == MCSpec => []VoidsAreSingle
<1>1. MCInit => CorrectionsInv
  BY CorrectionsInitInv DEF MCInit
<1>2. CorrectionsInv /\ [MCNext]_allVars => CorrectionsInv'
  BY CorrectionsNextInv, CorrectionsStutterInv DEF MCNext, allVars
<1>3. CorrectionsInv => VoidsAreSingle
  BY DEF CorrectionsInv, CorrectionsTypeOK, VoidsAreSingle, Corrections!VoidsAreSingle,
         Corrections!OneEffect
<1> QED
  BY <1>1, <1>2, <1>3, PTL DEF MCSpec, allVars

-----------------------------------------------------------------------------
(* The budget of failed passwords.                                         *)

Bucket == [left : 0..MaxAttempts, at : Nat]
Caller == [pc : {"idle", "read", "reserved", "verified"}, hash : Nat]

AttemptsTypeOK ==
    /\ clock \in Nat
    /\ stored \in Nat
    /\ bucket \in Bucket
    /\ bucket.at <= clock
    /\ caller \in [Callers -> Caller]
    /\ wrong \in Nat
    /\ right \in Nat

\* Changes that may yet find that the password was wrong.
Reserved == {c \in Callers : caller[c].pc = "reserved"}

\* Wrong guesses made, those that may yet turn out and those left are within the
\* budget.
WithinBudget ==
    wrong + Cardinality(Reserved) + Attempts!AttemptsLeft
        <= MaxAttempts * (1 + right) + clock

AttemptsInv == AttemptsTypeOK /\ WithinBudget

LEMMA ReservedIsFinite ==
    /\ IsFiniteSet(Reserved)
    /\ Cardinality(Reserved) \in Nat
BY RecordsAssumption, FS_Subset, FS_CardinalityType DEF Reserved

LEMMA LeastOfTwo ==
    ASSUME NEW m \in Int, NEW n \in Int
    PROVE  Attempts!Min({m, n}) = IF m <= n THEN m ELSE n
BY DEF Attempts!Min

\* What is left of the bucket, now and after an attempt, a renewal and a tick.
LEMMA Left ==
    ASSUME AttemptsTypeOK
    PROVE  Attempts!AttemptsLeft =
             IF MaxAttempts <= bucket.left + (clock - bucket.at) THEN MaxAttempts
             ELSE bucket.left + (clock - bucket.at)
<1>1. MaxAttempts \in Int /\ bucket.left + (clock - bucket.at) \in Int
  BY RecordsAssumption DEF AttemptsTypeOK, Bucket
<1> QED
  BY <1>1, LeastOfTwo DEF Attempts!AttemptsLeft

LEMMA LeftNext ==
    ASSUME AttemptsTypeOK'
    PROVE  Attempts!AttemptsLeft' =
             IF MaxAttempts <= bucket'.left + (clock' - bucket'.at) THEN MaxAttempts
             ELSE bucket'.left + (clock' - bucket'.at)
<1>1. MaxAttempts \in Int /\ bucket'.left + (clock' - bucket'.at) \in Int
  BY RecordsAssumption DEF AttemptsTypeOK, Bucket
<1> QED
  BY <1>1, LeastOfTwo DEF Attempts!AttemptsLeft

LEMMA LeftType ==
    ASSUME AttemptsTypeOK
    PROVE  Attempts!AttemptsLeft \in 0..MaxAttempts
<1>1. MaxAttempts \in Nat /\ bucket.left \in 0..MaxAttempts /\ bucket.at \in Nat
  BY RecordsAssumption DEF AttemptsTypeOK, Bucket
<1> QED
  BY <1>1, Left DEF AttemptsTypeOK

LEMMA SpendStep ==
    ASSUME AttemptsTypeOK, AttemptsTypeOK', UNCHANGED clock,
           Attempts!AttemptsLeft >= 1, bucket' = Attempts!Spend
    PROVE  Attempts!AttemptsLeft' = Attempts!AttemptsLeft - 1
<1> DEFINE left == Attempts!AttemptsLeft
<1>1. left \in 0..MaxAttempts /\ MaxAttempts \in Nat /\ clock \in Nat
  BY LeftType, RecordsAssumption DEF AttemptsTypeOK
<1>2. bucket'.left = left - 1 /\ bucket'.at = clock
  BY DEF Attempts!Spend
<1>3. Attempts!AttemptsLeft' =
        IF MaxAttempts <= bucket'.left + (clock' - bucket'.at) THEN MaxAttempts
        ELSE bucket'.left + (clock' - bucket'.at)
  BY LeftNext
<1> HIDE DEF left
<1> QED
  BY <1>1, <1>2, <1>3 DEF left

LEMMA SpendType ==
    ASSUME AttemptsTypeOK, Attempts!AttemptsLeft >= 1
    PROVE  Attempts!Spend \in Bucket /\ Attempts!Spend.at = clock
<1>1. Attempts!AttemptsLeft \in 0..MaxAttempts /\ MaxAttempts \in Nat
  BY LeftType, RecordsAssumption
<1>2. Attempts!AttemptsLeft - 1 \in 0..MaxAttempts
  BY <1>1
<1> QED
  BY <1>2 DEF Attempts!Spend, Bucket, AttemptsTypeOK

LEMMA FullType ==
    Attempts!FullBucket \in Bucket /\ Attempts!FullBucket.at = 0
<1>1. MaxAttempts \in 0..MaxAttempts
  BY RecordsAssumption
<1> QED
  BY <1>1 DEF Attempts!FullBucket, Bucket

LEMMA AttemptsInitInv ==
    ASSUME Attempts!Init
    PROVE  AttemptsInv
<1>1. AttemptsTypeOK
  BY FullType DEF Attempts!Init, AttemptsTypeOK, Attempts!NoCaller, Caller
<1>2. Reserved = {}
  BY DEF Attempts!Init, Reserved, Attempts!NoCaller
<1>3. Cardinality(Reserved) = 0
  BY <1>2, FS_EmptySet
<1>4. WithinBudget
  BY <1>1, <1>3, LeftType, RecordsAssumption DEF WithinBudget, Attempts!Init
<1> QED
  BY <1>1, <1>4 DEF AttemptsInv

\* A guess verified at once, or the reservation of one: an attempt is spent.
LEMMA SignInInv ==
    ASSUME AttemptsInv, Attempts!RefuseSignIn \/ Attempts!AcceptSignIn
    PROVE  AttemptsInv'
<1>1. MaxAttempts \in Nat /\ Attempts!AttemptsLeft \in 0..MaxAttempts
  BY RecordsAssumption, LeftType DEF AttemptsInv
<1>2. Reserved' = Reserved /\ Cardinality(Reserved) \in Nat
  BY ReservedIsFinite DEF Attempts!RefuseSignIn, Attempts!AcceptSignIn, Reserved
<1>3. AttemptsTypeOK'
  BY SpendType, FullType
     DEF AttemptsInv, AttemptsTypeOK, Attempts!RefuseSignIn, Attempts!AcceptSignIn
<1>4. CASE Attempts!RefuseSignIn
  <2>1. Attempts!AttemptsLeft' = Attempts!AttemptsLeft - 1
    BY <1>3, <1>4, SpendStep DEF AttemptsInv, Attempts!RefuseSignIn
  <2>2. WithinBudget'
    BY <2>1, <1>1, <1>2, <1>4
       DEF AttemptsInv, AttemptsTypeOK, WithinBudget, Attempts!RefuseSignIn
  <2> QED
    BY <2>2, <1>3 DEF AttemptsInv
<1>5. CASE Attempts!AcceptSignIn
  <2>1. Attempts!AttemptsLeft' \in 0..MaxAttempts
    BY <1>1, <1>3, LeftNext DEF AttemptsTypeOK, Bucket
  <2>2. right' = right + 1 /\ UNCHANGED <<clock, wrong>>
    BY <1>5 DEF Attempts!AcceptSignIn
  <2>3. MaxAttempts * (1 + right') = MaxAttempts * (1 + right) + MaxAttempts
    BY <2>2, <1>1 DEF AttemptsInv, AttemptsTypeOK
  <2>4. WithinBudget'
    BY <2>1, <2>2, <2>3, <1>1, <1>2 DEF AttemptsInv, AttemptsTypeOK, WithinBudget
  <2> QED
    BY <2>4, <1>3 DEF AttemptsInv
<1> QED
  BY <1>4, <1>5

\* The steps of a password change that neither reserve nor verify.
LEMMA CallerSteps ==
    ASSUME AttemptsInv, NEW c \in Callers,
           \/ Attempts!getOwnPasswordAccount(c)
           \/ Attempts!VerifyRight(c)
           \/ Attempts!Abandon(c)
    PROVE  AttemptsInv'
<1>1. UNCHANGED <<clock, stored, bucket, wrong, right>>
  BY DEF Attempts!getOwnPasswordAccount, Attempts!VerifyRight, Attempts!Abandon
<1>2. /\ caller' \in [Callers -> Caller]
      /\ caller'[c].pc # "reserved"
      /\ \A d \in Callers : d # c => caller'[d] = caller[d]
  BY DEF Attempts!getOwnPasswordAccount, Attempts!VerifyRight, Attempts!Abandon,
         Attempts!NoCaller, AttemptsInv, AttemptsTypeOK, Caller
<1>3. AttemptsTypeOK'
  BY <1>1, <1>2 DEF AttemptsInv, AttemptsTypeOK
<1>4. Reserved' \subseteq Reserved
  BY <1>2 DEF Reserved
<1>5. Cardinality(Reserved') <= Cardinality(Reserved) /\ Cardinality(Reserved') \in Nat
  BY <1>4, ReservedIsFinite, FS_Subset, FS_CardinalityType
<1>6. Attempts!AttemptsLeft' = Attempts!AttemptsLeft
  BY <1>1 DEF Attempts!AttemptsLeft
<1>7. WithinBudget'
  BY <1>1, <1>5, <1>6, ReservedIsFinite, LeftType, RecordsAssumption
     DEF AttemptsInv, AttemptsTypeOK, WithinBudget
<1> QED
  BY <1>3, <1>7 DEF AttemptsInv

LEMMA ReserveInv ==
    ASSUME AttemptsInv, NEW c \in Callers, Attempts!reserveCurrentPasswordAttempt(c)
    PROVE  AttemptsInv'
<1>1. /\ caller[c].pc = "read"
      /\ Attempts!AttemptsLeft >= 1
      /\ bucket' = Attempts!Spend
      /\ caller' = [caller EXCEPT ![c].pc = "reserved"]
      /\ UNCHANGED <<clock, stored, wrong, right>>
  BY DEF Attempts!reserveCurrentPasswordAttempt
<1>2. AttemptsTypeOK'
  BY <1>1, SpendType DEF AttemptsInv, AttemptsTypeOK, Caller
<1>3. Attempts!AttemptsLeft' = Attempts!AttemptsLeft - 1
  BY <1>1, <1>2, SpendStep DEF AttemptsInv
<1>4. Reserved' = Reserved \cup {c} /\ c \notin Reserved
  BY <1>1 DEF Reserved, AttemptsInv, AttemptsTypeOK, Caller
<1>5. Cardinality(Reserved') = Cardinality(Reserved) + 1
  BY <1>4, ReservedIsFinite, FS_AddElement
<1>6. WithinBudget'
  BY <1>1, <1>3, <1>5, ReservedIsFinite, LeftType, RecordsAssumption
     DEF AttemptsInv, AttemptsTypeOK, WithinBudget
<1> QED
  BY <1>2, <1>6 DEF AttemptsInv

LEMMA VerifyWrongInv ==
    ASSUME AttemptsInv, NEW c \in Callers, Attempts!VerifyWrong(c)
    PROVE  AttemptsInv'
<1>1. /\ caller[c].pc = "reserved"
      /\ wrong' = wrong + 1
      /\ caller' = [caller EXCEPT ![c] = Attempts!NoCaller]
      /\ UNCHANGED <<clock, stored, bucket, right>>
  BY DEF Attempts!VerifyWrong
<1>2. AttemptsTypeOK'
  BY <1>1 DEF AttemptsInv, AttemptsTypeOK, Caller, Attempts!NoCaller
<1>3. Attempts!AttemptsLeft' = Attempts!AttemptsLeft
  BY <1>1 DEF Attempts!AttemptsLeft
<1>4. Reserved' = Reserved \ {c} /\ c \in Reserved
  BY <1>1 DEF Reserved, AttemptsInv, AttemptsTypeOK, Attempts!NoCaller
<1>5. Cardinality(Reserved') = Cardinality(Reserved) - 1
  BY <1>4, ReservedIsFinite, FS_RemoveElement
<1>6. WithinBudget'
  BY <1>1, <1>3, <1>5, ReservedIsFinite, LeftType, RecordsAssumption
     DEF AttemptsInv, AttemptsTypeOK, WithinBudget
<1> QED
  BY <1>2, <1>6 DEF AttemptsInv

\* Only the password of today renews the budget.
LEMMA RenewInv ==
    ASSUME AttemptsInv, NEW c \in Callers, Attempts!recordCurrentPasswordVerified(c)
    PROVE  AttemptsInv'
<1>1. /\ caller[c].pc = "verified"
      /\ bucket' = Attempts!FullBucket
      /\ right' = right + 1
      /\ caller' = [caller EXCEPT ![c] = Attempts!NoCaller]
      /\ UNCHANGED <<clock, stored, wrong>>
  BY DEF Attempts!recordCurrentPasswordVerified, Attempts!Unchanged
<1>2. AttemptsTypeOK'
  BY <1>1, FullType DEF AttemptsInv, AttemptsTypeOK, Caller, Attempts!NoCaller
<1>3. MaxAttempts \in Nat /\ Attempts!AttemptsLeft \in 0..MaxAttempts
  BY RecordsAssumption, LeftType DEF AttemptsInv
<1>4. Attempts!AttemptsLeft' \in 0..MaxAttempts
  BY <1>2, <1>3, LeftNext DEF AttemptsTypeOK, Bucket
<1>5. Reserved' = Reserved
  BY <1>1 DEF Reserved, AttemptsInv, AttemptsTypeOK, Attempts!NoCaller
<1>6. MaxAttempts * (1 + right') = MaxAttempts * (1 + right) + MaxAttempts
  BY <1>1, <1>3 DEF AttemptsInv, AttemptsTypeOK
<1>7. WithinBudget'
  BY <1>1, <1>3, <1>4, <1>5, <1>6, ReservedIsFinite
     DEF AttemptsInv, AttemptsTypeOK, WithinBudget
<1> QED
  BY <1>2, <1>7 DEF AttemptsInv

LEMMA Exchange ==
    ASSUME NEW m \in Nat, NEW n \in Nat, NEW i \in Int, NEW j \in Int, NEW total \in Int,
           NEW c \in Nat, NEW d \in Nat,
           m + n + i <= total + c, j <= i + (d - c)
    PROVE  m + n + j <= total + d
OBVIOUS

\* A password set anew, or time that gives back one attempt at most.
LEMMA RotateTickInv ==
    ASSUME AttemptsInv, Attempts!Rotate \/ Attempts!Tick
    PROVE  AttemptsInv'
<1>1. /\ UNCHANGED <<bucket, caller, wrong, right>>
      /\ stored' \in Nat
      /\ clock' \in {clock, clock + 1}
  BY DEF Attempts!Rotate, Attempts!Tick, AttemptsInv, AttemptsTypeOK
<1>2. AttemptsTypeOK'
  BY <1>1 DEF AttemptsInv, AttemptsTypeOK, Bucket
<1>3. MaxAttempts \in Nat /\ Attempts!AttemptsLeft \in 0..MaxAttempts
  BY RecordsAssumption, LeftType DEF AttemptsInv
<1>4. Attempts!AttemptsLeft' <= Attempts!AttemptsLeft + (clock' - clock)
  <2>1. bucket.left \in Nat /\ bucket.at \in Nat /\ clock \in Nat
    BY DEF AttemptsInv, AttemptsTypeOK, Bucket
  <2>2. Attempts!AttemptsLeft = IF MaxAttempts <= bucket.left + (clock - bucket.at)
                                THEN MaxAttempts ELSE bucket.left + (clock - bucket.at)
    BY Left DEF AttemptsInv
  <2>3. Attempts!AttemptsLeft' = IF MaxAttempts <= bucket.left + (clock' - bucket.at)
                                 THEN MaxAttempts ELSE bucket.left + (clock' - bucket.at)
    BY <1>1, <1>2, LeftNext
  <2> QED
    BY <2>1, <2>2, <2>3, <1>1, <1>3
<1>5. Attempts!AttemptsLeft' \in Int
  BY <1>2, <1>3, LeftNext DEF AttemptsTypeOK, Bucket
<1>6. Reserved' = Reserved
  BY <1>1 DEF Reserved
<1> DEFINE budget == MaxAttempts * (1 + right)
           n == Cardinality(Reserved)
           left == Attempts!AttemptsLeft
           later == Attempts!AttemptsLeft'
<1>7. n \in Nat /\ left \in Int /\ later \in Int /\ later <= left + (clock' - clock)
  BY <1>3, <1>4, <1>5, ReservedIsFinite
<1>8. budget \in Int /\ wrong \in Nat /\ clock \in Nat /\ clock' \in Nat
  BY <1>1, <1>3 DEF AttemptsInv, AttemptsTypeOK
<1>9. wrong + n + left <= budget + clock
  BY DEF AttemptsInv, WithinBudget
<1> HIDE DEF budget, n, left, later
<1>10. wrong + n + later <= budget + clock'
  BY <1>7, <1>8, <1>9, Exchange
<1>11. WithinBudget'
  BY <1>1, <1>6, <1>10 DEF WithinBudget, budget, n, later
<1> QED
  BY <1>2, <1>11 DEF AttemptsInv

LEMMA AttemptsNextInv ==
    ASSUME AttemptsInv, Attempts!Next
    PROVE  AttemptsInv'
BY SignInInv, CallerSteps, ReserveInv, VerifyWrongInv, RenewInv, RotateTickInv
   DEF Attempts!Next, Attempts!Change

LEMMA AttemptsStutterInv ==
    ASSUME AttemptsInv, UNCHANGED attemptVars
    PROVE  AttemptsInv'
<1>1. AttemptsTypeOK'
  BY DEF attemptVars, AttemptsInv, AttemptsTypeOK
<1>2. Reserved' = Reserved /\ Attempts!AttemptsLeft' = Attempts!AttemptsLeft
  BY DEF attemptVars, Reserved, Attempts!AttemptsLeft
<1>3. WithinBudget'
  BY <1>2 DEF attemptVars, AttemptsInv, WithinBudget
<1> QED
  BY <1>1, <1>3 DEF AttemptsInv

\* However sign-ins and password changes interleave with resets, no more wrong
\* passwords are verified than the budget, its renewals and time allow.
\* (reserveCurrentPasswordAttempt, recordCurrentPasswordVerified)
THEOREM AttemptsStayBounded == MCSpec => []AttemptsBounded
<1>1. MCInit => AttemptsInv
  BY AttemptsInitInv DEF MCInit
<1>2. AttemptsInv /\ [MCNext]_allVars => AttemptsInv'
  BY AttemptsNextInv, AttemptsStutterInv DEF MCNext, allVars
<1>3. AttemptsInv => AttemptsBounded
  <2> SUFFICES ASSUME AttemptsInv PROVE AttemptsBounded
    OBVIOUS
  <2>1. Attempts!AttemptsLeft \in 0..MaxAttempts /\ Cardinality(Reserved) \in Nat
    BY LeftType, ReservedIsFinite DEF AttemptsInv
  <2> QED
    BY <2>1, RecordsAssumption
       DEF AttemptsInv, AttemptsTypeOK, WithinBudget, AttemptsBounded,
           Attempts!AttemptsBounded
<1> QED
  BY <1>1, <1>2, <1>3, PTL DEF MCSpec, allVars

-----------------------------------------------------------------------------
(* Alerts of new people.                                                   *)

PeopleEvent == [state : {"none", "pending", "delivered"}, claim : {0, 1}]
Run == [pc : {"idle", "claiming", "sending", "accepted", "refused"},
        attempted : SUBSET People!Events, event : People!Events \cup {People!NoEvent},
        lease : {0, 1}]

PeopleTypeOK ==
    /\ event \in [People!Events -> PeopleEvent]
    /\ run \in [Runs -> Run]

\* A run has an event in hand from its claim to the record of the outcome.
InHand ==
    \A r \in Runs :
        /\ run[r].event # People!NoEvent <=> run[r].pc \in {"sending", "accepted", "refused"}
        /\ run[r].lease = 1 => run[r].event # People!NoEvent

\* While the claim of a run lasts, no other run may claim its event.
Leased ==
    \A r \in Runs : run[r].lease = 1 =>
        \/ event[run[r].event].state = "delivered"
        \/ event[run[r].event].state = "pending" /\ event[run[r].event].claim = 1

PeopleInv == PeopleTypeOK /\ InHand /\ Leased /\ People!ClaimsExclude

LEMMA EventNumbers == People!NoEvent \notin People!Events /\ People!Events \subseteq Nat
BY DEF People!NoEvent, People!Events

LEMMA PeopleInitInv ==
    ASSUME People!Init
    PROVE  PeopleInv
<1>1. PeopleTypeOK
  BY DEF People!Init, PeopleTypeOK, PeopleEvent, Run, People!IdleRun
<1>2. InHand /\ Leased /\ People!ClaimsExclude
  BY DEF People!Init, InHand, Leased, People!ClaimsExclude, People!IdleRun
<1> QED
  BY <1>1, <1>2 DEF PeopleInv

\* A run that takes no event in hand and renews no lease disturbs nothing.
LEMMA RunStep ==
    ASSUME PeopleInv, UNCHANGED event, NEW r \in Runs, NEW new \in Run,
           run' = [run EXCEPT ![r] = new],
           new.event # People!NoEvent <=> new.pc \in {"sending", "accepted", "refused"},
           \/ new.event = run[r].event /\ new.lease = run[r].lease
           \/ new.event = People!NoEvent /\ new.lease = 0
    PROVE  PeopleInv'
<1>1. /\ run' \in [Runs -> Run] /\ run'[r] = new
      /\ \A q \in Runs : q # r => run'[q] = run[q]
  BY DEF PeopleInv, PeopleTypeOK
<1>2. PeopleTypeOK'
  BY <1>1 DEF PeopleInv, PeopleTypeOK
<1>3. InHand'
  BY <1>1 DEF PeopleInv, InHand
<1>4. Leased'
  BY <1>1 DEF PeopleInv, Leased
<1>5. People!ClaimsExclude'
  BY <1>1 DEF PeopleInv, People!ClaimsExclude
<1> QED
  BY <1>2, <1>3, <1>4, <1>5 DEF PeopleInv

LEMMA InsertEventInv ==
    ASSUME PeopleInv, NEW e \in People!Events, People!InsertEvent(e)
    PROVE  PeopleInv'
<1>1. /\ event[e].state = "none"
      /\ event' = [event EXCEPT ![e].state = "pending"]
      /\ UNCHANGED run
  BY DEF People!InsertEvent
<1>2. PeopleTypeOK'
  BY <1>1 DEF PeopleInv, PeopleTypeOK, PeopleEvent
<1>3. InHand' /\ People!ClaimsExclude'
  BY <1>1 DEF PeopleInv, InHand, People!ClaimsExclude
<1>4. Leased'
  BY <1>1 DEF PeopleInv, PeopleTypeOK, Leased
<1> QED
  BY <1>2, <1>3, <1>4 DEF PeopleInv

LEMMA ClaimInv ==
    ASSUME PeopleInv, NEW r \in Runs, NEW e \in People!Events, People!claimPending(r, e)
    PROVE  PeopleInv'
<1> DEFINE new == [pc |-> "sending", attempted |-> run[r].attempted \cup {e},
                   event |-> e, lease |-> 1]
<1>1. /\ event[e].state = "pending" /\ event[e].claim = 0
      /\ event' = [event EXCEPT ![e].claim = 1]
      /\ run' = [run EXCEPT ![r] = new]
  BY DEF People!claimPending, People!Candidates, People!Eligible
<1>2. new \in Run
  <2>1. run[r].attempted \subseteq People!Events
    BY DEF PeopleInv, PeopleTypeOK, Run
  <2> QED
    BY <2>1 DEF Run
<1>3. new.pc = "sending" /\ new.event = e /\ new.lease = 1
  OBVIOUS
<1> HIDE DEF new
<1>4. /\ run' \in [Runs -> Run] /\ run'[r] = new
      /\ \A q \in Runs : q # r => run'[q] = run[q]
  BY <1>1, <1>2 DEF PeopleInv, PeopleTypeOK
<1>5. /\ event' \in [People!Events -> PeopleEvent]
      /\ event'[e].state = "pending" /\ event'[e].claim = 1
      /\ \A d \in People!Events : d # e => event'[d] = event[d]
  BY <1>1 DEF PeopleInv, PeopleTypeOK, PeopleEvent
<1>6. \A q \in Runs : run[q].lease = 1 => run[q].event # e
  BY <1>1 DEF PeopleInv, Leased
<1>7. InHand'
  BY <1>3, <1>4, EventNumbers DEF PeopleInv, InHand
<1>8. Leased'
  <2>1. \A q \in Runs : run[q].event \in People!Events \cup {People!NoEvent}
    BY DEF PeopleInv, PeopleTypeOK, Run
  <2> QED
    BY <2>1, <1>3, <1>4, <1>5, <1>6 DEF PeopleInv, InHand, Leased
<1>9. People!ClaimsExclude'
  <2>1. \A q \in Runs : run[q].lease \in {0, 1}
    BY DEF PeopleInv, PeopleTypeOK, Run
  <2> QED
    BY <2>1, <1>3, <1>4, <1>6 DEF PeopleInv, People!ClaimsExclude
<1> QED
  BY <1>4, <1>5, <1>7, <1>8, <1>9 DEF PeopleInv, PeopleTypeOK

LEMMA FinishInv ==
    ASSUME PeopleInv, NEW r \in Runs, People!finishDelivery(r)
    PROVE  PeopleInv'
<1> DEFINE e == run[r].event
           new == [pc |-> "claiming", attempted |-> run[r].attempted,
                   event |-> People!NoEvent, lease |-> 0]
           outcome == IF run[r].pc = "accepted" THEN [state |-> "delivered", claim |-> 0]
                      ELSE [state |-> "pending", claim |-> 1]
<1>1. /\ run[r].pc \in {"accepted", "refused"}
      /\ event' = IF event[e].state = "delivered" THEN event
                  ELSE [event EXCEPT ![e] = outcome]
      /\ run' = [run EXCEPT ![r] = new]
  BY DEF People!finishDelivery, People!RetryDelay
<1>2. e \in People!Events
  BY <1>1 DEF PeopleInv, PeopleTypeOK, Run, InHand
<1>3. new \in Run /\ new.pc = "claiming" /\ new.event = People!NoEvent /\ new.lease = 0
  <2>1. run[r].attempted \subseteq People!Events
    BY DEF PeopleInv, PeopleTypeOK, Run
  <2> QED
    BY <2>1 DEF Run
<1>4. /\ outcome \in PeopleEvent
      /\ outcome.state = "delivered" \/ (outcome.state = "pending" /\ outcome.claim = 1)
  BY DEF PeopleEvent
<1> HIDE DEF new, e, outcome
<1>5. /\ run' \in [Runs -> Run] /\ run'[r] = new
      /\ \A q \in Runs : q # r => run'[q] = run[q]
  BY <1>1, <1>3 DEF PeopleInv, PeopleTypeOK
<1>6. /\ event' \in [People!Events -> PeopleEvent]
      /\ \/ event'[e].state = "delivered"
         \/ event'[e].state = "pending" /\ event'[e].claim = 1
      /\ \A d \in People!Events : d # e => event'[d] = event[d]
  BY <1>1, <1>2, <1>4 DEF PeopleInv, PeopleTypeOK
<1>7. InHand'
  BY <1>3, <1>5 DEF PeopleInv, InHand
<1>8. Leased'
  <2>1. \A q \in Runs : run[q].event \in People!Events \cup {People!NoEvent}
    BY DEF PeopleInv, PeopleTypeOK, Run
  <2> QED
    BY <2>1, <1>3, <1>5, <1>6 DEF PeopleInv, InHand, Leased
<1>9. People!ClaimsExclude'
  BY <1>3, <1>5 DEF PeopleInv, People!ClaimsExclude
<1> QED
  BY <1>5, <1>6, <1>7, <1>8, <1>9 DEF PeopleInv, PeopleTypeOK

LEMMA PeopleTickInv ==
    ASSUME PeopleInv, People!Tick
    PROVE  PeopleInv'
<1>1. /\ event' = [e \in People!Events |-> [event[e] EXCEPT !.claim = 0]]
      /\ run' = [r \in Runs |-> [run[r] EXCEPT !.lease = 0]]
  BY DEF People!Tick, People!Aged
<1>2. PeopleTypeOK'
  BY <1>1 DEF PeopleInv, PeopleTypeOK, PeopleEvent, Run
<1>3. \A r \in Runs : /\ run'[r].pc = run[r].pc
                      /\ run'[r].event = run[r].event
                      /\ run'[r].lease = 0
  BY <1>1 DEF PeopleInv, PeopleTypeOK, Run
<1>4. InHand'
  BY <1>3 DEF PeopleInv, InHand
<1>5. Leased' /\ People!ClaimsExclude'
  BY <1>3 DEF Leased, People!ClaimsExclude
<1> QED
  BY <1>2, <1>4, <1>5 DEF PeopleInv

LEMMA DeliverInv ==
    ASSUME PeopleInv, NEW r \in Runs, People!Deliver(r) \/ People!RunDies(r)
    PROVE  PeopleInv'
<1>1. run[r] \in Run
  BY DEF PeopleInv, PeopleTypeOK
<1>2. People!IdleRun \in Run
  BY DEF People!IdleRun, Run
<1>3. CASE People!StartRun(r)
  <2> DEFINE new == [run[r] EXCEPT !.pc = "claiming"]
  <2>1. run[r].event = People!NoEvent
    BY <1>3 DEF People!StartRun, PeopleInv, InHand
  <2>2. /\ new \in Run /\ new.pc = "claiming"
        /\ new.event = run[r].event /\ new.lease = run[r].lease
    BY <1>1 DEF Run
  <2>3. run' = [run EXCEPT ![r] = new] /\ UNCHANGED event
    BY <1>3 DEF People!StartRun
  <2> HIDE DEF new
  <2> QED
    BY <2>1, <2>2, <2>3, RunStep
<1>4. CASE \E e \in People!Events : People!claimPending(r, e)
  BY <1>4, ClaimInv
<1>5. CASE People!EndRun(r) \/ People!RunDies(r)
  <2>1. run' = [run EXCEPT ![r] = People!IdleRun] /\ UNCHANGED event
    BY <1>5 DEF People!EndRun, People!RunDies
  <2>2. /\ People!IdleRun.pc = "idle" /\ People!IdleRun.event = People!NoEvent
        /\ People!IdleRun.lease = 0
    BY DEF People!IdleRun
  <2> QED
    BY <1>2, <2>1, <2>2, RunStep
<1>6. CASE People!Send(r)
  <2>1. PICK pc \in {"accepted", "refused"} : run' = [run EXCEPT ![r].pc = pc]
    BY <1>6 DEF People!Send
  <2> DEFINE new == [run[r] EXCEPT !.pc = pc]
  <2>2. run[r].event # People!NoEvent
    BY <1>6 DEF People!Send, PeopleInv, InHand
  <2>3. /\ new \in Run /\ new.pc = pc
        /\ new.event = run[r].event /\ new.lease = run[r].lease
    BY <1>1 DEF Run
  <2>4. run' = [run EXCEPT ![r] = new] /\ UNCHANGED event
    BY <2>1, <1>6 DEF People!Send
  <2> HIDE DEF new
  <2> QED
    BY <2>2, <2>3, <2>4, RunStep
<1>7. CASE People!finishDelivery(r)
  BY <1>7, FinishInv
<1> QED
  BY <1>3, <1>4, <1>5, <1>6, <1>7 DEF People!Deliver

LEMMA PeopleNextInv ==
    ASSUME PeopleInv, People!Next
    PROVE  PeopleInv'
BY InsertEventInv, DeliverInv, PeopleTickInv DEF People!Next

LEMMA PeopleStutterInv ==
    ASSUME PeopleInv, UNCHANGED peopleVars
    PROVE  PeopleInv'
BY DEF peopleVars, PeopleInv, PeopleTypeOK, InHand, Leased, People!ClaimsExclude

\* Two runs have one event in hand only when the claim of one has lapsed, however
\* runs overlap, are late or die.  (claimPending, finishDelivery)
THEOREM ClaimsAreExclusive == MCSpec => []ClaimsExclude
<1>1. MCInit => PeopleInv
  BY PeopleInitInv DEF MCInit
<1>2. PeopleInv /\ [MCNext]_allVars => PeopleInv'
  BY PeopleNextInv, PeopleStutterInv DEF MCNext, allVars
<1>3. PeopleInv => ClaimsExclude
  BY DEF PeopleInv, ClaimsExclude
<1> QED
  BY <1>1, <1>2, <1>3, PTL DEF MCSpec, allVars

-----------------------------------------------------------------------------
(* Alerts of kiosks.                                                       *)

ConditionsOf == [Kiosks -> SUBSET Alerts!Conditions]

Check == [pc : {"idle", "sending"}, checked : SUBSET Kiosks, observed : ConditionsOf,
          alerts : SUBSET Kiosks, recoveries : SUBSET Kiosks,
          notified : ConditionsOf, recovered : ConditionsOf]

AlertsTypeOK ==
    /\ check \in Check
    /\ told \in ConditionsOf
    /\ unrecorded \in ConditionsOf
    /\ check.pc = "idle" => check = Alerts!IdleCheck

\* An alert that is yet to be sent was not, recoveries come after all alerts, and
\* what was told to have cleared is not taken to persist.
SentInOrder ==
    \A k \in Kiosks :
        /\ k \in check.alerts => check.notified[k] = {}
        /\ check.recovered[k] # {} => check.alerts = {}
        /\ check.recovered[k] \cap told[k] = {}

\* What recipients take to persist is on record, or this run will record it, or a
\* run died that would have.
ToldIsKept ==
    \A k \in Kiosks : \A c \in told[k] \ (unrecorded[k] \cup {"stale"}) :
        row[k][c] = "notified" \/ c \in check.notified[k]

AlertsInv == AlertsTypeOK /\ SentInOrder /\ ToldIsKept

LEMMA IdleCheckType ==
    /\ Alerts!IdleCheck \in Check
    /\ Alerts!IdleCheck.pc = "idle"
    /\ Alerts!IdleCheck.alerts = {}
    /\ \A k \in Kiosks : /\ Alerts!IdleCheck.notified[k] = {}
                         /\ Alerts!IdleCheck.recovered[k] = {}
<1>1. Alerts!Nothing \in ConditionsOf /\ \A k \in Kiosks : Alerts!Nothing[k] = {}
  BY DEF Alerts!Nothing, ConditionsOf
<1> QED
  BY <1>1 DEF Alerts!IdleCheck, Check

LEMMA AlertsInitInv ==
    ASSUME Alerts!Init
    PROVE  AlertsInv
<1>1. /\ check = Alerts!IdleCheck
      /\ told \in ConditionsOf /\ unrecorded \in ConditionsOf
      /\ \A k \in Kiosks : told[k] = {}
  BY DEF Alerts!Init, Alerts!Nothing, ConditionsOf
<1> QED
  BY <1>1, IdleCheckType DEF AlertsInv, AlertsTypeOK, SentInOrder, ToldIsKept

\* What happens to a kiosk, and a refused message.
LEMMA KioskChangesInv ==
    ASSUME AlertsInv, UNCHANGED <<row, check, told, unrecorded>>
    PROVE  AlertsInv'
BY DEF AlertsInv, AlertsTypeOK, SentInOrder, ToldIsKept

LEMMA PlanInv ==
    ASSUME AlertsInv, Alerts!planKioskNotifications
    PROVE  AlertsInv'
<1>1. PICK checked \in SUBSET Kiosks, observed \in ConditionsOf,
           alerts \in SUBSET Kiosks, recoveries \in SUBSET Kiosks :
        check' = [Alerts!IdleCheck EXCEPT !.pc = "sending", !.checked = checked,
                                          !.observed = observed, !.alerts = alerts,
                                          !.recoveries = recoveries]
  <2> DEFINE checked == {k \in Kiosks : active[k]}
             observed == [k \in Kiosks |->
                            IF active[k] THEN Alerts!evaluateKioskAlerts(k) ELSE {}]
             alerts == {k \in checked : Alerts!Due(k, observed[k]) # {}}
             recoveries == {k \in checked : Alerts!Cleared(k, observed[k]) # {}}
  <2>1. observed \in ConditionsOf
    BY DEF Alerts!evaluateKioskAlerts, ConditionsOf, Alerts!Conditions
  <2>2. checked \in SUBSET Kiosks /\ alerts \in SUBSET Kiosks /\ recoveries \in SUBSET Kiosks
    OBVIOUS
  <2>3. check' = [Alerts!IdleCheck EXCEPT !.pc = "sending", !.checked = checked,
                                          !.observed = observed, !.alerts = alerts,
                                          !.recoveries = recoveries]
    BY DEF Alerts!planKioskNotifications
  <2> HIDE DEF checked, observed, alerts, recoveries
  <2> QED
    BY <2>1, <2>2, <2>3
<1>2. /\ check' \in Check /\ check'.pc = "sending"
      /\ check'.notified = Alerts!IdleCheck.notified
      /\ check'.recovered = Alerts!IdleCheck.recovered
  BY <1>1, IdleCheckType DEF Check
<1>3. UNCHANGED <<row, told, unrecorded>> /\ check = Alerts!IdleCheck
  BY DEF Alerts!planKioskNotifications, AlertsInv, AlertsTypeOK
<1>4. AlertsTypeOK'
  BY <1>2, <1>3 DEF AlertsInv, AlertsTypeOK
<1>5. SentInOrder'
  BY <1>2, IdleCheckType DEF SentInOrder
<1>6. ToldIsKept'
  BY <1>2, <1>3 DEF AlertsInv, ToldIsKept
<1> QED
  BY <1>4, <1>5, <1>6 DEF AlertsInv

LEMMA DeliverAlertInv ==
    ASSUME AlertsInv, NEW k \in Kiosks, Alerts!DeliverAlert(k)
    PROVE  AlertsInv'
<1> DEFINE due == Alerts!Due(k, check.observed[k])
<1>1. /\ k \in check.alerts
      /\ check' = [check EXCEPT !.alerts = @ \ {k}, !.notified[k] = due]
      /\ told' = [told EXCEPT ![k] = (IF "offline" \in due THEN @ \ {"stale"} ELSE @)
                                        \cup due]
      /\ UNCHANGED <<row, unrecorded>>
  BY DEF Alerts!DeliverAlert, Alerts!Tell
<1>2. check \in Check /\ told \in ConditionsOf /\ check.pc = "sending"
  BY <1>1, IdleCheckType DEF AlertsInv, AlertsTypeOK, Check
<1>3. due \subseteq Alerts!Conditions
  BY <1>2 DEF Alerts!Due, Check, ConditionsOf
<1> HIDE DEF due
<1>4. /\ told' \in ConditionsOf
      /\ told'[k] \subseteq told[k] \cup due
      /\ \A j \in Kiosks : j # k => told'[j] = told[j]
  BY <1>1, <1>2, <1>3 DEF ConditionsOf
<1>5. /\ check' \in Check
      /\ check'.pc = "sending"
      /\ check'.alerts = check.alerts \ {k}
      /\ check'.notified[k] = due
      /\ \A j \in Kiosks : j # k => check'.notified[j] = check.notified[j]
      /\ check'.recovered = check.recovered
  BY <1>1, <1>2, <1>3 DEF Check, ConditionsOf
<1>6. /\ check.notified[k] = {}
      /\ \A j \in Kiosks : check.recovered[j] = {}
  BY <1>1 DEF AlertsInv, SentInOrder
<1>7. AlertsTypeOK'
  BY <1>1, <1>4, <1>5 DEF AlertsInv, AlertsTypeOK
<1>8. SentInOrder'
  BY <1>4, <1>5, <1>6 DEF AlertsInv, SentInOrder
<1>9. ToldIsKept'
  BY <1>1, <1>4, <1>5, <1>6 DEF AlertsInv, ToldIsKept
<1> QED
  BY <1>7, <1>8, <1>9 DEF AlertsInv

LEMMA DeliverRecoveryInv ==
    ASSUME AlertsInv, NEW k \in Kiosks, Alerts!DeliverRecovery(k)
    PROVE  AlertsInv'
<1> DEFINE cleared == Alerts!Cleared(k, check.observed[k])
<1>1. /\ check.alerts = {} /\ k \in check.recoveries
      /\ check' = [check EXCEPT !.recoveries = @ \ {k}, !.recovered[k] = cleared]
      /\ told' = [told EXCEPT ![k] = @ \ cleared]
      /\ UNCHANGED <<row, unrecorded>>
  BY DEF Alerts!DeliverRecovery
<1>2. check \in Check /\ told \in ConditionsOf /\ check.pc = "sending"
  <2>1. Alerts!IdleCheck.recoveries = {}
    BY DEF Alerts!IdleCheck
  <2> QED
    BY <2>1, <1>1 DEF AlertsInv, AlertsTypeOK, Check
<1>3. cleared \subseteq Alerts!Conditions
  BY DEF Alerts!Cleared
<1> HIDE DEF cleared
<1>4. /\ told' \in ConditionsOf
      /\ told'[k] = told[k] \ cleared
      /\ \A j \in Kiosks : j # k => told'[j] = told[j]
  BY <1>1, <1>2 DEF ConditionsOf
<1>5. /\ check' \in Check
      /\ check'.pc = "sending"
      /\ check'.alerts = {}
      /\ check'.notified = check.notified
      /\ check'.recovered[k] = cleared
      /\ \A j \in Kiosks : j # k => check'.recovered[j] = check.recovered[j]
  BY <1>1, <1>2, <1>3 DEF Check, ConditionsOf
<1>6. AlertsTypeOK'
  BY <1>1, <1>4, <1>5 DEF AlertsInv, AlertsTypeOK
<1>7. SentInOrder'
  BY <1>4, <1>5 DEF AlertsInv, SentInOrder
<1>8. ToldIsKept'
  BY <1>1, <1>4, <1>5 DEF AlertsInv, ToldIsKept
<1> QED
  BY <1>6, <1>7, <1>8 DEF AlertsInv

LEMMA RefuseMessageInv ==
    ASSUME AlertsInv, NEW k \in Kiosks, Alerts!RefuseMessage(k)
    PROVE  AlertsInv'
<1>1. /\ \/ k \in check.alerts /\ check' = [check EXCEPT !.alerts = @ \ {k}]
         \/ k \in check.recoveries /\ check' = [check EXCEPT !.recoveries = @ \ {k}]
      /\ UNCHANGED <<row, told, unrecorded>>
  BY DEF Alerts!RefuseMessage
<1>2. check \in Check /\ check.pc = "sending"
  <2>1. Alerts!IdleCheck.recoveries = {}
    BY DEF Alerts!IdleCheck
  <2> QED
    BY <2>1, <1>1, IdleCheckType DEF AlertsInv, AlertsTypeOK, Check
<1>3. /\ check' \in Check
      /\ check'.pc = "sending"
      /\ check'.alerts \subseteq check.alerts
      /\ check'.notified = check.notified
      /\ check'.recovered = check.recovered
  BY <1>1, <1>2 DEF Check
<1>4. AlertsTypeOK'
  BY <1>1, <1>3 DEF AlertsInv, AlertsTypeOK
<1>5. SentInOrder' /\ ToldIsKept'
  BY <1>1, <1>3 DEF AlertsInv, SentInOrder, ToldIsKept
<1> QED
  BY <1>4, <1>5 DEF AlertsInv

LEMMA RecordInv ==
    ASSUME AlertsInv, Alerts!recordState
    PROVE  AlertsInv'
<1>1. /\ row' = [k \in Kiosks |-> [c \in Alerts!Conditions |->
            IF c \in check.notified[k] THEN "notified"
            ELSE IF c \in check.observed[k] /\ row[k][c] = "none" THEN "open"
            ELSE IF Alerts!Resolved(k, c) THEN "none"
            ELSE row[k][c]]]
      /\ check' = Alerts!IdleCheck
      /\ told' = [k \in Kiosks |-> IF k \in check.checked THEN told[k] ELSE {}]
      /\ unrecorded' = [k \in Kiosks |-> unrecorded[k] \ check.notified[k]]
  BY DEF Alerts!recordState
<1>2. AlertsTypeOK'
  BY <1>1, IdleCheckType DEF AlertsInv, AlertsTypeOK, ConditionsOf
<1>3. SentInOrder'
  BY <1>1, IdleCheckType DEF SentInOrder
<1>4. ToldIsKept'
  <2> SUFFICES ASSUME NEW k \in Kiosks,
                      NEW c \in told'[k] \ (unrecorded'[k] \cup {"stale"})
               PROVE  row'[k][c] = "notified"
    BY DEF ToldIsKept
  <2>1. k \in check.checked /\ c \in told[k] /\ c # "stale" /\ c \in Alerts!Conditions
    BY <1>1 DEF AlertsInv, AlertsTypeOK, ConditionsOf
  <2>2. CASE c \in check.notified[k]
    BY <2>1, <2>2, <1>1
  <2>3. CASE c \notin check.notified[k]
    <3>1. c \notin unrecorded[k]
      BY <2>3, <1>1
    <3>2. row[k][c] = "notified"
      BY <3>1, <2>1, <2>3 DEF AlertsInv, ToldIsKept
    <3>3. c \notin check.recovered[k]
      BY <2>1 DEF AlertsInv, SentInOrder
    <3>4. ~Alerts!Resolved(k, c)
      BY <3>2, <3>3, <2>1 DEF Alerts!Resolved, Alerts!Escalated
    <3> QED
      BY <3>2, <3>4, <2>1, <2>3, <1>1
  <2> QED
    BY <2>2, <2>3
<1> QED
  BY <1>2, <1>3, <1>4 DEF AlertsInv

LEMMA CheckDiesInv ==
    ASSUME AlertsInv, Alerts!RunDies
    PROVE  AlertsInv'
<1>1. /\ unrecorded' = [k \in Kiosks |-> unrecorded[k] \cup check.notified[k]]
      /\ check' = Alerts!IdleCheck
      /\ UNCHANGED <<row, told>>
  BY DEF Alerts!RunDies
<1>2. AlertsTypeOK'
  <2>1. check.notified \in ConditionsOf
    BY DEF AlertsInv, AlertsTypeOK, Check
  <2> QED
    BY <2>1, <1>1, IdleCheckType DEF AlertsInv, AlertsTypeOK, ConditionsOf
<1>3. SentInOrder'
  BY <1>1, IdleCheckType DEF SentInOrder
<1>4. ToldIsKept'
  BY <1>1 DEF AlertsInv, ToldIsKept
<1> QED
  BY <1>2, <1>3, <1>4 DEF AlertsInv

LEMMA AlertsNextInv ==
    ASSUME AlertsInv, Alerts!Next
    PROVE  AlertsInv'
<1>1. CASE \E k \in Kiosks : Alerts!Sync(k) \/ Alerts!FallSilent(k) \/ Alerts!SetActive(k)
  BY <1>1, KioskChangesInv DEF Alerts!Sync, Alerts!FallSilent, Alerts!SetActive
<1>2. CASE \E k \in Kiosks :
             \/ Alerts!DeliverAlert(k) \/ Alerts!DeliverRecovery(k)
             \/ Alerts!RefuseMessage(k)
  BY <1>2, DeliverAlertInv, DeliverRecoveryInv, RefuseMessageInv
<1>3. CASE Alerts!planKioskNotifications \/ Alerts!recordState \/ Alerts!RunDies
  BY <1>3, PlanInv, RecordInv, CheckDiesInv
<1> QED
  BY <1>1, <1>2, <1>3 DEF Alerts!Next

\* Between runs what the recipients were told is on record until they are told it
\* cleared, unless a run died in between.
\* (planKioskNotifications, deliver, recordState)
THEOREM ToldStaysRecorded == MCSpec => []ToldIsRecorded
<1>1. MCInit => AlertsInv
  BY AlertsInitInv DEF MCInit
<1>2. AlertsInv /\ [MCNext]_allVars => AlertsInv'
  BY AlertsNextInv, KioskChangesInv DEF MCNext, allVars, kioskVars
<1>3. AlertsInv => ToldIsRecorded
  BY IdleCheckType
     DEF AlertsInv, AlertsTypeOK, ToldIsKept, ToldIsRecorded, Alerts!ToldIsRecorded
<1> QED
  BY <1>1, <1>2, <1>3, PTL DEF MCSpec, allVars

-----------------------------------------------------------------------------
(* Closeouts of a shift.                                                   *)

Tab == [request : {0} \cup Closeout!Requests, awaiting : BOOLEAN,
        rejected : BOOLEAN]

CloseoutTypeOK ==
    /\ decided \in 0..MaxActions
    /\ closeout.revision \in {Closeout!NoRevision} \cup (Nat \ {0})
    /\ closeout.revision = Closeout!NoRevision => closeout = Closeout!NoCloseout
    /\ DOMAIN receipts = Closeout!Requests
    /\ DOMAIN intent = Closeout!Requests
    /\ \A r \in 1..decided : intent[r].actor \in Actors /\ intent[r].expected \in Int
    /\ DOMAIN page = Actors
    /\ \A a \in Actors : page[a].revision \in Int
    /\ tab \in [Actors -> Tab]
    /\ wire \in [Closeout!Requests -> Nat]
    /\ applied \in [Closeout!Requests -> {0, 1}]

\* A tab keeps an action of its own supervisor.
OwnActions ==
    \A a \in Actors :
        tab[a].request # 0 => /\ tab[a].request \in 1..decided
                              /\ intent[tab[a].request].actor = a

\* Nothing takes effect without a receipt.
Receipted ==
    \A r \in Closeout!Requests :
        applied[r] = 1 => receipts[r] # Closeout!NoReceipt

\* A rejected action did nothing, and no copy of it is left that could.
RejectedIsOver ==
    \A a \in Actors :
        tab[a].rejected =>
            /\ tab[a].request # 0
            /\ \/ tab[a].request \in doubtful
               \/ applied[tab[a].request] = 0 /\ wire[tab[a].request] = 0

\* Nobody has seen a revision that is yet to come.
SeenRevisions ==
    /\ \A a \in Actors : page[a].revision <= closeout.revision
    /\ \A r \in 1..decided : intent[r].expected <= closeout.revision

\* An acknowledgement that counts, or may yet count, is one that is vouched for.
VouchedFor ==
    /\ closeout.acknowledged =>
            closeout.evidence = Closeout!Clear \/ closeout.evidence \in vouched
    /\ \A r \in 1..decided :
            intent[r].acknowledge = "yes" /\ intent[r].expected = closeout.revision =>
                intent[r].evidence \in vouched

CloseoutInv ==
    /\ CloseoutTypeOK
    /\ OwnActions
    /\ Receipted
    /\ RejectedIsOver
    /\ SeenRevisions
    /\ VouchedFor

LEMMA CloseoutInitInv ==
    ASSUME Closeout!Init
    PROVE  CloseoutInv
<1>1. MaxActions \in Nat /\ ~Closeout!NoCloseout.acknowledged
  BY RecordsAssumption DEF Closeout!NoCloseout
<1>2. CloseoutTypeOK
  BY <1>1
     DEF Closeout!Init, CloseoutTypeOK, Closeout!NoCloseout, Closeout!NoRevision,
         Closeout!NoTab, Closeout!NoRequest, Tab
<1>3. OwnActions /\ RejectedIsOver
  BY DEF Closeout!Init, OwnActions, RejectedIsOver, Closeout!NoTab,
         Closeout!NoRequest
<1>4. Receipted
  BY DEF Closeout!Init, Receipted
<1>5. SeenRevisions
  BY DEF Closeout!Init, SeenRevisions, Closeout!NoCloseout, Closeout!NoRevision
<1>6. VouchedFor
  BY <1>1 DEF Closeout!Init, VouchedFor
<1> QED
  BY <1>2, <1>3, <1>4, <1>5, <1>6 DEF CloseoutInv

LEMMA BlockersInv ==
    ASSUME CloseoutInv, NEW e, Closeout!BlockersChange(e)
    PROVE  CloseoutInv'
  BY DEF Closeout!BlockersChange, Closeout!serverVars, CloseoutInv, CloseoutTypeOK,
         OwnActions, Receipted, RejectedIsOver, SeenRevisions, VouchedFor

LEMMA BuildPayloadInv ==
    ASSUME CloseoutInv, NEW a \in Actors, Closeout!buildCloseoutPayload(a)
    PROVE  CloseoutInv'
<1> DEFINE shown == [revision |-> closeout.revision, status |-> closeout.status,
                     evidence |-> blockers]
<1>1. /\ page' = [page EXCEPT ![a] = shown]
      /\ UNCHANGED <<closeout, receipts, decided, intent, tab, wire, applied,
                     vouched, doubtful>>
  BY DEF Closeout!buildCloseoutPayload, Closeout!serverVars
<1>2. shown.revision = closeout.revision
  OBVIOUS
<1> HIDE DEF shown
<1>3. closeout.revision \in Int /\ closeout.revision <= closeout.revision
  BY DEF CloseoutInv, CloseoutTypeOK, Closeout!NoRevision
<1>4. CloseoutTypeOK'
  BY <1>1, <1>2, <1>3 DEF CloseoutInv, CloseoutTypeOK
<1>5. SeenRevisions'
  BY <1>1, <1>2, <1>3 DEF CloseoutInv, CloseoutTypeOK, SeenRevisions
<1>6. (OwnActions /\ Receipted /\ RejectedIsOver /\ VouchedFor)'
  BY <1>1 DEF CloseoutInv, OwnActions, Receipted, RejectedIsOver, VouchedFor
<1> QED
  BY <1>4, <1>5, <1>6 DEF CloseoutInv

LEMMA BeginActionInv ==
    ASSUME CloseoutInv, NEW a \in Actors, NEW action, NEW acknowledge,
           Closeout!beginCloseoutAction(a, action, acknowledge)
    PROVE  CloseoutInv'
<1> DEFINE r == decided + 1
           decision ==
             [actor |-> a, action |-> action,
              expected |-> page[a].revision, acknowledge |-> acknowledge,
              evidence |-> IF acknowledge = "yes" THEN page[a].evidence
                           ELSE Closeout!Clear]
           kept == [request |-> decided + 1, awaiting |-> FALSE, rejected |-> FALSE]
<1>1. /\ decided < MaxActions
      /\ decided' = r
      /\ intent' = [intent EXCEPT ![r] = decision]
      /\ tab' = [tab EXCEPT ![a] = kept]
      /\ vouched' = IF acknowledge = "yes" THEN vouched \cup {page[a].evidence}
                    ELSE vouched
      /\ UNCHANGED <<closeout, receipts, page, wire, applied, doubtful>>
  BY DEF Closeout!beginCloseoutAction, Closeout!serverVars
<1>2. decided \in 0..MaxActions /\ MaxActions \in Nat
  BY RecordsAssumption DEF CloseoutInv, CloseoutTypeOK
<1>3. /\ r \in Closeout!Requests /\ r # 0 /\ r \in 1..decided'
      /\ \A q \in 1..decided' : q = r \/ q \in 1..decided
      /\ \A q \in 1..decided : q # r /\ q \in 1..decided' /\ q \in Closeout!Requests
  BY <1>1, <1>2 DEF Closeout!Requests
<1>4. /\ decision.actor = a /\ decision.expected = page[a].revision
      /\ decision.acknowledge = acknowledge
      /\ acknowledge = "yes" => decision.evidence = page[a].evidence
  OBVIOUS
<1>5. kept \in Tab /\ kept.request = r /\ ~kept.rejected
  BY <1>3 DEF Tab
<1> HIDE DEF decision, kept, r
<1>6. /\ intent'[r] = decision
      /\ \A q \in 1..decided : intent'[q] = intent[q]
      /\ DOMAIN intent' = Closeout!Requests
      /\ tab'[a] = kept
      /\ \A b \in Actors \ {a} : tab'[b] = tab[b]
      /\ tab' \in [Actors -> Tab]
  BY <1>1, <1>3, <1>5 DEF CloseoutInv, CloseoutTypeOK
<1>7. CloseoutTypeOK'
  <2>1. decided' \in 0..MaxActions
    BY <1>1, <1>2, <1>3 DEF Closeout!Requests
  <2>2. \A q \in 1..decided' : intent'[q].actor \in Actors /\ intent'[q].expected \in Int
    BY <1>3, <1>4, <1>6 DEF CloseoutInv, CloseoutTypeOK
  <2> QED
    BY <2>1, <2>2, <1>1, <1>6 DEF CloseoutInv, CloseoutTypeOK
<1>8. OwnActions'
  <2> SUFFICES ASSUME NEW b \in Actors, tab'[b].request # 0
               PROVE  /\ tab'[b].request \in 1..decided'
                      /\ intent'[tab'[b].request].actor = b
    BY DEF OwnActions
  <2>1. CASE b = a
    BY <2>1, <1>3, <1>4, <1>5, <1>6
  <2>2. CASE b # a
    BY <2>2, <1>3, <1>6 DEF CloseoutInv, OwnActions
  <2> QED
    BY <2>1, <2>2
<1>9. Receipted'
  BY <1>1 DEF CloseoutInv, Receipted
<1>10. RejectedIsOver'
  BY <1>1, <1>5, <1>6 DEF CloseoutInv, RejectedIsOver
<1>11. SeenRevisions'
  BY <1>1, <1>3, <1>4, <1>6 DEF CloseoutInv, SeenRevisions
<1>12. VouchedFor'
  BY <1>1, <1>3, <1>4, <1>6 DEF CloseoutInv, VouchedFor
<1> QED
  BY <1>7, <1>8, <1>9, <1>10, <1>11, <1>12 DEF CloseoutInv

LEMMA SendActionInv ==
    ASSUME CloseoutInv, NEW a \in Actors, Closeout!sendCloseoutAction(a)
    PROVE  CloseoutInv'
<1> DEFINE r == tab[a].request
           sent == [tab[a] EXCEPT !.awaiting = TRUE]
<1>1. /\ r # 0
      /\ tab' = [tab EXCEPT ![a] = sent]
      /\ wire' = [wire EXCEPT ![r] = @ + 1]
      /\ doubtful' = IF tab[a].rejected THEN doubtful \cup {r} ELSE doubtful
      /\ UNCHANGED <<closeout, receipts, decided, intent, page, applied, vouched>>
  BY DEF Closeout!sendCloseoutAction, Closeout!serverVars, Closeout!NoRequest
<1>2. tab[a] \in Tab
  BY DEF CloseoutInv, CloseoutTypeOK
<1>3. sent \in Tab /\ sent.request = r /\ (sent.rejected <=> tab[a].rejected)
  BY <1>2 DEF Tab
<1>4. r \in Closeout!Requests /\ r \in 1..decided /\ intent[r].actor = a
  BY <1>1, <1>2 DEF CloseoutInv, OwnActions, Tab
<1> HIDE DEF r, sent
<1>5. /\ tab'[a] = sent
      /\ \A b \in Actors \ {a} : tab'[b] = tab[b]
      /\ tab' \in [Actors -> Tab]
  BY <1>1, <1>3 DEF CloseoutInv, CloseoutTypeOK
<1>6. /\ wire' \in [Closeout!Requests -> Nat]
      /\ \A q \in Closeout!Requests \ {r} : wire'[q] = wire[q]
  BY <1>1, <1>4 DEF CloseoutInv, CloseoutTypeOK
<1>7. CloseoutTypeOK'
  BY <1>1, <1>5, <1>6 DEF CloseoutInv, CloseoutTypeOK
<1>8. OwnActions'
  BY <1>1, <1>3, <1>4, <1>5 DEF CloseoutInv, OwnActions
<1>9. RejectedIsOver'
  <2> SUFFICES ASSUME NEW b \in Actors, tab'[b].rejected
               PROVE  /\ tab'[b].request # 0
                      /\ \/ tab'[b].request \in doubtful'
                         \/ /\ applied'[tab'[b].request] = 0
                            /\ wire'[tab'[b].request] = 0
    BY DEF RejectedIsOver
  <2>1. CASE b = a
    BY <2>1, <1>1, <1>3, <1>5
  <2>2. CASE b # a
    <3>1. tab'[b] = tab[b] /\ tab[b].rejected
      BY <2>2, <1>5
    <3>2. /\ tab[b].request # 0
          /\ \/ tab[b].request \in doubtful
             \/ applied[tab[b].request] = 0 /\ wire[tab[b].request] = 0
      BY <3>1 DEF CloseoutInv, RejectedIsOver
    <3>3. tab[b].request \in Closeout!Requests /\ tab[b].request # r
      BY <3>2, <2>2, <1>4 DEF CloseoutInv, OwnActions, CloseoutTypeOK, Tab
    <3>4. wire'[tab[b].request] = wire[tab[b].request]
      BY <3>3, <1>6
    <3> QED
      BY <3>1, <3>2, <3>4, <1>1
  <2> QED
    BY <2>1, <2>2
<1>10. (Receipted /\ SeenRevisions /\ VouchedFor)'
  BY <1>1 DEF CloseoutInv, Receipted, SeenRevisions, VouchedFor
<1> QED
  BY <1>7, <1>8, <1>9, <1>10 DEF CloseoutInv

LEMMA AnswerLostInv ==
    ASSUME CloseoutInv, NEW a \in Actors, Closeout!AnswerLost(a)
    PROVE  CloseoutInv'
<1> DEFINE waiting == [tab[a] EXCEPT !.awaiting = FALSE]
<1>1. /\ tab' = [tab EXCEPT ![a] = waiting]
      /\ UNCHANGED <<closeout, receipts, decided, intent, page, wire, applied,
                     vouched, doubtful>>
  BY DEF Closeout!AnswerLost, Closeout!serverVars
<1>2. tab[a] \in Tab
  BY DEF CloseoutInv, CloseoutTypeOK
<1>3. /\ waiting \in Tab /\ waiting.request = tab[a].request
      /\ waiting.rejected <=> tab[a].rejected
  BY <1>2 DEF Tab
<1> HIDE DEF waiting
<1>4. /\ tab' \in [Actors -> Tab]
      /\ \A b \in Actors : /\ tab'[b].request = tab[b].request
                           /\ tab'[b].rejected <=> tab[b].rejected
  BY <1>1, <1>3 DEF CloseoutInv, CloseoutTypeOK
<1>5. CloseoutTypeOK'
  BY <1>1, <1>4 DEF CloseoutInv, CloseoutTypeOK
<1>6. OwnActions' /\ RejectedIsOver'
  BY <1>1, <1>4 DEF CloseoutInv, OwnActions, RejectedIsOver
<1>7. (Receipted /\ SeenRevisions /\ VouchedFor)'
  BY <1>1 DEF CloseoutInv, Receipted, SeenRevisions, VouchedFor
<1> QED
  BY <1>5, <1>6, <1>7 DEF CloseoutInv

LEMMA NoTabType ==
    Closeout!NoTab \in Tab /\ Closeout!NoTab.request = 0 /\ ~Closeout!NoTab.rejected
  BY DEF Closeout!NoTab, Closeout!NoRequest, Tab

LEMMA ReconcileInv ==
    ASSUME CloseoutInv, NEW a \in Actors, Closeout!reconcileRejectedCloseoutAction(a)
    PROVE  CloseoutInv'
<1>1. /\ tab' = [tab EXCEPT ![a] = Closeout!NoTab]
      /\ UNCHANGED <<closeout, receipts, decided, intent, page, wire, applied,
                     vouched, doubtful>>
  BY DEF Closeout!reconcileRejectedCloseoutAction, Closeout!serverVars
<1>2. /\ tab' \in [Actors -> Tab]
      /\ \A b \in Actors : tab'[b] = IF b = a THEN Closeout!NoTab ELSE tab[b]
  BY <1>1, NoTabType DEF CloseoutInv, CloseoutTypeOK
<1>3. CloseoutTypeOK'
  BY <1>1, <1>2 DEF CloseoutInv, CloseoutTypeOK
<1>4. OwnActions' /\ RejectedIsOver'
  BY <1>1, <1>2, NoTabType DEF CloseoutInv, OwnActions, RejectedIsOver
<1>5. (Receipted /\ SeenRevisions /\ VouchedFor)'
  BY <1>1 DEF CloseoutInv, Receipted, SeenRevisions, VouchedFor
<1> QED
  BY <1>3, <1>4, <1>5 DEF CloseoutInv

\* What an answer does to the tabs: the one that waits forgets its action, or
\* keeps it, as rejected only for a conflict.
Answers(r) ==
    /\ tab' \in [Actors -> Tab]
    /\ \A a \in Actors :
        \/ tab'[a] = tab[a]
        \/ tab'[a].request = 0 /\ ~tab'[a].rejected
        \/ /\ tab[a].request = r /\ tab'[a].request = r
           /\ \/ ~tab'[a].rejected
              \/ tab[a].rejected
              \/ ~Closeout!Answered(r) /\ (wire[r] > 1 => r \in doubtful')

LEMMA ConfirmTabs ==
    ASSUME CloseoutInv, NEW r \in 1..decided, Closeout!Confirm(r)
    PROVE  Answers(r)
<1>1. tab \in [Actors -> Tab] /\ intent[r].actor \in Actors
  BY DEF CloseoutInv, CloseoutTypeOK
<1>2. CASE Closeout!Waits(r)
  <2>1. tab' = [tab EXCEPT ![intent[r].actor] = Closeout!NoTab]
    BY <1>2 DEF Closeout!Confirm
  <2> QED
    BY <2>1, <1>1, NoTabType DEF Answers
<1>3. CASE ~Closeout!Waits(r)
  BY <1>1, <1>3 DEF Closeout!Confirm, Answers
<1> QED
  BY <1>2, <1>3

LEMMA RefuseTabs ==
    ASSUME CloseoutInv, NEW r \in 1..decided, ~Closeout!Answered(r),
           Closeout!Refuse(r)
    PROVE  Answers(r) /\ doubtful \subseteq doubtful'
<1> DEFINE conflict == \/ intent[r].expected # closeout.revision
                       \/ Closeout!StatusAllows(r) /\ ~Closeout!BlockersAccepted(r)
           a == intent[r].actor
           refused == [tab[a] EXCEPT !.awaiting = FALSE,
                                     !.rejected = @ \/ conflict]
<1>1. tab \in [Actors -> Tab] /\ a \in Actors
  BY DEF CloseoutInv, CloseoutTypeOK
<1>2. conflict \in BOOLEAN
  OBVIOUS
<1>3. /\ tab' = IF Closeout!Waits(r)
                THEN [tab EXCEPT ![a].awaiting = FALSE, ![a].rejected = @ \/ conflict]
                ELSE tab
      /\ doubtful' = IF Closeout!Waits(r) /\ conflict /\ wire[r] > 1
                     THEN doubtful \cup {r} ELSE doubtful
  BY DEF Closeout!Refuse
<1> HIDE DEF conflict
<1>4. CASE Closeout!Waits(r)
  <2>1. tab[a].request = r
    BY <1>4 DEF Closeout!Waits
  <2>2. tab' = [tab EXCEPT ![a] = refused]
    BY <1>1, <1>2, <1>3, <1>4 DEF Tab
  <2>3. /\ refused \in Tab /\ refused.request = r
        /\ refused.rejected => tab[a].rejected \/ conflict
    BY <1>1, <1>2, <2>1 DEF Tab
  <2> HIDE DEF refused
  <2>4. /\ tab' \in [Actors -> Tab]
        /\ tab'[a] = refused
        /\ \A b \in Actors \ {a} : tab'[b] = tab[b]
    BY <1>1, <2>2, <2>3
  <2>5. refused.rejected =>
            tab[a].rejected \/ (wire[r] > 1 => r \in doubtful')
    BY <1>3, <1>4, <2>3
  <2>6. Answers(r)
    BY <2>1, <2>3, <2>4, <2>5 DEF Answers
  <2> QED
    BY <2>6, <1>3
<1>5. CASE ~Closeout!Waits(r)
  BY <1>1, <1>3, <1>5 DEF Answers
<1> QED
  BY <1>4, <1>5

\* What every answer of the mutation keeps.
LEMMA AnsweredInv ==
    ASSUME CloseoutInv, NEW r \in 1..decided, wire[r] > 0, Answers(r),
           wire' = [wire EXCEPT ![r] = @ - 1],
           UNCHANGED <<decided, intent, page>>,
           doubtful \subseteq doubtful',
           applied' = applied \/ applied' = [applied EXCEPT ![r] = @ + 1],
           \A q \in Closeout!Requests \ {r} : receipts'[q] = receipts[q],
           DOMAIN receipts' = Closeout!Requests,
           receipts'[r] = receipts[r] \/ receipts'[r] # Closeout!NoReceipt,
           applied' # applied =>
                /\ ~Closeout!Answered(r)
                /\ receipts'[r] # Closeout!NoReceipt
                /\ Closeout!Confirm(r)
    PROVE  /\ wire' \in [Closeout!Requests -> Nat]
           /\ applied' \in [Closeout!Requests -> {0, 1}]
           /\ OwnActions' /\ Receipted' /\ RejectedIsOver'
<1>1. r \in Closeout!Requests
  BY RecordsAssumption DEF CloseoutInv, CloseoutTypeOK, Closeout!Requests
<1>2. /\ wire \in [Closeout!Requests -> Nat]
      /\ applied \in [Closeout!Requests -> {0, 1}]
      /\ tab \in [Actors -> Tab]
  BY DEF CloseoutInv, CloseoutTypeOK
<1>3. ~Closeout!Answered(r) => applied[r] = 0
  BY <1>1, <1>2 DEF CloseoutInv, Receipted, Closeout!Answered
<1>4. /\ wire' \in [Closeout!Requests -> Nat]
      /\ wire'[r] = wire[r] - 1
      /\ \A q \in Closeout!Requests \ {r} : wire'[q] = wire[q]
  BY <1>1, <1>2
<1>5. /\ applied' \in [Closeout!Requests -> {0, 1}]
      /\ \A q \in Closeout!Requests \ {r} : applied'[q] = applied[q]
  BY <1>1, <1>2, <1>3
<1>6. OwnActions'
  BY DEF Answers, CloseoutInv, OwnActions
<1>7. Receipted'
  <2> SUFFICES ASSUME NEW q \in Closeout!Requests, applied'[q] = 1
               PROVE  receipts'[q] # Closeout!NoReceipt
    BY DEF Receipted
  <2>1. CASE q # r
    BY <2>1, <1>5 DEF CloseoutInv, Receipted
  <2>2. CASE q = r /\ applied' = applied
    BY <2>2 DEF CloseoutInv, Receipted
  <2>3. CASE q = r /\ applied' # applied
    BY <2>3
  <2> QED
    BY <2>1, <2>2, <2>3
<1>8. RejectedIsOver'
  <2> SUFFICES ASSUME NEW a \in Actors, tab'[a].rejected
               PROVE  /\ tab'[a].request # 0
                      /\ \/ tab'[a].request \in doubtful'
                         \/ /\ applied'[tab'[a].request] = 0
                            /\ wire'[tab'[a].request] = 0
    BY DEF RejectedIsOver
  <2> DEFINE q == tab[a].request
  <2>1. CASE tab[a].rejected /\ tab'[a].request = q
    <3>1. /\ q # 0
          /\ \/ q \in doubtful
             \/ applied[q] = 0 /\ wire[q] = 0
      <4>1. RejectedIsOver /\ tab[a].rejected
        BY <2>1 DEF CloseoutInv
      <4> QED
        BY <4>1 DEF RejectedIsOver
    <3>2. q \in Closeout!Requests
      BY <1>2, <3>1 DEF Tab
    <3>3. CASE q \in doubtful
      BY <3>1, <3>3, <2>1
    <3>4. CASE applied[q] = 0 /\ wire[q] = 0
      BY <3>1, <3>2, <3>4, <1>4, <1>5, <2>1
    <3> QED
      BY <3>1, <3>3, <3>4
  <2>2. CASE /\ tab[a].request = r /\ tab'[a].request = r /\ ~tab[a].rejected
             /\ ~Closeout!Answered(r) /\ (wire[r] > 1 => r \in doubtful')
    <3>1. applied' = applied
      <4> SUFFICES ASSUME applied' # applied
                   PROVE  FALSE
        OBVIOUS
      <4>1. intent[r].actor = a /\ Closeout!Confirm(r)
        BY <2>2, <1>1 DEF CloseoutInv, OwnActions, Closeout!Requests
      <4>2. tab' = [tab EXCEPT ![a] = Closeout!NoTab] \/ tab' = tab
        BY <4>1 DEF Closeout!Confirm
      <4> QED
        BY <4>2, <2>2, <1>2, NoTabType
    <3>2. r # 0 /\ applied'[r] = 0
      BY <3>1, <2>2, <1>1, <1>3 DEF Closeout!Requests
    <3>3. wire[r] > 1 \/ wire'[r] = 0
      BY <1>1, <1>2, <1>4
    <3> QED
      BY <3>2, <3>3, <2>2
  <2> QED
    BY <2>1, <2>2 DEF Answers
<1> QED
  BY <1>4, <1>5, <1>6, <1>7, <1>8

LEMMA SavesNothingInv ==
    ASSUME CloseoutInv, NEW r \in 1..decided, Closeout!save(r),
           UNCHANGED <<closeout, receipts, applied, vouched>>,
           Answers(r), doubtful \subseteq doubtful'
    PROVE  CloseoutInv'
<1>1. /\ wire[r] > 0 /\ wire' = [wire EXCEPT ![r] = @ - 1]
      /\ UNCHANGED <<decided, intent, page>>
  BY DEF Closeout!save
<1>2. DOMAIN receipts' = Closeout!Requests
  BY DEF CloseoutInv, CloseoutTypeOK
<1>3. /\ wire' \in [Closeout!Requests -> Nat]
      /\ applied' \in [Closeout!Requests -> {0, 1}]
      /\ OwnActions' /\ Receipted' /\ RejectedIsOver'
  BY <1>1, <1>2, AnsweredInv
<1>4. CloseoutTypeOK'
  BY <1>1, <1>3 DEF CloseoutInv, CloseoutTypeOK, Answers
<1>5. SeenRevisions' /\ VouchedFor'
  BY <1>1 DEF CloseoutInv, SeenRevisions, VouchedFor
<1> QED
  BY <1>3, <1>4, <1>5 DEF CloseoutInv

LEMMA AlreadyCompleteInv ==
    ASSUME CloseoutInv, NEW r \in 1..decided, Closeout!save(r),
           Closeout!AlreadyComplete(r), Closeout!Confirm(r),
           receipts' = [receipts EXCEPT ![r] = [revision |-> closeout.revision,
                                                status |-> closeout.status]],
           UNCHANGED <<closeout, applied, vouched, doubtful>>
    PROVE  CloseoutInv'
<1> DEFINE receipt == [revision |-> closeout.revision, status |-> closeout.status]
<1>1. /\ wire[r] > 0 /\ wire' = [wire EXCEPT ![r] = @ - 1]
      /\ UNCHANGED <<decided, intent, page>>
  BY DEF Closeout!save
<1>2. receipt # Closeout!NoReceipt
  BY DEF Closeout!AlreadyComplete, Closeout!Completed, Closeout!NoReceipt
<1> HIDE DEF receipt
<1>3. /\ r \in Closeout!Requests
      /\ DOMAIN receipts = Closeout!Requests
  BY RecordsAssumption DEF CloseoutInv, CloseoutTypeOK, Closeout!Requests
<1>4. /\ DOMAIN receipts' = Closeout!Requests
      /\ receipts'[r] = receipt
      /\ \A q \in Closeout!Requests \ {r} : receipts'[q] = receipts[q]
  BY <1>3 DEF receipt
<1>5. Answers(r)
  BY ConfirmTabs
<1>6. /\ wire' \in [Closeout!Requests -> Nat]
      /\ applied' \in [Closeout!Requests -> {0, 1}]
      /\ OwnActions' /\ Receipted' /\ RejectedIsOver'
  BY <1>1, <1>2, <1>4, <1>5, AnsweredInv
<1>7. CloseoutTypeOK'
  BY <1>1, <1>4, <1>5, <1>6 DEF CloseoutInv, CloseoutTypeOK, Answers
<1>8. SeenRevisions' /\ VouchedFor'
  BY <1>1 DEF CloseoutInv, SeenRevisions, VouchedFor
<1> QED
  BY <1>6, <1>7, <1>8 DEF CloseoutInv

\* Whoever signs, the blockers are none or vouched for.
LEMMA AcceptedIsVouched ==
    ASSUME CloseoutInv, NEW r \in 1..decided, Closeout!Accepted(r),
           Closeout!Acknowledged(r)
    PROVE  blockers = Closeout!Clear \/ blockers \in vouched
<1>1. /\ intent[r].action # "reopen"
      /\ \/ intent[r].acknowledge = "yes"
         \/ closeout.acknowledged /\ closeout.evidence = blockers
  BY DEF Closeout!Acknowledged
<1>2. CASE closeout.acknowledged /\ closeout.evidence = blockers
  BY <1>2 DEF CloseoutInv, VouchedFor
<1>3. CASE intent[r].acknowledge = "yes"
  <2>1. intent[r].expected = closeout.revision
    BY DEF Closeout!Accepted
  <2>2. intent[r].evidence \in vouched
    BY <1>3, <2>1 DEF CloseoutInv, VouchedFor
  <2>3. blockers # Closeout!Clear => intent[r].evidence = blockers
    BY <1>1, <1>3 DEF Closeout!Accepted, Closeout!BlockersAccepted
  <2> QED
    BY <2>2, <2>3
<1> QED
  BY <1>1, <1>2, <1>3

LEMMA AcceptedInv ==
    ASSUME CloseoutInv, NEW r \in 1..decided, Closeout!save(r),
           Closeout!Accepted(r), Closeout!ApplyAction(r), Closeout!Confirm(r),
           UNCHANGED doubtful
    PROVE  CloseoutInv'
<1> DEFINE revision == Closeout!NextRevision
           signed == [revision |-> revision, status |-> Closeout!NextStatus(r),
                      acknowledged |-> Closeout!Acknowledged(r),
                      evidence |-> IF Closeout!Acknowledged(r) THEN blockers
                                   ELSE Closeout!Clear]
           receipt == [revision |-> revision, status |-> Closeout!NextStatus(r)]
<1>1. /\ wire[r] > 0 /\ wire' = [wire EXCEPT ![r] = @ - 1]
      /\ UNCHANGED <<decided, intent, page>>
  BY DEF Closeout!save
<1>2. /\ closeout' = signed
      /\ receipts' = [receipts EXCEPT ![r] = receipt]
      /\ applied' = [applied EXCEPT ![r] = @ + 1]
      /\ vouched' = IF intent[r].action = "reopen" THEN {} ELSE vouched
  BY DEF Closeout!ApplyAction
<1>3. revision \in Nat \ {0} /\ revision > closeout.revision
  <2>1. CASE closeout = Closeout!NoCloseout
    BY <2>1 DEF Closeout!NextRevision, Closeout!NoCloseout, Closeout!NoRevision
  <2>2. CASE closeout # Closeout!NoCloseout
    BY <2>2 DEF Closeout!NextRevision, CloseoutInv, CloseoutTypeOK
  <2> QED
    BY <2>1, <2>2
<1>4. /\ signed.revision = revision
      /\ signed.acknowledged =>
            signed.evidence = blockers /\ Closeout!Acknowledged(r)
  OBVIOUS
<1>5. receipt # Closeout!NoReceipt
  BY <1>3 DEF Closeout!NoReceipt, Closeout!NoRevision
<1> HIDE DEF signed, receipt, revision
<1>6. /\ r \in Closeout!Requests
      /\ DOMAIN receipts = Closeout!Requests
      /\ applied \in [Closeout!Requests -> {0, 1}]
  BY RecordsAssumption DEF CloseoutInv, CloseoutTypeOK, Closeout!Requests
<1>7. /\ DOMAIN receipts' = Closeout!Requests
      /\ receipts'[r] = receipt
      /\ \A q \in Closeout!Requests \ {r} : receipts'[q] = receipts[q]
  BY <1>2, <1>6
<1>8. Answers(r) /\ ~Closeout!Answered(r)
  BY ConfirmTabs DEF Closeout!Accepted
<1>9. /\ wire' \in [Closeout!Requests -> Nat]
      /\ applied' \in [Closeout!Requests -> {0, 1}]
      /\ OwnActions' /\ Receipted' /\ RejectedIsOver'
  BY <1>1, <1>2, <1>5, <1>7, <1>8, AnsweredInv
<1>10. CloseoutTypeOK'
  BY <1>1, <1>2, <1>3, <1>4, <1>7, <1>8, <1>9
     DEF CloseoutInv, CloseoutTypeOK, Answers, Closeout!NoRevision
<1>11. /\ closeout.revision \in Int
       /\ \A a \in Actors : page[a].revision \in Int
       /\ \A q \in 1..decided : intent[q].expected \in Int
  BY DEF CloseoutInv, CloseoutTypeOK, Closeout!NoRevision
<1>12. SeenRevisions'
  BY <1>1, <1>2, <1>3, <1>4, <1>11 DEF CloseoutInv, SeenRevisions
<1>13. \A q \in 1..decided : intent[q].expected # closeout'.revision
  BY <1>2, <1>3, <1>4, <1>11 DEF CloseoutInv, SeenRevisions
<1>14. closeout'.acknowledged =>
            \/ closeout'.evidence = Closeout!Clear
            \/ closeout'.evidence \in vouched'
  <2> SUFFICES ASSUME closeout'.acknowledged
               PROVE  \/ closeout'.evidence = Closeout!Clear
                      \/ closeout'.evidence \in vouched'
    OBVIOUS
  <2>1. closeout'.evidence = blockers /\ Closeout!Acknowledged(r)
    BY <1>2, <1>4
  <2>2. vouched' = vouched
    BY <2>1, <1>2 DEF Closeout!Acknowledged
  <2> QED
    BY <2>1, <2>2, AcceptedIsVouched
<1>15. VouchedFor'
  BY <1>1, <1>13, <1>14 DEF VouchedFor
<1> QED
  BY <1>9, <1>10, <1>12, <1>15 DEF CloseoutInv

LEMMA SaveInv ==
    ASSUME CloseoutInv, NEW r \in 1..decided, Closeout!save(r)
    PROVE  CloseoutInv'
<1>1. CASE /\ Closeout!Answered(r) /\ Closeout!Confirm(r)
           /\ UNCHANGED <<closeout, receipts, applied, vouched, doubtful>>
  BY <1>1, ConfirmTabs, SavesNothingInv
<1>2. CASE /\ Closeout!AlreadyComplete(r)
           /\ receipts' = [receipts EXCEPT ![r] = [revision |-> closeout.revision,
                                                   status |-> closeout.status]]
           /\ Closeout!Confirm(r)
           /\ UNCHANGED <<closeout, applied, vouched, doubtful>>
  BY <1>2, AlreadyCompleteInv
<1>3. CASE /\ Closeout!Accepted(r) /\ Closeout!ApplyAction(r) /\ Closeout!Confirm(r)
           /\ UNCHANGED doubtful
  BY <1>3, AcceptedInv
<1>4. CASE /\ ~Closeout!Answered(r) /\ Closeout!Refuse(r)
           /\ UNCHANGED <<closeout, receipts, applied, vouched>>
  BY <1>4, RefuseTabs, SavesNothingInv
<1> QED
  BY <1>1, <1>2, <1>3, <1>4 DEF Closeout!save, Closeout!serverVars

LEMMA CloseoutNextInv ==
    ASSUME CloseoutInv, Closeout!Next
    PROVE  CloseoutInv'
<1>1. CASE \E e \in Evidence \cup {Closeout!Clear} : Closeout!BlockersChange(e)
  BY <1>1, BlockersInv
<1>2. CASE \E a \in Actors : Closeout!Browse(a)
  BY <1>2, BuildPayloadInv, BeginActionInv, SendActionInv, AnswerLostInv, ReconcileInv
     DEF Closeout!Browse
<1>3. CASE \E r \in 1..decided : Closeout!save(r)
  BY <1>3, SaveInv
<1> QED
  BY <1>1, <1>2, <1>3 DEF Closeout!Next

LEMMA CloseoutStutterInv ==
    ASSUME CloseoutInv, UNCHANGED closeoutVars
    PROVE  CloseoutInv'
<1>1. CloseoutTypeOK'
  BY DEF CloseoutInv, CloseoutTypeOK, closeoutVars
<1>2. (OwnActions /\ Receipted /\ RejectedIsOver)'
  BY DEF CloseoutInv, OwnActions, Receipted, RejectedIsOver, closeoutVars
<1>3. (SeenRevisions /\ VouchedFor)'
  BY DEF CloseoutInv, SeenRevisions, VouchedFor, closeoutVars
<1> QED
  BY <1>1, <1>2, <1>3 DEF CloseoutInv

LEMMA CloseoutStepInv ==
    ASSUME CloseoutInv, [MCNext]_allVars
    PROVE  CloseoutInv'
<1>1. CASE Closeout!Next
  BY <1>1, CloseoutNextInv
<1>2. CASE UNCHANGED closeoutVars
  BY <1>2, CloseoutStutterInv
<1> QED
  BY <1>1, <1>2 DEF MCNext, allVars

\* An action takes effect once at most, however often it is sent and answered, and
\* not at all once the page has reported it as rejected while no other copy of it
\* was under way.  (save, beginCloseoutAction, reconcileRejectedCloseoutAction)
THEOREM RejectedStaysUnapplied == MCSpec => []RejectedNotApplied
<1>1. MCInit => CloseoutInv
  BY CloseoutInitInv DEF MCInit
<1>2. CloseoutInv /\ [MCNext]_allVars => CloseoutInv'
  BY CloseoutStepInv
<1>3. CloseoutInv => RejectedNotApplied
  BY DEF CloseoutInv, CloseoutTypeOK, RejectedIsOver, RejectedNotApplied,
         Closeout!RejectedNotApplied
<1> QED
  BY <1>1, <1>2, <1>3, PTL DEF MCSpec, allVars

\* A step that signs the closeout signs blockers that are none, or that somebody
\* saw and acknowledged since it was last open.
LEMMA SigningIsVouched ==
    ASSUME CloseoutInv, Closeout!Next, closeout' # closeout,
           closeout'.status = "completed"
    PROVE  blockers = Closeout!Clear \/ blockers \in vouched
<1>1. PICK r \in 1..decided : Closeout!save(r)
  BY DEF Closeout!Next, Closeout!Browse, Closeout!BlockersChange,
         Closeout!buildCloseoutPayload, Closeout!beginCloseoutAction,
         Closeout!sendCloseoutAction, Closeout!AnswerLost,
         Closeout!reconcileRejectedCloseoutAction, Closeout!serverVars
<1>2. Closeout!Accepted(r) /\ Closeout!ApplyAction(r)
  BY <1>1 DEF Closeout!save, Closeout!serverVars
<1>3. closeout'.status = Closeout!NextStatus(r)
  BY <1>2 DEF Closeout!ApplyAction
<1>4. intent[r].action = "complete"
  BY <1>2, <1>3
     DEF Closeout!Accepted, Closeout!StatusAllows, Closeout!Completed,
         Closeout!NextStatus, Closeout!NoCloseout
<1>5. blockers # Closeout!Clear => Closeout!Acknowledged(r)
  BY <1>2, <1>4 DEF Closeout!Accepted, Closeout!BlockersAccepted
<1> QED
  BY <1>2, <1>5, AcceptedIsVouched

\* A closeout is signed only with blockers that a supervisor saw, though they
\* change between the page and the signature.  (save, Acknowledged)
THEOREM SignedIsVouched == MCSpec => SignedForSeenBlockers
<1>1. MCInit => CloseoutInv
  BY CloseoutInitInv DEF MCInit
<1>2. CloseoutInv /\ [MCNext]_allVars => CloseoutInv'
  BY CloseoutStepInv
<1>3. CloseoutInv /\ [MCNext]_allVars =>
        [closeout' # closeout /\ closeout'.status = "completed" =>
            blockers = Closeout!Clear \/ blockers \in vouched]_Closeout!vars
  BY SigningIsVouched DEF MCNext, allVars, closeoutVars
<1> QED
  BY <1>1, <1>2, <1>3, PTL DEF MCSpec, allVars, SignedForSeenBlockers,
     Closeout!SignedForSeenBlockers

-----------------------------------------------------------------------------
(* Enrollment photos.                                                      *)

PhotosTypeOK ==
    /\ hour \in Nat
    /\ uploads \in 0..MaxPhotos
    /\ files \subseteq 0..uploads
    /\ DOMAIN pending = Photos!Photos
    /\ DOMAIN attached = Workers
    /\ DOMAIN storing = Enrollers

\* A file between its storage and its registration is of one upload only.
Unregistered ==
    \A u \in Enrollers :
        storing[u] # Photos!NoPhoto =>
            /\ storing[u] \in files
            /\ ~Photos!IsPending(storing[u])
            /\ storing[u] \notin Photos!Attached
            /\ \A v \in Enrollers : storing[v] = storing[u] => v = u

PhotosInv ==
    /\ PhotosTypeOK
    /\ Unregistered
    /\ Photos!AttachedPhotosKept
    /\ Photos!NothingLeftBehind

LEMMA AttachedTo ==
    ASSUME NEW p
    PROVE  p \in Photos!Attached <=> \E w \in Workers : p \in attached[w]
  BY DEF Photos!Attached

LEMMA FilesArePhotos ==
    ASSUME PhotosTypeOK
    PROVE  files \subseteq Photos!Photos /\ uploads + 1 \notin files
  BY RecordsAssumption DEF PhotosTypeOK, Photos!Photos

LEMMA PhotosInitInv ==
    ASSUME Photos!Init
    PROVE  PhotosInv
<1>1. PhotosTypeOK
  BY RecordsAssumption DEF Photos!Init, PhotosTypeOK, Photos!LegacyPhoto
<1>2. Unregistered
  BY DEF Photos!Init, Unregistered, Photos!IsPending
<1>3. \A p \in Photos!Photos : pending[p] = Photos!NotPending
  BY DEF Photos!Init, Photos!IsPending
<1>4. Photos!Attached = {Photos!LegacyPhoto}
  <2>1. /\ attached \in [Workers -> {{}, {Photos!LegacyPhoto}}]
        /\ \E w \in Workers : attached[w] # {}
    BY DEF Photos!Init
  <2>2. \A w \in Workers : attached[w] = {} \/ attached[w] = {Photos!LegacyPhoto}
    BY <2>1
  <2> QED
    BY <2>1, <2>2 DEF Photos!Attached
<1>5. files = {Photos!LegacyPhoto}
  BY DEF Photos!Init
<1> QED
  BY <1>1, <1>2, <1>3, <1>4, <1>5
     DEF PhotosInv, Photos!AttachedPhotosKept, Photos!NothingLeftBehind,
         Photos!IsPending

\* Steps of a request that touch no photo.
LEMMA RequestInv ==
    ASSUME PhotosInv,
           UNCHANGED <<files, uploads, pending, expiries, attached, storing,
                       strayed>>,
           hour' = hour \/ hour' = hour + 1
    PROVE  PhotosInv'
<1>1. PhotosTypeOK'
  BY DEF PhotosInv, PhotosTypeOK
<1>2. Unregistered'
  BY DEF PhotosInv, Unregistered, Photos!IsPending, Photos!Attached
<1>3. Photos!AttachedPhotosKept'
  BY DEF PhotosInv, Photos!AttachedPhotosKept, Photos!IsPending, Photos!Attached
<1>4. Photos!NothingLeftBehind'
  BY DEF PhotosInv, Photos!NothingLeftBehind, Photos!IsPending, Photos!Attached
<1> QED
  BY <1>1, <1>2, <1>3, <1>4 DEF PhotosInv

LEMMA StoreInv ==
    ASSUME PhotosInv, NEW u \in Enrollers, Photos!Store(u)
    PROVE  PhotosInv'
<1> DEFINE p == uploads + 1
<1>1. /\ storing[u] = Photos!NoPhoto /\ uploads < MaxPhotos
      /\ uploads' = p
      /\ files' = files \cup {p}
      /\ storing' = [storing EXCEPT ![u] = p]
      /\ UNCHANGED <<hour, pending, expiries, attached, strayed>>
  BY DEF Photos!Store
<1>2. uploads \in Nat /\ MaxPhotos \in Nat
  BY RecordsAssumption DEF PhotosInv, PhotosTypeOK
<1>3. p \in Photos!Photos /\ p \notin files
  BY <1>1, <1>2, FilesArePhotos DEF PhotosInv, Photos!Photos
<1>4. PhotosTypeOK'
  BY <1>1, <1>2 DEF PhotosInv, PhotosTypeOK
<1> HIDE DEF p
<1>5. /\ storing'[u] = p
      /\ \A v \in Enrollers \ {u} : storing'[v] = storing[v]
  BY <1>1 DEF PhotosInv, PhotosTypeOK
<1>6. Photos!Attached' = Photos!Attached
  BY <1>1 DEF Photos!Attached
<1>7. \A q : pending'[q] # Photos!NotPending <=> pending[q] # Photos!NotPending
  BY <1>1 DEF Photos!IsPending
<1>8. p \notin Photos!Attached /\ pending[p] = Photos!NotPending
  BY <1>3 DEF PhotosInv, Photos!AttachedPhotosKept, Photos!IsPending
<1>9. \A v \in Enrollers : storing[v] # p
  BY <1>2, <1>3 DEF PhotosInv, Unregistered, Photos!NoPhoto, p, Photos!IsPending
<1>10. Unregistered'
  <2> SUFFICES ASSUME NEW v \in Enrollers, storing'[v] # Photos!NoPhoto
               PROVE  /\ storing'[v] \in files'
                      /\ pending'[storing'[v]] = Photos!NotPending
                      /\ storing'[v] \notin Photos!Attached'
                      /\ \A x \in Enrollers : storing'[x] = storing'[v] => x = v
    BY DEF Unregistered, Photos!IsPending
  <2>1. CASE v = u
    BY <2>1, <1>1, <1>5, <1>6, <1>7, <1>8, <1>9
  <2>2. CASE v # u
    BY <2>2, <1>1, <1>5, <1>6, <1>7, <1>9 DEF PhotosInv, Unregistered, Photos!IsPending
  <2> QED
    BY <2>1, <2>2
<1>11. Photos!AttachedPhotosKept'
  BY <1>1, <1>6, <1>7 DEF PhotosInv, Photos!AttachedPhotosKept, Photos!IsPending
<1>12. Photos!NothingLeftBehind'
  <2> SUFFICES ASSUME NEW q \in files' \ (Photos!Attached' \cup strayed')
               PROVE  \/ \E v \in Enrollers : storing'[v] = q
                      \/ pending'[q] # Photos!NotPending /\ q \in expiries'
    BY DEF Photos!NothingLeftBehind, Photos!IsPending
  <2>1. CASE q = p
    BY <2>1, <1>5
  <2>2. CASE q # p
    <3>1. \/ \E v \in Enrollers : storing[v] = q
          \/ pending[q] # Photos!NotPending /\ q \in expiries
      BY <2>2, <1>1, <1>6 DEF PhotosInv, Photos!NothingLeftBehind, Photos!IsPending
    <3>2. q \in files
      BY <2>2, <1>1
    <3>3. q # storing[u]
      BY <1>1, <3>2 DEF PhotosInv, PhotosTypeOK, Photos!NoPhoto
    <3> QED
      BY <3>1, <3>3, <1>1, <1>5, <1>7
  <2> QED
    BY <2>1, <2>2
<1> QED
  BY <1>4, <1>10, <1>11, <1>12 DEF PhotosInv

\* An upload that ends: its file is registered, deleted again or strays.
LEMMA UploadEndsInv ==
    ASSUME PhotosInv, NEW u \in Enrollers, storing[u] # Photos!NoPhoto,
           storing' = [storing EXCEPT ![u] = Photos!NoPhoto],
           UNCHANGED <<hour, uploads, attached>>,
           \/ /\ pending' = [pending EXCEPT ![storing[u]] =
                                [owner |-> u, expires |-> hour + 1]]
              /\ expiries' = expiries \cup {storing[u]}
              /\ UNCHANGED <<files, strayed>>
           \/ /\ files' = files \ {storing[u]}
              /\ UNCHANGED <<pending, expiries, strayed>>
           \/ /\ strayed' = strayed \cup {storing[u]}
              /\ UNCHANGED <<files, pending, expiries>>
    PROVE  PhotosInv'
<1> DEFINE registered == [owner |-> u, expires |-> hour + 1]
<1> PICK p : p = storing[u]
  OBVIOUS
<1>1. /\ p \in files /\ pending[p] = Photos!NotPending /\ p \notin Photos!Attached
      /\ \A v \in Enrollers \ {u} : storing[v] # p
  BY DEF PhotosInv, Unregistered, Photos!IsPending
<1>2. p \in Photos!Photos
  BY <1>1, FilesArePhotos DEF PhotosInv
<1>3. registered # Photos!NotPending
  <2>1. registered.expires # Photos!NotPending.expires
    BY DEF PhotosInv, PhotosTypeOK, Photos!NotPending
  <2> QED
    BY <2>1
<1> HIDE DEF registered
<1>4. /\ storing'[u] = Photos!NoPhoto
      /\ \A v \in Enrollers \ {u} : storing'[v] = storing[v]
      /\ DOMAIN storing' = Enrollers
  BY DEF PhotosInv, PhotosTypeOK
<1>5. \/ /\ pending'[p] = registered
         /\ expiries' = expiries \cup {p}
         /\ UNCHANGED <<files, strayed>>
      \/ /\ files' = files \ {p}
         /\ UNCHANGED <<pending, expiries, strayed>>
      \/ /\ strayed' = strayed \cup {p}
         /\ UNCHANGED <<files, pending, expiries>>
  BY <1>2 DEF PhotosInv, PhotosTypeOK, registered
<1>6. /\ DOMAIN pending' = Photos!Photos
      /\ \A q \in Photos!Photos \ {p} : pending'[q] = pending[q]
  BY <1>2 DEF PhotosInv, PhotosTypeOK
<1>7. Photos!Attached' = Photos!Attached
  BY DEF Photos!Attached
<1>8. PhotosTypeOK'
  BY <1>4, <1>5, <1>6 DEF PhotosInv, PhotosTypeOK
<1>9. \A q \in Photos!Photos \ {p} :
          /\ pending'[q] # Photos!NotPending <=> pending[q] # Photos!NotPending
          /\ q \in files' <=> q \in files
          /\ q \in strayed' <=> q \in strayed
          /\ q \in expiries' <=> q \in expiries
  BY <1>5, <1>6 DEF Photos!IsPending
<1>10. pending'[p] # Photos!NotPending => p \in files' /\ p \in expiries'
  BY <1>1, <1>5 DEF Photos!IsPending
<1>11. p \in files' => p \in strayed' \/ pending'[p] # Photos!NotPending
  BY <1>3, <1>5 DEF Photos!IsPending
<1>12. Unregistered'
  <2> SUFFICES ASSUME NEW v \in Enrollers, storing'[v] # Photos!NoPhoto
               PROVE  /\ storing'[v] \in files'
                      /\ pending'[storing'[v]] = Photos!NotPending
                      /\ storing'[v] \notin Photos!Attached'
                      /\ \A x \in Enrollers : storing'[x] = storing'[v] => x = v
    BY DEF Unregistered, Photos!IsPending
  <2>1. v # u /\ storing'[v] = storing[v] /\ storing[v] # p
    BY <1>1, <1>4
  <2>2. /\ storing[v] \in files /\ pending[storing[v]] = Photos!NotPending
        /\ storing[v] \notin Photos!Attached
        /\ \A x \in Enrollers : storing[x] = storing[v] => x = v
    BY <2>1 DEF PhotosInv, Unregistered, Photos!IsPending
  <2>3. storing[v] \in Photos!Photos \ {p}
    BY <2>1, <2>2, FilesArePhotos DEF PhotosInv
  <2>4. \A x \in Enrollers : storing'[x] = storing'[v] => x = v
    BY <2>1, <2>2, <1>4
  <2> QED
    BY <2>1, <2>2, <2>3, <2>4, <1>7, <1>9 DEF Photos!IsPending
<1>13. Photos!AttachedPhotosKept'
  <2>1. Photos!Attached' \subseteq files'
    BY <1>1, <1>7, <1>9, FilesArePhotos DEF PhotosInv, Photos!AttachedPhotosKept, Photos!IsPending
  <2>2. ASSUME NEW q \in Photos!Photos, pending'[q] # Photos!NotPending
        PROVE  q \in files' \ Photos!Attached'
    BY <2>2, <1>1, <1>7, <1>9, <1>10 DEF PhotosInv, Photos!AttachedPhotosKept, Photos!IsPending
  <2> QED
    BY <2>1, <2>2 DEF Photos!AttachedPhotosKept, Photos!IsPending
<1>14. Photos!NothingLeftBehind'
  <2> SUFFICES ASSUME NEW q \in files' \ (Photos!Attached' \cup strayed')
               PROVE  \/ \E v \in Enrollers : storing'[v] = q
                      \/ pending'[q] # Photos!NotPending /\ q \in expiries'
    BY DEF Photos!NothingLeftBehind, Photos!IsPending
  <2>1. CASE q = p
    BY <2>1, <1>10, <1>11
  <2>2. CASE q # p
    <3>1. q \in Photos!Photos
      BY <1>8, FilesArePhotos, RecordsAssumption DEF PhotosTypeOK, Photos!Photos
    <3>2. \/ \E v \in Enrollers : storing[v] = q
          \/ pending[q] # Photos!NotPending /\ q \in expiries
      BY <3>1, <2>2, <1>7, <1>9 DEF PhotosInv, Photos!NothingLeftBehind, Photos!IsPending
    <3> QED
      BY <3>1, <3>2, <2>2, <1>4, <1>9
  <2> QED
    BY <2>1, <2>2
<1> QED
  BY <1>8, <1>12, <1>13, <1>14 DEF PhotosInv

\* A worker's photos are replaced by next; what only that worker named is deleted.
LEMMA ReplaceInv ==
    ASSUME PhotosInv, NEW w \in Workers, NEW next,
           \A p \in next : p \in files /\ \/ pending[p] # Photos!NotPending
                                          \/ p \in attached[w],
           DOMAIN pending' = Photos!Photos,
           \A p \in Photos!Photos :
               pending'[p] = IF p \in next THEN Photos!NotPending ELSE pending[p],
           files' = files \ Photos!Replaced(w, next),
           attached' = [attached EXCEPT ![w] = next],
           UNCHANGED <<hour, uploads, expiries, storing, strayed>>
    PROVE  PhotosInv'
<1>1. /\ attached'[w] = next
      /\ \A v \in Workers \ {w} : attached'[v] = attached[v]
      /\ DOMAIN attached' = Workers
  BY DEF PhotosInv, PhotosTypeOK
<1>2. \A p : /\ p \in Photos!Attached <=> \E v \in Workers : p \in attached[v]
             /\ p \in Photos!Attached' <=>
                    p \in next \/ \E v \in Workers \ {w} : p \in attached[v]
             /\ p \in files' <=>
                    p \in files /\ (p \in Photos!Attached => p \in Photos!Attached')
  BY <1>1 DEF Photos!Attached, Photos!Replaced
<1>3. PhotosTypeOK'
  BY <1>1 DEF PhotosInv, PhotosTypeOK
<1>4. \A p \in Photos!Photos :
          pending'[p] # Photos!NotPending <=>
              pending[p] # Photos!NotPending /\ p \notin next
  OBVIOUS
<1>5. Unregistered'
  <2> SUFFICES ASSUME NEW u \in Enrollers, storing[u] # Photos!NoPhoto
               PROVE  /\ storing[u] \in files'
                      /\ pending'[storing[u]] = Photos!NotPending
                      /\ storing[u] \notin Photos!Attached'
                      /\ \A v \in Enrollers : storing[v] = storing[u] => v = u
    BY DEF Unregistered, Photos!IsPending
  <2>1. /\ storing[u] \in files /\ pending[storing[u]] = Photos!NotPending
        /\ storing[u] \notin Photos!Attached
        /\ \A v \in Enrollers : storing[v] = storing[u] => v = u
    BY DEF PhotosInv, Unregistered, Photos!IsPending
  <2>2. storing[u] \notin next
    BY <2>1, <1>2
  <2>3. storing[u] \in Photos!Photos
    BY <2>1, FilesArePhotos DEF PhotosInv
  <2> QED
    BY <2>1, <2>2, <2>3, <1>2, <1>4
<1>6. Photos!AttachedPhotosKept'
  <2>1. ASSUME NEW p \in Photos!Attached'
        PROVE  p \in files'
    BY <2>1, <1>2 DEF PhotosInv, Photos!AttachedPhotosKept
  <2>2. ASSUME NEW p \in Photos!Photos, pending'[p] # Photos!NotPending
        PROVE  p \in files' \ Photos!Attached'
    <3>1. p \in files /\ p \notin Photos!Attached /\ p \notin next
      BY <2>2, <1>4 DEF PhotosInv, Photos!AttachedPhotosKept, Photos!IsPending
    <3> QED
      BY <3>1, <1>2
  <2> QED
    BY <2>1, <2>2 DEF Photos!AttachedPhotosKept, Photos!IsPending
<1>7. Photos!NothingLeftBehind'
  <2> SUFFICES ASSUME NEW p \in files' \ (Photos!Attached' \cup strayed)
               PROVE  \/ \E v \in Enrollers : storing[v] = p
                      \/ pending'[p] # Photos!NotPending /\ p \in expiries
    BY DEF Photos!NothingLeftBehind, Photos!IsPending
  <2>1. p \in files /\ p \notin Photos!Attached /\ p \notin next
    BY <1>2
  <2>2. \/ \E v \in Enrollers : storing[v] = p
        \/ pending[p] # Photos!NotPending /\ p \in expiries
    BY <2>1 DEF PhotosInv, Photos!NothingLeftBehind, Photos!IsPending
  <2>3. p \in Photos!Photos
    BY <2>1, FilesArePhotos DEF PhotosInv
  <2> QED
    BY <2>1, <2>2, <2>3, <1>4
<1> QED
  BY <1>3, <1>5, <1>6, <1>7 DEF PhotosInv

LEMMA SaveWorkerInv ==
    ASSUME PhotosInv, NEW u \in Enrollers, NEW w \in Workers,
           Photos!SaveWorker(u, w)
    PROVE  PhotosInv'
<1>1. PICK kept \in SUBSET attached[w] :
        LET next == request[u].photos \cup kept IN
        /\ Photos!Consumable(u, w, next)
        /\ pending' = [p \in Photos!Photos |-> IF p \in next THEN Photos!NotPending
                                               ELSE pending[p]]
        /\ files' = files \ Photos!Replaced(w, next)
        /\ attached' = [attached EXCEPT ![w] = next]
  BY DEF Photos!SaveWorker
<1>2. UNCHANGED <<hour, uploads, expiries, storing, strayed>>
  BY DEF Photos!SaveWorker
<1>3. PICK next : next = request[u].photos \cup kept
  OBVIOUS
<1>4. \A p \in next : p \in files /\ \/ pending[p] # Photos!NotPending
                                     \/ p \in attached[w]
  BY <1>1, <1>3 DEF Photos!Consumable, Photos!IsPending
<1> QED
  BY <1>1, <1>2, <1>3, <1>4, ReplaceInv

LEMMA PurgeInv ==
    ASSUME PhotosInv, NEW w \in Workers, Photos!purgeBiometrics(w)
    PROVE  PhotosInv'
<1>1. PICK none : none = {}
  OBVIOUS
<1>2. \A p : p \notin none
  BY <1>1
<1>3. /\ files' = files \ Photos!Replaced(w, none)
      /\ attached' = [attached EXCEPT ![w] = none]
      /\ UNCHANGED <<hour, uploads, pending, expiries, storing, strayed>>
  BY <1>1 DEF Photos!purgeBiometrics
<1>4. DOMAIN pending' = Photos!Photos
  BY <1>3 DEF PhotosInv, PhotosTypeOK
<1>5. \A p \in Photos!Photos :
          pending'[p] = IF p \in none THEN Photos!NotPending ELSE pending[p]
  BY <1>2, <1>3
<1>6. \A p \in none : p \in files /\ \/ pending[p] # Photos!NotPending
                                     \/ p \in attached[w]
  BY <1>2
<1> QED
  BY <1>3, <1>4, <1>5, <1>6, ReplaceInv

\* Pending photos are deleted, by whoever uploaded them or by their expiry.
LEMMA DeletePendingInv ==
    ASSUME PhotosInv, NEW gone,
           \A p \in gone : pending[p] # Photos!NotPending,
           files' = files \ gone,
           DOMAIN pending' = Photos!Photos,
           \A p \in Photos!Photos :
               pending'[p] = IF p \in gone THEN Photos!NotPending ELSE pending[p],
           \A p \in expiries \ expiries' :
               pending[p] = Photos!NotPending \/ p \in gone,
           UNCHANGED <<hour, uploads, attached, storing, strayed>>
    PROVE  PhotosInv'
<1>1. Photos!Attached' = Photos!Attached
  BY DEF Photos!Attached
<1>2. PhotosTypeOK'
  BY DEF PhotosInv, PhotosTypeOK
<1>3. Unregistered'
  <2> SUFFICES ASSUME NEW u \in Enrollers, storing[u] # Photos!NoPhoto
               PROVE  /\ storing[u] \in files'
                      /\ pending'[storing[u]] = Photos!NotPending
                      /\ storing[u] \notin Photos!Attached
                      /\ \A v \in Enrollers : storing[v] = storing[u] => v = u
    BY <1>1 DEF Unregistered, Photos!IsPending
  <2>1. /\ storing[u] \in files /\ pending[storing[u]] = Photos!NotPending
        /\ storing[u] \notin Photos!Attached
        /\ \A v \in Enrollers : storing[v] = storing[u] => v = u
    BY DEF PhotosInv, Unregistered, Photos!IsPending
  <2>2. storing[u] \in Photos!Photos /\ storing[u] \notin gone
    BY <2>1, FilesArePhotos DEF PhotosInv
  <2> QED
    BY <2>1, <2>2
<1>4. Photos!AttachedPhotosKept'
  <2>1. ASSUME NEW p \in Photos!Attached
        PROVE  p \in files'
    <3>1. p \in files
      BY DEF PhotosInv, Photos!AttachedPhotosKept
    <3>2. p \in Photos!Photos
      BY <3>1, FilesArePhotos DEF PhotosInv
    <3>3. pending[p] = Photos!NotPending
      BY <3>2 DEF PhotosInv, Photos!AttachedPhotosKept, Photos!IsPending
    <3> QED
      BY <3>1, <3>3
  <2>2. ASSUME NEW p \in Photos!Photos, pending'[p] # Photos!NotPending
        PROVE  p \in files' \ Photos!Attached
    <3>1. p \notin gone /\ pending[p] # Photos!NotPending
      BY <2>2
    <3> QED
      BY <3>1 DEF PhotosInv, Photos!AttachedPhotosKept, Photos!IsPending
  <2> QED
    BY <2>1, <2>2, <1>1 DEF Photos!AttachedPhotosKept, Photos!IsPending
<1>5. Photos!NothingLeftBehind'
  <2> SUFFICES ASSUME NEW p \in files' \ (Photos!Attached \cup strayed)
               PROVE  \/ \E v \in Enrollers : storing[v] = p
                      \/ pending'[p] # Photos!NotPending /\ p \in expiries'
    BY <1>1 DEF Photos!NothingLeftBehind, Photos!IsPending
  <2>1. p \in files /\ p \notin gone
    OBVIOUS
  <2>2. \/ \E v \in Enrollers : storing[v] = p
        \/ pending[p] # Photos!NotPending /\ p \in expiries
    BY <2>1 DEF PhotosInv, Photos!NothingLeftBehind, Photos!IsPending
  <2>3. p \in Photos!Photos
    BY <2>1, FilesArePhotos DEF PhotosInv
  <2> QED
    BY <2>1, <2>2, <2>3
<1> QED
  BY <1>2, <1>3, <1>4, <1>5 DEF PhotosInv

LEMMA CleanupInv ==
    ASSUME PhotosInv, NEW u \in Enrollers, Photos!cleanup(u)
    PROVE  PhotosInv'
<1>1. PICK own : /\ own = {p \in request[u].photos : pending[p] # Photos!NotPending}
                 /\ files' = files \ own
                 /\ pending' = [p \in Photos!Photos |->
                        IF p \in own THEN Photos!NotPending ELSE pending[p]]
  BY DEF Photos!cleanup, Photos!IsPending
<1>2. UNCHANGED <<hour, uploads, expiries, attached, storing, strayed>>
  BY DEF Photos!cleanup
<1> QED
  BY <1>1, <1>2, DeletePendingInv

LEMMA ExpireInv ==
    ASSUME PhotosInv, NEW p \in expiries, Photos!expire(p)
    PROVE  PhotosInv'
<1>1. /\ expiries' = expiries \ {p}
      /\ UNCHANGED <<hour, uploads, attached, storing, strayed>>
  BY DEF Photos!expire
<1>2. DOMAIN pending = Photos!Photos
  BY DEF PhotosInv, PhotosTypeOK
<1>3. CASE pending[p] # Photos!NotPending
  <2>1. files' = files \ {p} /\ pending' = [pending EXCEPT ![p] = Photos!NotPending]
    BY <1>3 DEF Photos!expire, Photos!IsPending, Photos!HasExpired
  <2>2. /\ DOMAIN pending' = Photos!Photos
        /\ \A q \in Photos!Photos :
              pending'[q] = IF q \in {p} THEN Photos!NotPending ELSE pending[q]
    BY <1>2, <2>1
  <2> QED
    BY <1>1, <1>3, <2>1, <2>2, DeletePendingInv
<1>4. CASE pending[p] = Photos!NotPending
  <2>1. UNCHANGED <<files, pending>>
    BY <1>4 DEF Photos!expire, Photos!IsPending
  <2>2. PICK none : none = {}
    OBVIOUS
  <2>3. \A q : q \notin none
    BY <2>2
  <2>4. /\ \A q \in none : pending[q] # Photos!NotPending
        /\ files' = files \ none
        /\ DOMAIN pending' = Photos!Photos
        /\ \A q \in Photos!Photos :
              pending'[q] = IF q \in none THEN Photos!NotPending ELSE pending[q]
        /\ \A q \in expiries \ expiries' :
              pending[q] = Photos!NotPending \/ q \in none
    BY <1>1, <1>2, <1>4, <2>1, <2>3
  <2> QED
    BY <1>1, <2>4, DeletePendingInv
<1> QED
  BY <1>3, <1>4

LEMMA EnrollInv ==
    ASSUME PhotosInv, NEW u \in Enrollers, Photos!Enroll(u)
    PROVE  PhotosInv'
<1>1. CASE Photos!BeginRequest(u) \/ Photos!RequestFails(u) \/ Photos!RequestDies(u)
  BY <1>1, RequestInv
     DEF Photos!BeginRequest, Photos!RequestFails, Photos!RequestDies
<1>2. CASE Photos!Store(u)
  BY <1>2, StoreInv
<1>3. CASE Photos!register(u) \/ Photos!UploadRefused(u) \/ Photos!UploadDies(u)
  BY <1>3, UploadEndsInv
     DEF Photos!register, Photos!UploadRefused, Photos!UploadDies
<1>4. CASE \E w \in Workers : Photos!SaveWorker(u, w)
  BY <1>4, SaveWorkerInv
<1>5. CASE Photos!cleanup(u)
  BY <1>5, CleanupInv
<1> QED
  BY <1>1, <1>2, <1>3, <1>4, <1>5 DEF Photos!Enroll

LEMMA PhotosNextInv ==
    ASSUME PhotosInv, Photos!Next
    PROVE  PhotosInv'
  BY EnrollInv, PurgeInv, ExpireInv, RequestInv DEF Photos!Next, Photos!Tick

\* Every stored file is named by a worker, held by an upload, or pending with its
\* expiry scheduled, and every file a worker names is stored, wherever requests
\* fail and whatever they race with.  Only an upload that dies leaves a file.
\* (register, consumeEnrollmentPhotos, deleteReplacedPhotos, cleanup, expire)
THEOREM PhotosStayAccountedFor == MCSpec => []PhotosAreAccountedFor
<1>1. MCInit => PhotosInv
  BY PhotosInitInv DEF MCInit
<1>2. PhotosInv /\ [MCNext]_allVars => PhotosInv'
  BY PhotosNextInv, RequestInv DEF MCNext, allVars, photoVars
<1>3. PhotosInv => PhotosAreAccountedFor
  BY DEF PhotosInv, PhotosAreAccountedFor, Photos!PhotosAreAccountedFor
<1> QED
  BY <1>1, <1>2, <1>3, PTL DEF MCSpec, allVars

-----------------------------------------------------------------------------
(* Accounts and sessions, for any number of users, sessions and password      *)
(* changes, and batches of any size.                                          *)

MembersOK ==
    /\ member \in [Users -> MemberType]
    /\ \A u \in Users : member[u].active => IsMember(u)
    /\ DOMAIN secret = Users
    /\ AdminRemains

SessionsTypeOK ==
    /\ now \in Times
    /\ era \in [Users -> Nat]
    /\ opened \in 0..MaxSessions
    /\ session \in [Sessions -> SessionType]
    /\ rows \subseteq 1..opened
    /\ DOMAIN tokens = Sessions
    /\ cleanups \subseteq [user : Users, cutoff : Times]
    /\ DOMAIN change = Clients
    /\ \A c \in Clients : change[c].pc # "idle" => change[c].session \in 1..opened

\* Sessions are of members, of no later era than the present and in the order of
\* their creation.
SessionsInOrder ==
    /\ \A i \in 1..opened :
        /\ IsMember(session[i].user)
        /\ session[i].era <= era[session[i].user]
        /\ session[i].at <= now
    /\ \A i, j \in 1..opened : i < j => session[i].at <= session[j].at

\* Sessions of an earlier era lie behind the cutoff of their member.
BehindCutoff ==
    \A i \in rows :
        session[i].era < era[session[i].user] =>
            session[i].at <= member[session[i].user].revokedAt

NoTokensLeft ==
    \A i \in Sessions : i \notin rows /\ i \notin tokenJobs => tokens[i] = 0

MembersInv ==
    /\ MembersOK
    /\ SessionsTypeOK
    /\ SessionsInOrder
    /\ BehindCutoff
    /\ RevokedRowsScheduled
    /\ NoTokensLeft

-----------------------------------------------------------------------------
(* Facts about the operators.                                              *)

LEMMA MembersInitInv ==
    ASSUME Init
    PROVE  MembersInv
<1>1. MaxTime \in Nat /\ MaxSessions \in Nat /\ Founder \in Users
  BY ConstantsAssumption
<1> DEFINE founder == [NoMember EXCEPT !.role = "admin", !.active = TRUE]
<1>2. /\ NoMember \in MemberType /\ ~NoMember.active
      /\ founder \in MemberType /\ founder.active /\ founder.role = "admin"
  BY DEF NoMember, MemberType, Roles, Never
<1> HIDE DEF founder
<1>3. \A u \in Users : member[u] = IF u = Founder THEN founder ELSE NoMember
  BY DEF Init, founder
<1>4. member \in [Users -> MemberType]
  BY <1>2 DEF Init, founder
<1>5. MembersOK
  BY <1>1, <1>2, <1>3, <1>4 DEF MembersOK, AdminRemains, IsMember, Init
<1>6. SessionsTypeOK
  BY <1>1 DEF Init, SessionsTypeOK, Times, Sessions, SessionType, IdleChange
<1>7. SessionsInOrder /\ BehindCutoff /\ RevokedRowsScheduled
  BY DEF Init, SessionsInOrder, BehindCutoff, RevokedRowsScheduled
<1>8. NoTokensLeft
  BY DEF Init, NoTokensLeft
<1> QED
  BY <1>5, <1>6, <1>7, <1>8 DEF MembersInv

LEMMA OldestExists ==
    ASSUME NEW S \in SUBSET Nat, S # {}
    PROVE  \E i \in S : \A j \in S : i <= j
<1>1. PICK i \in S : \A j \in S : <<j, i>> \notin OpToRel(<, Nat)
  BY NatLessThanWellFounded, WFMin
<1>2. \A j \in S : ~(j < i)
  BY <1>1 DEF OpToRel
<1> QED
  BY <1>2

LEMMA RowFacts ==
    ASSUME SessionsTypeOK
    PROVE  /\ \A i \in 1..opened : /\ i \in Sessions /\ i \in Nat
                                   /\ session[i].user \in Users
                                   /\ session[i].at \in Times
                                   /\ session[i].era \in Nat
           /\ rows \subseteq 1..opened
           /\ Times \subseteq Nat
  BY ConstantsAssumption DEF SessionsTypeOK, Sessions, SessionType, Times

\* A batch deletes rows that have no tokens left, and is continued while a row
\* behind the cutoff is left.
LEMMA BatchStep ==
    ASSUME SessionsTypeOK, SessionsInOrder, NEW u \in Users, NEW cutoff \in Times,
           NEW jobs \in SUBSET [user : Users, cutoff : Times],
           revokeSessionBatch(u, cutoff, jobs),
           UNCHANGED <<opened, session>>
    PROVE  /\ rows' \subseteq rows
           /\ DOMAIN tokens' = Sessions
           /\ cleanups' \subseteq [user : Users, cutoff : Times]
           /\ jobs \subseteq cleanups'
           /\ \A i \in rows' :
                  session[i].user = u /\ session[i].at <= cutoff =>
                      \E job \in cleanups' : /\ job.user = u
                                             /\ session[i].at <= job.cutoff
           /\ NoTokensLeft /\ UNCHANGED tokenJobs => NoTokensLeft'
<1> DEFINE job == [user |-> u, cutoff |-> cutoff]
           left == rows \ Emptied(u, cutoff)
<1>1. /\ rows' = left
      /\ tokens' = [i \in Sessions |-> IF i \in InBatch(u, cutoff)
                                       THEN TokensLeft(u, i) ELSE tokens[i]]
      /\ cleanups' = jobs \cup {x \in {job} : NextDue(u, cutoff, left)}
  BY DEF revokeSessionBatch
<1>2. job \in [user : Users, cutoff : Times] /\ job.user = u /\ job.cutoff = cutoff
  OBVIOUS
<1>3. cleanups' \subseteq [user : Users, cutoff : Times] /\ jobs \subseteq cleanups'
  BY <1>1, <1>2
<1>4. ASSUME NEW i \in left, session[i].user = u, session[i].at <= cutoff
      PROVE  job \in cleanups'
  <2> DEFINE S == {j \in left : session[j].user = u}
  <2>1. S \in SUBSET Nat /\ S # {}
    BY <1>4, RowFacts
  <2>2. PICK j \in S : \A k \in S : j <= k
    BY <2>1, OldestExists
  <2>3. j \in 1..opened /\ i \in 1..opened /\ j <= i
    BY <1>4, <2>2, RowFacts
  <2>4. session[j].at <= session[i].at
    <3>1. CASE j = i
      BY <3>1, <2>3, RowFacts
    <3>2. CASE j < i
      BY <3>2, <2>3 DEF SessionsInOrder
    <3> QED
      BY <2>3, <3>1, <3>2
  <2>5. session[j].at <= cutoff
    BY <1>4, <2>3, <2>4, RowFacts
  <2>6. NextDue(u, cutoff, left)
    BY <2>2, <2>5 DEF NextDue
  <2> QED
    BY <1>1, <2>6
<1>5. ASSUME NoTokensLeft, UNCHANGED tokenJobs
      PROVE  NoTokensLeft'
  <2> SUFFICES ASSUME NEW i \in Sessions, i \notin left, i \notin tokenJobs
               PROVE  tokens'[i] = 0
    BY <1>1, <1>5 DEF NoTokensLeft
  <2>1. CASE i \in Emptied(u, cutoff)
    BY <2>1, <1>1 DEF Emptied, TokensLeft
  <2>2. CASE i \notin Emptied(u, cutoff)
    <3>1. i \notin rows
      BY <2>2
    <3>2. i \notin InBatch(u, cutoff)
      BY <3>1 DEF InBatch, UserRows
    <3> QED
      BY <3>1, <3>2, <1>1, <1>5 DEF NoTokensLeft
  <2> QED
    BY <2>1, <2>2
<1> QED
  BY <1>1, <1>2, <1>3, <1>4, <1>5

\* A member's row is replaced.
LEMMA UpdateMember ==
    ASSUME MembersOK, NEW u \in Users, NEW new \in MemberType,
           member' = [member EXCEPT ![u] = new],
           new.role # "none",
           DOMAIN secret' = Users,
           \/ new.active /\ new.role = "admin"
           \/ \E v \in Users \ {u} : member[v].active /\ member[v].role = "admin"
    PROVE  /\ MembersOK'
           /\ member'[u] = new
           /\ \A v \in Users \ {u} : member'[v] = member[v]
           /\ \A v \in Users : IsMember(v) => member'[v].role # "none"
<1>1. /\ member' \in [Users -> MemberType]
      /\ member'[u] = new
      /\ \A v \in Users \ {u} : member'[v] = member[v]
  BY DEF MembersOK
<1>2. \A v \in Users : member'[v].active => member'[v].role # "none"
  BY <1>1 DEF MembersOK, IsMember
<1>3. AdminRemains'
  BY <1>1 DEF AdminRemains
<1>4. \A v \in Users : IsMember(v) => member'[v].role # "none"
  BY <1>1 DEF IsMember
<1> QED
  BY <1>1, <1>2, <1>3, <1>4 DEF MembersOK, IsMember

\* The sessions do not notice it, unless it moves a cutoff back.
LEMMA SessionsKept ==
    ASSUME MembersInv,
           \A v \in Users : IsMember(v) => member'[v].role # "none",
           \A v \in Users : IsMember(v) => member'[v].revokedAt = member[v].revokedAt,
           UNCHANGED <<now, era, opened, session, rows, tokens, cleanups, tokenJobs,
                       change>>
    PROVE  SessionsTypeOK' /\ SessionsInOrder' /\ BehindCutoff'
           /\ RevokedRowsScheduled' /\ NoTokensLeft'
<1>1. SessionsTypeOK'
  BY DEF MembersInv, SessionsTypeOK
<1>2. SessionsInOrder'
  BY RowFacts DEF MembersInv, SessionsInOrder, IsMember
<1>3. BehindCutoff'
  BY RowFacts DEF MembersInv, SessionsInOrder, BehindCutoff
<1>4. RevokedRowsScheduled' /\ NoTokensLeft'
  BY DEF MembersInv, RevokedRowsScheduled, NoTokensLeft
<1> QED
  BY <1>1, <1>2, <1>3, <1>4

\* Whoever is protected as the last administrator is none.
LEMMA AnotherAdmin ==
    ASSUME MembersOK, NEW u \in Users, NEW role, NEW stays \in BOOLEAN,
           protectLastAdmin(u, role, stays)
    PROVE  \/ stays /\ role = "admin"
           \/ \E v \in Users \ {u} : member[v].active /\ member[v].role = "admin"
  BY DEF MembersOK, AdminRemains, protectLastAdmin

LEMMA CreateMemberInv ==
    ASSUME MembersInv, NEW i, NEW u \in Users, NEW role \in Roles,
           createAccountAndMember(i, u, role)
    PROVE  MembersInv'
<1> DEFINE new == [role |-> role, active |-> TRUE, mustChange |-> TRUE,
                   revokedAt |-> Never]
<1>1. /\ ~IsMember(u)
      /\ member' = [member EXCEPT ![u] = new]
      /\ UNCHANGED <<secret, now, era, opened, session, rows, tokens, cleanups,
                     tokenJobs, change>>
  BY DEF createAccountAndMember, sessionVars, rowVars
<1>2. new \in MemberType /\ new.role # "none"
  BY DEF MemberType, Roles
<1> HIDE DEF new
<1>3. \E v \in Users \ {u} : member[v].active /\ member[v].role = "admin"
  BY <1>1 DEF MembersInv, MembersOK, AdminRemains, IsMember
<1>4. /\ MembersOK'
      /\ \A v \in Users : IsMember(v) => member'[v].role # "none"
      /\ \A v \in Users \ {u} : member'[v] = member[v]
  BY <1>1, <1>2, <1>3, UpdateMember DEF MembersInv, MembersOK
<1>5. \A v \in Users : IsMember(v) => member'[v].revokedAt = member[v].revokedAt
  BY <1>1, <1>4
<1> QED
  BY <1>1, <1>4, <1>5, SessionsKept DEF MembersInv

LEMMA SetRoleInv ==
    ASSUME MembersInv, NEW i, NEW u \in Users, NEW role \in Roles,
           setRole(i, u, role)
    PROVE  MembersInv'
<1> DEFINE new == [member[u] EXCEPT !.role = role]
<1>1. /\ protectLastAdmin(u, role, member[u].active)
      /\ member' = [member EXCEPT ![u] = new]
      /\ UNCHANGED <<secret, now, era, opened, session, rows, tokens, cleanups,
                     tokenJobs, change>>
  BY DEF setRole, sessionVars, rowVars
<1>2. member[u] \in MemberType
  BY DEF MembersInv, MembersOK
<1>3. /\ new \in MemberType /\ new.role = role /\ new.role # "none"
      /\ new.active <=> member[u].active
      /\ new.revokedAt = member[u].revokedAt
  BY <1>2 DEF MemberType, Roles
<1> HIDE DEF new
<1>4. member[u].active \in BOOLEAN
  BY <1>2 DEF MemberType
<1>5. \/ member[u].active /\ role = "admin"
      \/ \E v \in Users \ {u} : member[v].active /\ member[v].role = "admin"
  BY <1>1, <1>4, AnotherAdmin DEF MembersInv
<1>6. \/ new.active /\ new.role = "admin"
      \/ \E v \in Users \ {u} : member[v].active /\ member[v].role = "admin"
  BY <1>3, <1>5
<1>7. /\ MembersOK'
      /\ member'[u] = new
      /\ \A v \in Users : IsMember(v) => member'[v].role # "none"
      /\ \A v \in Users \ {u} : member'[v] = member[v]
  BY <1>1, <1>3, <1>6, UpdateMember DEF MembersInv, MembersOK
<1>8. \A v \in Users : member'[v].revokedAt = member[v].revokedAt
  BY <1>3, <1>7
<1> QED
  BY <1>1, <1>7, <1>8, SessionsKept DEF MembersInv

LEMMA EnableInv ==
    ASSUME MembersInv, NEW i, NEW u \in Users, Enable(i, u)
    PROVE  MembersInv'
<1> DEFINE new == [member[u] EXCEPT !.active = TRUE]
<1>1. /\ IsMember(u) /\ ~member[u].active
      /\ member' = [member EXCEPT ![u] = new]
      /\ UNCHANGED <<secret, now, era, opened, session, rows, tokens, cleanups,
                     tokenJobs, change>>
  BY DEF Enable, sessionVars, rowVars
<1>2. member[u] \in MemberType
  BY DEF MembersInv, MembersOK
<1>3. /\ new \in MemberType /\ new.role = member[u].role
      /\ new.revokedAt = member[u].revokedAt
  BY <1>2 DEF MemberType
<1> HIDE DEF new
<1>4. \E v \in Users \ {u} : member[v].active /\ member[v].role = "admin"
  BY <1>1 DEF MembersInv, MembersOK, AdminRemains
<1>5. /\ MembersOK'
      /\ member'[u] = new
      /\ \A v \in Users : IsMember(v) => member'[v].role # "none"
      /\ \A v \in Users \ {u} : member'[v] = member[v]
  BY <1>1, <1>3, <1>4, UpdateMember DEF MembersInv, MembersOK, IsMember
<1>6. \A v \in Users : member'[v].revokedAt = member[v].revokedAt
  BY <1>3, <1>5
<1> QED
  BY <1>1, <1>5, <1>6, SessionsKept DEF MembersInv

-----------------------------------------------------------------------------
(* Revocation.                                                             *)

LEMMA RevokedCleanupInv ==
    ASSUME MembersInv, NEW job \in cleanups, cleanupRevokedSessions(job)
    PROVE  MembersInv'
<1> DEFINE u == job.user
           cutoff == job.cutoff
<1>1. /\ revokeSessionBatch(u, cutoff, cleanups \ {job})
      /\ UNCHANGED <<now, member, secret, era, opened, session, drawn, tokenJobs,
                     change>>
  BY DEF cleanupRevokedSessions, sessionVars
<1>2. u \in Users /\ cutoff \in Times /\ cutoff \in Int
  BY ConstantsAssumption DEF MembersInv, SessionsTypeOK, Times
<1>3. cleanups \ {job} \in SUBSET [user : Users, cutoff : Times]
  BY DEF MembersInv, SessionsTypeOK
<1>4. /\ rows' \subseteq rows
      /\ DOMAIN tokens' = Sessions
      /\ cleanups' \subseteq [user : Users, cutoff : Times]
      /\ cleanups \ {job} \subseteq cleanups'
      /\ \A i \in rows' :
            session[i].user = u /\ session[i].at <= cutoff =>
                \E x \in cleanups' : x.user = u /\ session[i].at <= x.cutoff
      /\ NoTokensLeft'
  BY <1>1, <1>2, <1>3, BatchStep DEF MembersInv
<1>5. MembersOK'
  BY <1>1 DEF MembersInv, MembersOK, AdminRemains, IsMember
<1>6. SessionsTypeOK'
  BY <1>1, <1>4 DEF MembersInv, SessionsTypeOK
<1>7. SessionsInOrder'
  BY <1>1 DEF MembersInv, SessionsInOrder, IsMember
<1>8. BehindCutoff'
  BY <1>1, <1>4 DEF MembersInv, BehindCutoff
<1>9. RevokedRowsScheduled'
  <2> SUFFICES ASSUME NEW i \in rows', session[i].era < era[session[i].user]
               PROVE  \E x \in cleanups' : /\ x.user = session[i].user
                                           /\ session[i].at <= x.cutoff
    BY <1>1 DEF RevokedRowsScheduled
  <2>1. PICK x \in cleanups : x.user = session[i].user /\ session[i].at <= x.cutoff
    BY <1>4 DEF MembersInv, RevokedRowsScheduled
  <2>2. CASE x = job
    BY <2>1, <2>2, <1>4
  <2>3. CASE x # job
    BY <2>1, <2>3, <1>4
  <2> QED
    BY <2>2, <2>3
<1> QED
  BY <1>4, <1>5, <1>6, <1>7, <1>8, <1>9 DEF MembersInv

\* A new era begins and every session there is lies behind its cutoff.
LEMMA RevokeStep ==
    ASSUME MembersInv, NEW u \in Users, NEW cutoff \in Times, NEW earlier,
           IsCutoff(u, cutoff, earlier),
           revokeSessionBatch(u, cutoff, cleanups),
           era' = [era EXCEPT ![u] = @ + 1],
           member'[u].revokedAt = cutoff,
           \A v \in Users \ {u} : member'[v] = member[v],
           \A v \in Users : IsMember(v) => member'[v].role # "none",
           UNCHANGED <<now, opened, session, tokenJobs>>,
           DOMAIN change' = Clients,
           \A c \in Clients :
               change'[c] = change[c] \/ change'[c].pc = "idle"
    PROVE  /\ SessionsTypeOK' /\ SessionsInOrder' /\ BehindCutoff'
           /\ RevokedRowsScheduled' /\ NoTokensLeft'
<1>1. /\ rows' \subseteq rows
      /\ DOMAIN tokens' = Sessions
      /\ cleanups' \subseteq [user : Users, cutoff : Times]
      /\ cleanups \subseteq cleanups'
      /\ \A i \in rows' :
            session[i].user = u /\ session[i].at <= cutoff =>
                \E x \in cleanups' : x.user = u /\ session[i].at <= x.cutoff
      /\ NoTokensLeft'
  <2>1. cleanups \in SUBSET [user : Users, cutoff : Times]
    BY DEF MembersInv, SessionsTypeOK
  <2> QED
    BY <2>1, BatchStep DEF MembersInv
<1>2. \A i \in rows' : session[i].user = u => session[i].at <= cutoff
  BY <1>1 DEF IsCutoff, UserRows
<1>3. /\ era' \in [Users -> Nat]
      /\ era[u] \in Nat /\ era'[u] = era[u] + 1
      /\ \A v \in Users \ {u} : era'[v] = era[v]
  BY DEF MembersInv, SessionsTypeOK
<1>4. SessionsTypeOK'
  BY <1>1, <1>3 DEF MembersInv, SessionsTypeOK
<1>5. SessionsInOrder'
  <2> SUFFICES ASSUME NEW i \in 1..opened
               PROVE  /\ member'[session[i].user].role # "none"
                      /\ session[i].era <= era'[session[i].user]
                      /\ session[i].at <= now
    BY DEF MembersInv, SessionsInOrder, IsMember
  <2>1. /\ IsMember(session[i].user) /\ session[i].user \in Users
        /\ session[i].era \in Nat
        /\ session[i].era <= era[session[i].user]
        /\ session[i].at <= now
    BY RowFacts DEF MembersInv, SessionsInOrder
  <2>2. era[session[i].user] <= era'[session[i].user]
    BY <1>3, <2>1 DEF MembersInv, SessionsTypeOK
  <2>3. era[session[i].user] \in Nat /\ era'[session[i].user] \in Nat
    BY <1>3, <2>1 DEF MembersInv, SessionsTypeOK
  <2> QED
    BY <2>1, <2>2, <2>3
<1>6. BehindCutoff'
  <2> SUFFICES ASSUME NEW i \in rows', session[i].era < era'[session[i].user]
               PROVE  session[i].at <= member'[session[i].user].revokedAt
    BY DEF BehindCutoff
  <2>1. CASE session[i].user = u
    BY <2>1, <1>2
  <2>2. CASE session[i].user # u
    <3>1. session[i].user \in Users \ {u} /\ i \in rows
      BY <2>2, <1>1, RowFacts DEF MembersInv
    <3> QED
      BY <3>1, <1>3 DEF MembersInv, BehindCutoff
  <2> QED
    BY <2>1, <2>2
<1>7. RevokedRowsScheduled'
  <2> SUFFICES ASSUME NEW i \in rows', session[i].era < era'[session[i].user]
               PROVE  \E x \in cleanups' : /\ x.user = session[i].user
                                           /\ session[i].at <= x.cutoff
    BY DEF RevokedRowsScheduled
  <2>1. CASE session[i].user = u
    BY <2>1, <1>1, <1>2
  <2>2. CASE session[i].user # u
    <3>1. session[i].user \in Users \ {u} /\ i \in rows
      BY <2>2, <1>1, RowFacts DEF MembersInv
    <3>2. \E x \in cleanups : x.user = session[i].user /\ session[i].at <= x.cutoff
      BY <3>1, <1>3 DEF MembersInv, RevokedRowsScheduled
    <3> QED
      BY <3>2, <1>1
  <2> QED
    BY <2>1, <2>2
<1> QED
  BY <1>1, <1>4, <1>5, <1>6, <1>7

LEMMA DisableInv ==
    ASSUME MembersInv, NEW i, NEW u \in Users, Disable(i, u)
    PROVE  MembersInv'
<1>1. PICK cutoff \in Times :
        /\ IsCutoff(u, cutoff, 0)
        /\ member' = [member EXCEPT ![u].active = FALSE, ![u].revokedAt = cutoff]
        /\ revokeSessionBatch(u, cutoff, cleanups)
  BY DEF Disable
<1> DEFINE new == [member[u] EXCEPT !.active = FALSE, !.revokedAt = cutoff]
<1>2. /\ member[u].active
      /\ protectLastAdmin(u, member[u].role, FALSE)
      /\ era' = [era EXCEPT ![u] = @ + 1]
      /\ UNCHANGED <<secret, now, opened, session, tokenJobs, change>>
  BY DEF Disable, sessionVars
<1>3. member[u] \in MemberType /\ IsMember(u) /\ member \in [Users -> MemberType]
  BY <1>2 DEF MembersInv, MembersOK
<1>4. member' = [member EXCEPT ![u] = new]
  BY <1>1, <1>3 DEF MemberType
<1>5. /\ new \in MemberType /\ new.role = member[u].role
      /\ new.revokedAt = cutoff
  BY <1>3 DEF MemberType
<1> HIDE DEF new
<1>6. \E v \in Users \ {u} : member[v].active /\ member[v].role = "admin"
  BY <1>2, AnotherAdmin DEF MembersInv
<1>7. /\ MembersOK'
      /\ member'[u] = new
      /\ \A v \in Users : IsMember(v) => member'[v].role # "none"
      /\ \A v \in Users \ {u} : member'[v] = member[v]
  BY <1>2, <1>3, <1>4, <1>5, <1>6, UpdateMember DEF MembersInv, MembersOK, IsMember
<1>8. DOMAIN change' = Clients
  BY <1>2 DEF MembersInv, SessionsTypeOK
<1>9. /\ SessionsTypeOK' /\ SessionsInOrder' /\ BehindCutoff'
      /\ RevokedRowsScheduled' /\ NoTokensLeft'
  BY <1>1, <1>2, <1>5, <1>7, <1>8, RevokeStep
<1> QED
  BY <1>7, <1>9 DEF MembersInv

\* A reset and a member's own change of the password.
LEMMA NewPassword ==
    ASSUME MembersInv, NEW u \in Users, IsMember(u),
           NEW must \in BOOLEAN, NEW cutoff \in Times,
           IsCutoff(u, cutoff, member[u].revokedAt),
           member' = [member EXCEPT ![u].mustChange = must,
                                    ![u].revokedAt = cutoff],
           revokeSessionBatch(u, cutoff, cleanups),
           era' = [era EXCEPT ![u] = @ + 1],
           DOMAIN secret' = Users,
           UNCHANGED <<now, opened, session, tokenJobs>>,
           DOMAIN change' = Clients,
           \A c \in Clients : change'[c] = change[c] \/ change'[c].pc = "idle"
    PROVE  MembersInv'
<1> DEFINE new == [member[u] EXCEPT !.mustChange = must, !.revokedAt = cutoff]
<1>1. member[u] \in MemberType /\ member \in [Users -> MemberType]
  BY DEF MembersInv, MembersOK
<1>2. member' = [member EXCEPT ![u] = new]
  BY <1>1 DEF MemberType
<1>3. /\ new \in MemberType /\ new.role = member[u].role
      /\ new.active <=> member[u].active
      /\ new.revokedAt = cutoff
  BY <1>1 DEF MemberType
<1> HIDE DEF new
<1>4. \/ new.active /\ new.role = "admin"
      \/ \E v \in Users \ {u} : member[v].active /\ member[v].role = "admin"
  BY <1>3 DEF MembersInv, MembersOK, AdminRemains
<1>5. /\ MembersOK'
      /\ member'[u] = new
      /\ \A v \in Users : IsMember(v) => member'[v].role # "none"
      /\ \A v \in Users \ {u} : member'[v] = member[v]
  BY <1>2, <1>3, <1>4, UpdateMember DEF MembersInv, IsMember
<1>6. /\ SessionsTypeOK' /\ SessionsInOrder' /\ BehindCutoff'
      /\ RevokedRowsScheduled' /\ NoTokensLeft'
  BY <1>3, <1>5, RevokeStep
<1> QED
  BY <1>5, <1>6 DEF MembersInv

LEMMA ResetInv ==
    ASSUME MembersInv, NEW i, NEW u \in Users, resetAccountPassword(i, u)
    PROVE  MembersInv'
<1>1. PICK cutoff \in Times :
        /\ IsCutoff(u, cutoff, member[u].revokedAt)
        /\ member' = [member EXCEPT ![u].mustChange = TRUE, ![u].revokedAt = cutoff]
        /\ revokeSessionBatch(u, cutoff, cleanups)
  BY DEF resetAccountPassword
<1>2. /\ IsMember(u)
      /\ era' = [era EXCEPT ![u] = @ + 1]
      /\ secret' = [secret EXCEPT ![u] = era[u] + 1]
      /\ UNCHANGED <<now, opened, session, tokenJobs, change>>
  BY DEF resetAccountPassword, sessionVars
<1>3. DOMAIN secret' = Users /\ DOMAIN change' = Clients
  BY <1>2 DEF MembersInv, MembersOK, SessionsTypeOK
<1> QED
  BY <1>1, <1>2, <1>3, NewPassword

LEMMA CompleteInv ==
    ASSUME MembersInv, NEW c \in Clients, completePasswordChange(c)
    PROVE  MembersInv'
<1> DEFINE u == Owner(c)
<1>1. PICK cutoff \in Times :
        /\ IsCutoff(u, cutoff, member[u].revokedAt)
        /\ member' = [member EXCEPT ![u].mustChange = FALSE, ![u].revokedAt = cutoff]
        /\ revokeSessionBatch(u, cutoff, cleanups)
  BY DEF completePasswordChange
<1>2. /\ change[c].pc = "hashing"
      /\ era' = [era EXCEPT ![u] = @ + 1]
      /\ secret' = [secret EXCEPT ![u] = era[u] + 1]
      /\ change' = [change EXCEPT ![c] = IdleChange]
      /\ UNCHANGED <<now, opened, session, tokenJobs>>
  BY DEF completePasswordChange, sessionVars
<1>3. change[c].session \in 1..opened
  BY <1>2 DEF MembersInv, SessionsTypeOK
<1>4. u \in Users /\ IsMember(u)
  BY <1>3, RowFacts DEF MembersInv, SessionsInOrder, Owner
<1>5. DOMAIN secret' = Users /\ DOMAIN change' = Clients
  BY <1>2 DEF MembersInv, MembersOK, SessionsTypeOK
<1>6. \A d \in Clients : change'[d] = change[d] \/ change'[d].pc = "idle"
  BY <1>2 DEF MembersInv, SessionsTypeOK, IdleChange
<1>7. PICK owner \in Users : owner = u
  BY <1>4
<1> QED
  BY <1>1, <1>2, <1>4, <1>5, <1>6, <1>7, NewPassword

-----------------------------------------------------------------------------
(* Sessions come and go.                                                   *)

LEMMA MemberSignInInv ==
    ASSUME MembersInv, NEW u \in Users, authenticatePassword(u)
    PROVE  MembersInv'
<1> DEFINE n == opened + 1
           new == [user |-> u, at |-> now, era |-> era[u]]
<1>1. /\ IsMember(u) /\ opened < MaxSessions
      /\ opened' = n
      /\ session' = [session EXCEPT ![n] = new]
      /\ rows' = rows \cup {n}
      /\ UNCHANGED <<now, member, secret, era, tokens, cleanups, tokenJobs, change>>
  BY DEF authenticatePassword
<1>2. opened \in Nat /\ MaxSessions \in Nat /\ rows \subseteq 1..opened
  BY ConstantsAssumption DEF MembersInv, SessionsTypeOK
<1>3. /\ n \in Sessions /\ n \notin rows /\ n \in 1..n
      /\ \A i \in 1..n : i # n => i \in 1..opened /\ i < n
      /\ \A i \in 1..opened : i # n /\ i \in 1..n
      /\ n \in 0..MaxSessions
  BY <1>1, <1>2 DEF Sessions
<1>4. /\ new \in SessionType /\ new.user = u /\ new.at = now /\ new.era = era[u]
      /\ era[u] \in Nat /\ now \in Nat
  BY ConstantsAssumption DEF MembersInv, SessionsTypeOK, SessionType, Times
<1> HIDE DEF n, new
<1>5. /\ session' \in [Sessions -> SessionType]
      /\ session'[n] = new
      /\ \A i \in 1..opened : session'[i] = session[i]
  BY <1>1, <1>3, <1>4, RowFacts DEF MembersInv, SessionsTypeOK
<1>6. MembersOK'
  BY <1>1 DEF MembersInv, MembersOK, AdminRemains, IsMember
<1>7. SessionsTypeOK'
  BY <1>1, <1>2, <1>3, <1>5 DEF MembersInv, SessionsTypeOK
<1>8. SessionsInOrder'
  <2>1. ASSUME NEW i \in 1..n
        PROVE  /\ IsMember(session'[i].user)
               /\ session'[i].era <= era[session'[i].user]
               /\ session'[i].at <= now
    <3>1. CASE i = n
      BY <3>1, <1>1, <1>4, <1>5
    <3>2. CASE i # n
      BY <3>2, <1>3, <1>5 DEF MembersInv, SessionsInOrder
    <3> QED
      BY <3>1, <3>2
  <2>2. ASSUME NEW i \in 1..n, NEW j \in 1..n, i < j
        PROVE  session'[i].at <= session'[j].at
    <3>1. i \in 1..opened
      BY <2>2, <1>2, <1>3 DEF n
    <3>2. CASE j = n
      BY <3>1, <3>2, <1>4, <1>5 DEF MembersInv, SessionsInOrder
    <3>3. CASE j # n
      BY <2>2, <3>1, <3>3, <1>3, <1>5 DEF MembersInv, SessionsInOrder
    <3> QED
      BY <3>2, <3>3
  <2> QED
    BY <2>1, <2>2, <1>1 DEF SessionsInOrder, IsMember
<1>9. \A i \in rows' : session'[i].era < era[session'[i].user] =>
                            i \in rows /\ session'[i] = session[i]
  BY <1>1, <1>2, <1>4, <1>5
<1>10. BehindCutoff'
  BY <1>1, <1>9 DEF MembersInv, BehindCutoff
<1>11. RevokedRowsScheduled'
  BY <1>1, <1>9 DEF MembersInv, RevokedRowsScheduled
<1>12. NoTokensLeft'
  BY <1>1 DEF MembersInv, NoTokensLeft
<1> QED
  BY <1>6, <1>7, <1>8, <1>10, <1>11, <1>12 DEF MembersInv

\* Steps of a password change that only read.
LEMMA ChangePasswordInv ==
    ASSUME MembersInv, NEW c \in Clients,
           (\E i \in rows : StartChange(c, i)) \/ AbandonChange(c)
    PROVE  MembersInv'
<1>1. UNCHANGED <<now, member, secret, era, opened, session, drawn, rows, tokens,
                  cleanups, tokenJobs>>
  BY DEF StartChange, AbandonChange, sessionVars, rowVars
<1>2. /\ DOMAIN change' = Clients
      /\ \A d \in Clients : change'[d].pc # "idle" => change'[d].session \in 1..opened
  <2>1. CASE AbandonChange(c)
    BY <2>1 DEF AbandonChange, IdleChange, MembersInv, SessionsTypeOK
  <2>2. CASE \E i \in rows : StartChange(c, i)
    <3>1. PICK i \in rows : StartChange(c, i)
      BY <2>2
    <3> DEFINE new == [pc |-> "hashing", session |-> i,
                       hash |-> secret[session[i].user],
                       mustChange |-> member[session[i].user].mustChange]
    <3>2. change' = [change EXCEPT ![c] = new]
      BY <3>1 DEF StartChange
    <3>3. new.session = i /\ i \in 1..opened
      BY DEF MembersInv, SessionsTypeOK
    <3> HIDE DEF new
    <3> QED
      BY <3>2, <3>3 DEF MembersInv, SessionsTypeOK
  <2> QED
    BY <2>1, <2>2
<1>3. MembersOK'
  BY <1>1 DEF MembersInv, MembersOK, AdminRemains, IsMember
<1>4. SessionsTypeOK'
  BY <1>1, <1>2 DEF MembersInv, SessionsTypeOK
<1>5. (SessionsInOrder /\ BehindCutoff /\ RevokedRowsScheduled /\ NoTokensLeft)'
  BY <1>1 DEF MembersInv, SessionsInOrder, BehindCutoff, RevokedRowsScheduled,
              NoTokensLeft, IsMember
<1> QED
  BY <1>3, <1>4, <1>5 DEF MembersInv

\* Rows and tokens that are deleted or issued, and time that passes.
LEMMA RowsInv ==
    ASSUME MembersInv,
           now' \in Times, now <= now',
           rows' \subseteq rows, DOMAIN tokens' = Sessions,
           NoTokensLeft',
           UNCHANGED <<member, secret, era, opened, session, cleanups, change>>
    PROVE  MembersInv'
<1>1. MembersOK'
  BY DEF MembersInv, MembersOK, AdminRemains, IsMember
<1>2. SessionsTypeOK'
  BY DEF MembersInv, SessionsTypeOK
<1>3. SessionsInOrder'
  <2>1. now \in Nat /\ now' \in Nat
    BY ConstantsAssumption DEF MembersInv, SessionsTypeOK, Times
  <2>2. \A i \in 1..opened : session[i].at \in Nat
    BY RowFacts DEF MembersInv
  <2> QED
    BY <2>1, <2>2 DEF MembersInv, SessionsInOrder, IsMember
<1>4. BehindCutoff' /\ RevokedRowsScheduled'
  BY DEF MembersInv, BehindCutoff, RevokedRowsScheduled
<1> QED
  BY <1>1, <1>2, <1>3, <1>4 DEF MembersInv

LEMMA LibraryInv ==
    ASSUME MembersInv, NEW i \in rows, SignOut(i) \/ IssueTokens(i)
    PROVE  MembersInv'
<1>1. i \in Sessions /\ DOMAIN tokens = Sessions /\ now \in Times /\ now <= now
  BY RowFacts, ConstantsAssumption DEF MembersInv, SessionsTypeOK, Times
<1>2. CASE SignOut(i)
  <2>1. /\ rows' = rows \ {i} /\ tokens' = [tokens EXCEPT ![i] = 0]
        /\ UNCHANGED <<now, member, secret, era, opened, session, cleanups,
                       tokenJobs, change>>
    BY <1>2 DEF SignOut, sessionVars
  <2>2. NoTokensLeft'
    BY <2>1, <1>1 DEF MembersInv, NoTokensLeft
  <2> QED
    BY <2>1, <2>2, <1>1, RowsInv
<1>3. CASE IssueTokens(i)
  <2>1. /\ tokens' = [tokens EXCEPT ![i] = MaxTokens]
        /\ UNCHANGED <<now, member, secret, era, opened, session, rows, cleanups,
                       tokenJobs, change>>
    BY <1>3 DEF IssueTokens
  <2>2. NoTokensLeft'
    BY <2>1, <1>1 DEF MembersInv, NoTokensLeft
  <2> QED
    BY <2>1, <2>2, <1>1, RowsInv
<1> QED
  BY <1>2, <1>3

LEMMA SweepInv ==
    ASSUME MembersInv, NEW i,
           (i \in tokenJobs /\ removeExpiredSessionTokens(i)) \/ expireSessions(i)
    PROVE  MembersInv'
<1>1. DOMAIN tokens = Sessions /\ now \in Times /\ now <= now
  BY ConstantsAssumption DEF MembersInv, SessionsTypeOK, Times
<1>2. CASE expireSessions(i)
  <2>1. /\ rows' = rows \ {i} /\ tokenJobs' = tokenJobs \cup {i}
        /\ UNCHANGED <<now, member, secret, era, opened, session, tokens, cleanups,
                       change>>
    BY <1>2 DEF expireSessions, sessionVars
  <2>2. NoTokensLeft'
    BY <2>1 DEF MembersInv, NoTokensLeft
  <2> QED
    BY <2>1, <2>2, <1>1, RowsInv
<1>3. CASE removeExpiredSessionTokens(i)
  <2>1. /\ tokens' = [tokens EXCEPT ![i] =
                        IF i \in rows THEN @
                        ELSE IF @ >= TokenBatch THEN @ - TokenBatch ELSE 0]
        /\ tokenJobs' = IF i \notin rows /\ tokens[i] >= TokenBatch
                        THEN tokenJobs ELSE tokenJobs \ {i}
        /\ UNCHANGED <<now, member, secret, era, opened, session, rows, cleanups,
                       change>>
    BY <1>3 DEF removeExpiredSessionTokens, sessionVars
  <2>2. NoTokensLeft'
    <3> SUFFICES ASSUME NEW j \in Sessions, j \notin rows, j \notin tokenJobs'
                 PROVE  tokens'[j] = 0
      BY <2>1 DEF NoTokensLeft
    <3>1. CASE j = i /\ i \in tokenJobs
      BY <3>1, <2>1, <1>1
    <3>2. CASE j # i
      BY <3>2, <2>1, <1>1 DEF MembersInv, NoTokensLeft
    <3>3. i \in tokenJobs
      BY <1>3 DEF removeExpiredSessionTokens
    <3> QED
      BY <3>1, <3>2, <3>3
  <2> QED
    BY <2>1, <2>2, <1>1, RowsInv
<1> QED
  BY <1>2, <1>3

LEMMA MembersTickInv ==
    ASSUME MembersInv, Tick
    PROVE  MembersInv'
<1>1. /\ now < MaxTime /\ now' = now + 1
      /\ UNCHANGED <<member, secret, era, opened, session, rows, tokens, cleanups,
                     tokenJobs, change>>
  BY DEF Tick, sessionVars, rowVars
<1>2. now \in Times /\ now' \in Times /\ now <= now'
  BY <1>1, ConstantsAssumption DEF MembersInv, SessionsTypeOK, Times
<1>3. NoTokensLeft' /\ DOMAIN tokens' = Sessions
  BY <1>1 DEF MembersInv, NoTokensLeft, SessionsTypeOK
<1> QED
  BY <1>1, <1>2, <1>3, RowsInv

LEMMA MembersNextInv ==
    ASSUME MembersInv, Next
    PROVE  MembersInv'
<1>1. CASE Administration
  BY <1>1, CreateMemberInv, SetRoleInv, EnableInv, DisableInv, ResetInv
     DEF Administration
<1>2. CASE SignIn \/ ChangePassword
  BY <1>2, MemberSignInInv, ChangePasswordInv, CompleteInv DEF SignIn, ChangePassword
<1>3. CASE Scheduled
  BY <1>3, RevokedCleanupInv, SweepInv DEF Scheduled
<1>4. CASE Library \/ Tick
  BY <1>4, LibraryInv, MembersTickInv DEF Library
<1> QED
  BY <1>1, <1>2, <1>3, <1>4 DEF Next

LEMMA MembersStutterInv ==
    ASSUME MembersInv, UNCHANGED vars
    PROVE  MembersInv'
<1>1. MembersOK'
  BY DEF MembersInv, MembersOK, AdminRemains, IsMember, vars
<1>2. SessionsTypeOK'
  BY DEF MembersInv, SessionsTypeOK, vars, sessionVars, rowVars
<1>3. (SessionsInOrder /\ BehindCutoff /\ RevokedRowsScheduled /\ NoTokensLeft)'
  BY DEF MembersInv, SessionsInOrder, BehindCutoff, RevokedRowsScheduled,
         NoTokensLeft, IsMember, vars, sessionVars, rowVars
<1> QED
  BY <1>1, <1>2, <1>3 DEF MembersInv

-----------------------------------------------------------------------------
(* The theorems.                                                           *)

\* Whatever administrators do to each other, also at the same time, an active
\* administrator remains.  (protectLastAdmin, setRole, setActive)
THEOREM AdminAlwaysRemains == Spec => []AdminRemains
<1>1. MembersInv => AdminRemains
  BY DEF MembersInv, MembersOK
<1> QED
  BY <1>1, MembersInitInv, MembersNextInv, MembersStutterInv, PTL DEF Spec

LEMMA InvRevoked ==
    ASSUME MembersInv
    PROVE  RevocationHolds
<1>1. RevokedStaysRevoked
  <2> SUFFICES ASSUME NEW i \in rows, hasCurrentPortalSession(i)
               PROVE  session[i].era = era[session[i].user]
    BY DEF RevokedStaysRevoked
  <2> DEFINE u == session[i].user
  <2>1. i \in 1..opened /\ u \in Users /\ session[i].era \in Nat /\ session[i].at \in Nat
    BY RowFacts DEF MembersInv
  <2>2. era[u] \in Nat /\ session[i].era <= era[u]
    BY <2>1 DEF MembersInv, SessionsTypeOK, SessionsInOrder
  <2>3. member[u].revokedAt \in Int
    BY <2>1, ConstantsAssumption
       DEF MembersInv, MembersOK, MemberType, Times, Never
  <2>4. session[i].at > member[u].revokedAt
    BY DEF hasCurrentPortalSession
  <2>5. ~(session[i].era < era[u])
    BY <2>1, <2>3, <2>4 DEF MembersInv, BehindCutoff
  <2> QED
    BY <2>1, <2>2, <2>5
<1>2. NoOrphanTokens
  BY DEF MembersInv, NoTokensLeft, NoOrphanTokens
<1> QED
  BY <1>1, <1>2 DEF MembersInv, RevocationHolds

\* A session of before a disable, a reset or another password never acts again,
\* its row is deleted by a batch that is scheduled, and no tokens outlive it
\* unless a job to delete them waits, for batches of any size.
\* (revokeSessionBatch, cleanupRevokedSessions, hasCurrentPortalSession)
THEOREM RevocationAlwaysHolds == Spec => []RevocationHolds
  BY MembersInitInv, MembersNextInv, MembersStutterInv, InvRevoked, PTL DEF Spec

\* Another password is that of the change that completes, which knew the last one,
\* or an administrator's, which the member must change.
LEMMA SecretStep ==
    ASSUME MembersInv, Next, NEW u \in Users, secret'[u] # secret[u],
           ~member'[u].mustChange
    PROVE  \E c \in Clients : /\ change[c].pc = "hashing"
                              /\ Owner(c) = u
                              /\ change[c].hash = secret[u]
<1>1. \/ \E i \in rows, v \in Users : resetAccountPassword(i, v)
      \/ \E c \in Clients : completePasswordChange(c)
  BY DEF Next, Administration, SignIn, ChangePassword, Scheduled, Library,
         createAccountAndMember, setRole, Enable, Disable, authenticatePassword,
         StartChange, AbandonChange, cleanupRevokedSessions,
         removeExpiredSessionTokens, expireSessions, SignOut, IssueTokens, Tick
<1>2. CASE \E i \in rows, v \in Users : resetAccountPassword(i, v)
  <2>1. PICK i \in rows, v \in Users : resetAccountPassword(i, v)
    BY <1>2
  <2>2. PICK cutoff \in Times :
          member' = [member EXCEPT ![v].mustChange = TRUE, ![v].revokedAt = cutoff]
    BY <2>1 DEF resetAccountPassword
  <2>3. secret' = [secret EXCEPT ![v] = era[v] + 1]
    BY <2>1 DEF resetAccountPassword
  <2>4. v = u
    BY <2>3 DEF MembersInv, MembersOK
  <2>5. member'[u].mustChange
    BY <2>2, <2>4 DEF MembersInv, MembersOK, MemberType
  <2> QED
    BY <2>5
<1>3. CASE \E c \in Clients : completePasswordChange(c)
  <2>1. PICK c \in Clients : completePasswordChange(c)
    BY <1>3
  <2>2. /\ change[c].pc = "hashing"
        /\ secret[Owner(c)] = change[c].hash
        /\ secret' = [secret EXCEPT ![Owner(c)] = era[Owner(c)] + 1]
    BY <2>1 DEF completePasswordChange, assertOwnPasswordAccountUnchanged
  <2>3. Owner(c) = u
    BY <2>2 DEF MembersInv, MembersOK
  <2> QED
    BY <2>2, <2>3
<1> QED
  BY <1>1, <1>2, <1>3

\* A member's change replaces only the password the member proved to know, never
\* one that an administrator or another change set in between.
\* (assertOwnPasswordAccountUnchanged, completePasswordChange)
THEOREM ChangesKnowCurrent == Spec => ChangeKnowsCurrent
<1>1. MembersInv /\ [Next]_vars =>
        [\A u \in Users :
            secret'[u] # secret[u] /\ ~member'[u].mustChange =>
                \E c \in Clients : /\ change[c].pc = "hashing"
                                   /\ Owner(c) = u
                                   /\ change[c].hash = secret[u]]_vars
  BY SecretStep
<1> QED
  BY <1>1, MembersInitInv, MembersNextInv, MembersStutterInv, PTL DEF Spec, ChangeKnowsCurrent
=============================================================================

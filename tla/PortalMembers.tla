--------------------------- MODULE PortalMembers ---------------------------
(***************************************************************************)
(* Accounts of the portal and their sessions.                              *)
(*                                                                         *)
(* A session row is named by its number, in order of creation; a browser   *)
(* keeps presenting its token after the row is gone, so any session ever   *)
(* opened may act.  A disabled account, a reset and a changed password set *)
(* a cutoff in the same transaction; the rows behind it are deleted in     *)
(* batches, each a transaction of its own.  A member changes the password  *)
(* in an action that takes several transactions and may die between two.   *)
(* Every mutation is one serializable transaction.                         *)
(*                                                                         *)
(* Passwords are named by the era that set them.  The role "viewer" stands *)
(* for every role but "admin".  An attempt the budget of failed attempts   *)
(* refuses is a step not taken: PasswordAttempts models the budget.  Left  *)
(* out: audit rows, and the alert of a new account (PeopleAlerts).         *)
(***************************************************************************)
EXTENDS Integers, FiniteSets, FiniteSetsExt

CONSTANTS
    Users,
    Founder,          \* the administrator the portal starts with
    Clients,          \* password changes under way at a time
    MaxSessions,      \* sessions ever opened
    MaxEras,          \* disables, resets and password changes in all
    MaxTime,
    SessionLife,      \* ticks until a session expires
    SessionBatch,     \* maxSessions of revokeSessionBatch
    TokenBatch,       \* its tokenBudget
    MaxTokens         \* refresh tokens of one session

ASSUME ConstantsAssumption ==
    /\ Founder \in Users
    /\ MaxSessions \in Nat
    /\ MaxEras \in Nat
    /\ MaxTime \in Nat
    /\ SessionLife \in Nat \ {0}
    /\ SessionBatch \in Nat \ {0}
    /\ TokenBatch \in Nat \ {0}
    /\ MaxTokens \in Nat

VARIABLES
    now,
    member,           \* portalMembers
    secret,           \* authAccounts: the era whose password is stored
    era,              \* history: disables, resets and changes so far
    opened,           \* sessions 1..opened have existed
    session,          \* owner, creation time and era of each
    rows,             \* authSessions
    tokens,           \* authRefreshTokens of each session
    drawn,            \* sessions that were issued their tokens
    cleanups,         \* scheduled cleanupRevokedSessions
    tokenJobs,        \* scheduled removeExpiredSessionTokens
    change            \* password changes under way

sessionVars == <<opened, session, drawn>>
rowVars == <<rows, tokens, cleanups>>
vars == <<now, member, secret, era, sessionVars, rowVars, tokenJobs, change>>

Roles == {"admin", "viewer"}
Sessions == 1..MaxSessions
Times == 0..MaxTime
Never == -1
NoMember == [role |-> "none", active |-> FALSE, mustChange |-> FALSE,
             revokedAt |-> Never]
IdleChange == [pc |-> "idle", session |-> 0, hash |-> 0, mustChange |-> FALSE]

Init ==
    /\ now = 0
    /\ member = [u \in Users |->
                    IF u = Founder
                    THEN [NoMember EXCEPT !.role = "admin", !.active = TRUE]
                    ELSE NoMember]
    /\ secret = [u \in Users |-> 0]
    /\ era = [u \in Users |-> 0]
    /\ opened = 0
    /\ session = [i \in Sessions |-> [user |-> Founder, at |-> 0, era |-> 0]]
    /\ rows = {}
    /\ tokens = [i \in Sessions |-> 0]
    /\ drawn = {}
    /\ cleanups = {}
    /\ tokenJobs = {}
    /\ change = [c \in Clients |-> IdleChange]

-----------------------------------------------------------------------------
(* Who may act: the token of session i is presented.                       *)

Expired(i) == session[i].at + SessionLife <= now

\* A slip: a session opened in the very millisecond of the cutoff counts.
SessionAtCutoff(i) ==
    /\ i \in rows
    /\ ~Expired(i)
    /\ session[i].at >= member[session[i].user].revokedAt

hasCurrentPortalSession(i) ==
    /\ i \in rows
    /\ ~Expired(i)
    /\ session[i].at > member[session[i].user].revokedAt

assertPortalMember(i) ==
    /\ hasCurrentPortalSession(i)
    /\ member[session[i].user].active

assertAdmin(i) ==
    /\ assertPortalMember(i)
    /\ ~member[session[i].user].mustChange
    /\ member[session[i].user].role = "admin"

IsMember(u) == member[u].role # "none"

\* A slip: the other administrator need not be active.
AnyOtherAdmin(u, nextRole, nextActive) ==
    \/ ~member[u].active
    \/ member[u].role # "admin"
    \/ nextActive /\ nextRole = "admin"
    \/ \E v \in Users \ {u} : member[v].role = "admin"

protectLastAdmin(u, nextRole, nextActive) ==
    \/ ~member[u].active
    \/ member[u].role # "admin"
    \/ nextActive /\ nextRole = "admin"
    \/ \E v \in Users \ {u} : member[v].active /\ member[v].role = "admin"

-----------------------------------------------------------------------------
(* Revocation.                                                             *)

UserRows(u) == {i \in rows : session[i].user = u}
UpTo(u, i) == {j \in UserRows(u) : j <= i}
TokensUpTo(u, i) == MapThenSumSet(LAMBDA j : tokens[j], UpTo(u, i))

\* The oldest sessions, as far as the first one past the cutoff.
InBatch(u, cutoff) ==
    {i \in UserRows(u) :
        /\ Cardinality(UpTo(u, i)) <= SessionBatch
        /\ \A j \in UpTo(u, i) : session[j].at <= cutoff}

\* Those whose tokens, and all before them, fit the budget are deleted; the
\* one that exceeds it loses the rest of the budget.
Emptied(u, cutoff) ==
    {i \in InBatch(u, cutoff) : TokensUpTo(u, i) <= TokenBatch}

TokensLeft(u, i) ==
    IF TokensUpTo(u, i) <= TokenBatch THEN 0
    ELSE Min({tokens[i], TokensUpTo(u, i) - TokenBatch})

NextDue(u, cutoff, left) ==
    \E i \in left : /\ session[i].user = u
                    /\ session[i].at <= cutoff
                    /\ \A j \in left : session[j].user = u => i <= j

revokeSessionBatch(u, cutoff, jobs) ==
    LET left == rows \ Emptied(u, cutoff) IN
    /\ rows' = left
    /\ tokens' = [i \in Sessions |-> IF i \in InBatch(u, cutoff)
                                     THEN TokensLeft(u, i) ELSE tokens[i]]
    /\ cleanups' = jobs \cup
            {job \in {[user |-> u, cutoff |-> cutoff]} : NextDue(u, cutoff, left)}

cleanupRevokedSessions(job) ==
    /\ job \in cleanups
    /\ revokeSessionBatch(job.user, job.cutoff, cleanups \ {job})
    /\ UNCHANGED <<now, member, secret, era, sessionVars, tokenJobs, change>>

\* Now, or the latest session if that is later.
IsCutoff(u, cutoff, earlier) ==
    LET times == {now, earlier} \cup {session[i].at : i \in UserRows(u)} IN
    /\ cutoff \in times
    /\ \A t \in times : t <= cutoff

-----------------------------------------------------------------------------
(* Administration.                                                         *)

\* Bounds the search.
MayRevoke == MapThenSumSet(LAMBDA u : era[u], Users) < MaxEras

createAccountAndMember(i, u, role) ==
    /\ assertAdmin(i)
    /\ ~IsMember(u)
    /\ member' = [member EXCEPT ![u] =
            [role |-> role, active |-> TRUE, mustChange |-> TRUE,
             revokedAt |-> Never]]
    /\ UNCHANGED <<now, secret, era, sessionVars, rowVars, tokenJobs, change>>

setRole(i, u, role) ==
    /\ assertAdmin(i)
    /\ IsMember(u)
    /\ member[u].role # role
    /\ protectLastAdmin(u, role, member[u].active)
    /\ member' = [member EXCEPT ![u].role = role]
    /\ UNCHANGED <<now, secret, era, sessionVars, rowVars, tokenJobs, change>>

Enable(i, u) ==
    /\ assertAdmin(i)
    /\ IsMember(u)
    /\ ~member[u].active
    /\ member' = [member EXCEPT ![u].active = TRUE]
    /\ UNCHANGED <<now, secret, era, sessionVars, rowVars, tokenJobs, change>>

Disable(i, u) ==
    /\ assertAdmin(i)
    /\ MayRevoke
    /\ member[u].active
    /\ protectLastAdmin(u, member[u].role, FALSE)
    /\ \E cutoff \in Times :
        /\ IsCutoff(u, cutoff, 0)
        /\ member' = [member EXCEPT ![u].active = FALSE,
                                    ![u].revokedAt = cutoff]
        /\ revokeSessionBatch(u, cutoff, cleanups)
    /\ era' = [era EXCEPT ![u] = @ + 1]
    /\ UNCHANGED <<now, secret, sessionVars, tokenJobs, change>>

resetAccountPassword(i, u) ==
    /\ assertAdmin(i)
    /\ IsMember(u)
    /\ MayRevoke
    /\ era' = [era EXCEPT ![u] = @ + 1]
    /\ secret' = [secret EXCEPT ![u] = era[u] + 1]
    /\ \E cutoff \in Times :
        /\ IsCutoff(u, cutoff, member[u].revokedAt)
        /\ member' = [member EXCEPT ![u].mustChange = TRUE,
                                    ![u].revokedAt = cutoff]
        /\ revokeSessionBatch(u, cutoff, cleanups)
    /\ UNCHANGED <<now, sessionVars, tokenJobs, change>>

-----------------------------------------------------------------------------
(* Sign-in with the stored password.                                       *)

\* Verified and opened in one transaction; a disabled account rolls it back.
authenticatePassword(u) ==
    /\ IsMember(u)
    /\ member[u].active
    /\ opened < MaxSessions
    /\ opened' = opened + 1
    /\ session' = [session EXCEPT ![opened + 1] =
                    [user |-> u, at |-> now, era |-> era[u]]]
    /\ rows' = rows \cup {opened + 1}
    /\ UNCHANGED <<now, member, secret, era, tokens, drawn, cleanups,
                   tokenJobs, change>>

-----------------------------------------------------------------------------
(* A member changes the password; u is the owner of the session used.      *)

Owner(c) == session[change[c].session].user

\* The snapshot of getOwnPasswordAccount, against which the action verifies the
\* password typed and derives the new hash.
StartChange(c, i) ==
    /\ change[c].pc = "idle"
    /\ assertPortalMember(i)
    /\ change' = [change EXCEPT ![c] =
            [pc |-> "hashing", session |-> i, hash |-> secret[session[i].user],
             mustChange |-> member[session[i].user].mustChange]]
    /\ UNCHANGED <<now, member, secret, era, sessionVars, rowVars, tokenJobs>>

\* A slip: the final write asks only whether the account is still active.
OnlyMemberRechecked(c) == member[Owner(c)].active

assertOwnPasswordAccountUnchanged(c) ==
    /\ assertPortalMember(change[c].session)
    /\ secret[Owner(c)] = change[c].hash
    /\ member[Owner(c)].mustChange = change[c].mustChange

completePasswordChange(c) ==
    /\ change[c].pc = "hashing"
    /\ assertOwnPasswordAccountUnchanged(c)
    /\ MayRevoke
    /\ era' = [era EXCEPT ![Owner(c)] = @ + 1]
    /\ secret' = [secret EXCEPT ![Owner(c)] = era[Owner(c)] + 1]
    /\ \E cutoff \in Times :
        /\ IsCutoff(Owner(c), cutoff, member[Owner(c)].revokedAt)
        /\ member' = [member EXCEPT ![Owner(c)].mustChange = FALSE,
                                    ![Owner(c)].revokedAt = cutoff]
        /\ revokeSessionBatch(Owner(c), cutoff, cleanups)
    /\ change' = [change EXCEPT ![c] = IdleChange]
    /\ UNCHANGED <<now, sessionVars, tokenJobs>>

\* Refused by a check, refused as the same password, or died.
AbandonChange(c) ==
    /\ change[c].pc # "idle"
    /\ change' = [change EXCEPT ![c] = IdleChange]
    /\ UNCHANGED <<now, member, secret, era, sessionVars, rowVars, tokenJobs>>

-----------------------------------------------------------------------------
(* The authentication library and the sweep of expired sessions.           *)

\* Tokens are issued for an existing session after the sign-in committed.
IssueTokens(i) ==
    /\ i \in rows \ drawn
    /\ ~Expired(i)
    /\ drawn' = drawn \cup {i}
    /\ tokens' = [tokens EXCEPT ![i] = MaxTokens]
    /\ UNCHANGED <<now, member, secret, era, opened, session, rows, cleanups,
                   tokenJobs, change>>

SignOut(i) ==
    /\ i \in rows
    /\ rows' = rows \ {i}
    /\ tokens' = [tokens EXCEPT ![i] = 0]
    /\ UNCHANGED <<now, member, secret, era, sessionVars, cleanups, tokenJobs,
                   change>>

\* A batch deletes the rows one after the other and another batch follows a
\* full one, so the model sweeps one row at a time.
expireSessions(i) ==
    /\ i \in rows
    /\ Expired(i)
    /\ rows' = rows \ {i}
    /\ tokenJobs' = tokenJobs \cup {i}
    /\ UNCHANGED <<now, member, secret, era, sessionVars, tokens, cleanups,
                   change>>

removeExpiredSessionTokens(i) ==
    /\ i \in tokenJobs
    /\ tokens' = [tokens EXCEPT ![i] = IF i \in rows THEN @
                                       ELSE IF @ >= TokenBatch THEN @ - TokenBatch
                                       ELSE 0]
    /\ tokenJobs' = IF i \notin rows /\ tokens[i] >= TokenBatch
                    THEN tokenJobs ELSE tokenJobs \ {i}
    /\ UNCHANGED <<now, member, secret, era, sessionVars, rows, cleanups,
                   change>>

Tick ==
    /\ now < MaxTime
    /\ now' = now + 1
    /\ UNCHANGED <<member, secret, era, sessionVars, rowVars, tokenJobs, change>>

-----------------------------------------------------------------------------
Administration ==
    \E i \in rows, u \in Users :
        \/ \E role \in Roles :
            createAccountAndMember(i, u, role) \/ setRole(i, u, role)
        \/ Enable(i, u) \/ Disable(i, u) \/ resetAccountPassword(i, u)

SignIn == \E u \in Users : authenticatePassword(u)

ChangePassword ==
    \E c \in Clients :
        \/ \E i \in rows : StartChange(c, i)
        \/ completePasswordChange(c)
        \/ AbandonChange(c)

Scheduled ==
    \/ \E job \in cleanups : cleanupRevokedSessions(job)
    \/ \E i \in tokenJobs : removeExpiredSessionTokens(i)
    \/ \E i \in rows : expireSessions(i)

Library ==
    \E i \in rows : SignOut(i) \/ IssueTokens(i)

Next == Administration \/ SignIn \/ ChangePassword \/ Scheduled \/ Library \/ Tick

Spec == Init /\ [][Next]_vars

-----------------------------------------------------------------------------
MemberType ==
    [role : Roles \cup {"none"}, active : BOOLEAN, mustChange : BOOLEAN,
     revokedAt : Times \cup {Never}]
SessionType == [user : Users, at : Times, era : Nat]
ChangeType ==
    [pc : {"idle", "hashing"}, session : 0..MaxSessions,
     hash : Nat, mustChange : BOOLEAN]

\* Rows, tokens and scheduled work name sessions that existed, and only
\* members have an active account.
TypeOK ==
    /\ now \in Times
    /\ member \in [Users -> MemberType]
    /\ \A u \in Users : member[u].active => IsMember(u)
    /\ secret \in [Users -> Nat]
    /\ era \in [Users -> Nat]
    /\ opened \in 0..MaxSessions
    /\ session \in [Sessions -> SessionType]
    /\ rows \subseteq 1..opened
    /\ drawn \subseteq 1..opened
    /\ tokens \in [Sessions -> 0..MaxTokens]
    /\ cleanups \subseteq [user : Users, cutoff : Times]
    /\ tokenJobs \subseteq 1..opened
    /\ change \in [Clients -> ChangeType]
    /\ \A c \in Clients : change[c].pc # "idle" => change[c].session \in 1..opened

\* Whatever administrators do to each other and to themselves, some active
\* administrator remains (protectLastAdmin).
AdminRemains == \E u \in Users : member[u].active /\ member[u].role = "admin"

\* A session opened before its account was disabled, reset or given another
\* password never acts again, even after the account is enabled, though its
\* token is still presented and its row may wait for a later batch.
RevokedStaysRevoked ==
    \A i \in rows : hasCurrentPortalSession(i) =>
                        session[i].era = era[session[i].user]

\* A refresh token outlives its session only while a job to delete it waits.
NoOrphanTokens ==
    \A i \in Sessions : tokens[i] > 0 => i \in rows \/ i \in tokenJobs

\* A member's own change replaces only the password the member proved to
\* know, never one an administrator or another change set in between.
ChangeKnowsCurrent ==
    [][\A u \in Users :
        secret'[u] # secret[u] /\ ~member'[u].mustChange =>
            \E c \in Clients : /\ change[c].pc = "hashing"
                               /\ Owner(c) = u
                               /\ change[c].hash = secret[u]]_vars

\* A revoked row that is still there is within the cutoff of a cleanup that
\* is scheduled, so no batch that stops short leaves one behind for good.
RevokedRowsScheduled ==
    \A i \in rows :
        session[i].era < era[session[i].user] =>
            \E job \in cleanups : /\ job.user = session[i].user
                                  /\ session[i].at <= job.cutoff

\* A revocation holds at once and leaves nothing behind.
RevocationHolds == RevokedStaysRevoked /\ RevokedRowsScheduled /\ NoOrphanTokens
=============================================================================

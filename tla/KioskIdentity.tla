--------------------------- MODULE KioskIdentity ---------------------------
(***************************************************************************)
(* Which kiosk a request speaks for and what the portal makes of its report *)
(* (src/convex/kiosks.ts, src/src/lib/kiosk-device-auth.ts,                *)
(* src/src/app/api/sync/route.ts): the key all kiosks share until each has *)
(* a credential of its own, names that old registrations share,            *)
(* credentials that are rotated, revoked or put into the wrong device,     *)
(* reports that overtake each other, and the count of scans a kiosk has    *)
(* yet to upload.                                                          *)
(*                                                                         *)
(* A kiosk has one name, which stands for its name, its sync id and its    *)
(* document id.  The roster that answers a request is in LegacyRoster and  *)
(* RosterReceipts.  The clocks of the portal's servers agree.              *)
(***************************************************************************)
EXTENDS Naturals, FiniteSets, Sequences

CONSTANTS
    Kiosks,         \* documents of the table kiosks, each with its device
    Names,
    Unknown,        \* a count that was not sent or not a number
    Far,            \* a report's time of before it was checked
    MaxRequests, MaxCredential, MaxTime    \* bounds; of requests at a time

KioskIdentityAssumption ==
    /\ {Far, MaxRequests, MaxCredential, MaxTime} \subseteq Nat
    /\ Far > MaxTime /\ MaxTime > 0

VARIABLES
    \* the portal
    kiosks,         \* the active rows
    now,
    issued,         \* credentials 1..issued have been made
    \* the devices
    name,           \* the name each was given
    \* between them
    requests,       \* two alike are one
    \* history
    holder,         \* the key last given for a kiosk: 0 the shared one, Nobody none
    heard           \* the newest time of a report that was dealt with

portalVars == <<kiosks, now, issued>>
vars == <<portalVars, name, requests, holder, heard>>

Shared == 0
Nobody == MaxCredential + 1
NoHash == 0
Never == 0

NoQueue == [lastValidCount |-> 0, observedAt |-> Never, latest |-> "none"]

Row(n) == [name |-> n, credentialHash |-> NoHash, legacyDisabled |-> FALSE,
           lastSync |-> Never, queue |-> NoQueue]

Active == DOMAIN kiosks

\* Registrations of before names were checked may share one, and a report of
\* before times were checked may be far ahead.
Init ==
    /\ \E old \in SUBSET Kiosks, n \in [Kiosks -> Names], t \in {Never, Far} :
          /\ kiosks = [k \in old |-> [Row(n[k]) EXCEPT !.lastSync = t]]
          /\ name = n
    /\ now = 1
    /\ issued = 0
    /\ requests = {}
    /\ holder = [k \in Kiosks |-> Shared]
    /\ heard = [k \in Kiosks |-> Never]

-----------------------------------------------------------------------------
(* Administrators.                                                         *)

\* create: a name that no active kiosk has.
create ==
    \E k \in Kiosks \ Active :
        /\ \A other \in Active : kiosks[other].name # name[k]
        /\ kiosks' = [j \in Active \cup {k} |->
                        IF j = k THEN Row(name[k]) ELSE kiosks[j]]
        /\ UNCHANGED <<now, issued, name, requests, holder, heard>>

rotateCredential ==
    \E k \in Active :
        /\ issued < MaxCredential
        /\ issued' = issued + 1
        /\ kiosks' = [kiosks EXCEPT ![k].credentialHash = issued + 1,
                                    ![k].legacyDisabled = TRUE]
        /\ holder' = [holder EXCEPT ![k] = issued + 1]
        /\ UNCHANGED <<now, name, requests, heard>>

\* A slip: access by the shared key is closed only when a credential is issued.
OnlyHashRemoved(row) == [row EXCEPT !.credentialHash = NoHash]

Revoked(row) == [row EXCEPT !.credentialHash = NoHash, !.legacyDisabled = TRUE]

revokeCredential ==
    \E k \in Active :
        /\ holder[k] # Nobody
        /\ kiosks' = [kiosks EXCEPT ![k] = Revoked(@)]
        /\ holder' = [holder EXCEPT ![k] = Nobody]
        /\ UNCHANGED <<now, issued, name, requests, heard>>

Tick ==
    /\ now < MaxTime
    /\ now' = now + 1
    /\ UNCHANGED <<kiosks, issued, name, requests, holder, heard>>

-----------------------------------------------------------------------------
(* GET /api/sync: each step is a transaction of its own.                   *)

At(step) == {r \in requests : r.step = step}

\* What a report may say of the queue; what is not a whole number is not known.
Counts == {0, 1, Unknown}

\* A request of a device arrives: with whatever key was put into it, perhaps of
\* another kiosk, and may be replaced by now.  The order of arrival is that of
\* the reports, whatever comes next.
Arrive ==
    /\ Cardinality(requests) < MaxRequests
    /\ \E d \in Kiosks, key \in Shared..issued, count \in Counts :
          requests' = requests \cup {[step |-> "arrived", kiosk |-> d, device |-> d,
                                     key |-> key, count |-> count, at |-> now]}
    /\ UNCHANGED <<portalVars, name, holder, heard>>

\* A slip: of rows that share a name, the first is meant.
FirstOfName(n) ==
    LET same == {k \in Active : kiosks[k].name = n}
    IN IF same = {} THEN {} ELSE {CHOOSE k \in same : TRUE}

\* Rows that share a name are told apart by no request.
findActiveKioskByIdentifier(n) ==
    LET same == {k \in Active : kiosks[k].name = n}
    IN {k \in same : same = {k}}

authenticateDevice(hash) == {k \in Active : kiosks[k].credentialHash = hash}

authenticateLegacy(n) ==
    {k \in findActiveKioskByIdentifier(n) : ~kiosks[k].legacyDisabled}

HasDeviceKey(r) == r.key # Shared

\* The key says which kiosk it is, and the name it was given must agree.
Identity(r) ==
    {k \in IF HasDeviceKey(r) THEN authenticateDevice(r.key)
           ELSE authenticateLegacy(name[r.device]) :
        kiosks[k].name = name[r.device]}

Admitted(r, k) == [r EXCEPT !.step = "admitted", !.kiosk = k]

authenticateKiosk ==
    \E r \in At("arrived") :
        /\ requests' = (requests \ {r}) \cup {Admitted(r, k) : k \in Identity(r)}
        /\ UNCHANGED <<portalVars, name, holder, heard>>

\* A slip: a report that was overtaken counts.
AnyReport(row, at) == TRUE

\* A report is taken if it is newer than the last, unless that is in the future.
IsNewer(row, at) == row.lastSync \in 1..now => at > row.lastSync

\* A slip: no count is no scans.
NoneIsZero(row, r) ==
    [lastValidCount |-> IF r.count = Unknown THEN 0 ELSE r.count,
     observedAt |-> r.at, latest |-> "reported"]

\* A count that is not valid keeps the one before.
nextAttendanceQueue(row, r) ==
    IF r.count # Unknown
    THEN [lastValidCount |-> r.count, observedAt |-> r.at, latest |-> "reported"]
    ELSE IF row.queue = NoQueue THEN NoQueue
    ELSE [row.queue EXCEPT !.latest = "unknown"]

\* The report may fail: the roster is sent nevertheless.
updateLastSync ==
    \E r \in At("admitted") :
        /\ \/ /\ LET row == kiosks[r.kiosk]
                 IN kiosks' = [kiosks EXCEPT ![r.kiosk] =
                                 IF IsNewer(row, r.at)
                                 THEN [row EXCEPT !.lastSync = r.at,
                                                  !.queue = nextAttendanceQueue(row, r)]
                                 ELSE row]
              /\ heard' = [heard EXCEPT ![r.kiosk] = IF @ < r.at THEN r.at ELSE @]
           \/ UNCHANGED <<kiosks, heard>>
        /\ requests' = requests \ {r}
        /\ UNCHANGED <<now, issued, name, holder>>

Next ==
    \/ create \/ rotateCredential \/ revokeCredential \/ Tick
    \/ Arrive \/ authenticateKiosk \/ updateLastSync

Spec == Init /\ [][Next]_vars

-----------------------------------------------------------------------------
(* Properties.                                                             *)

\* "New credentials permanently close this migration path for their kiosk": who
\* is admitted has the key last given for the kiosk, however it was rotated and
\* revoked meanwhile.  It is taken for another kiosk only if people gave it that
\* kiosk's name, and its credential or no registration of its own.
\* (authenticateKiosk, rotateCredential, revokeCredential)
AdmittedIsOwner ==
    [][\A r \in At("arrived"), k \in Kiosks :
          Admitted(r, k) \in requests' \ requests =>
              /\ r.key = holder[k]
              /\ k # r.device => /\ kiosks[k].name = name[r.device]
                                 /\ r.key = Shared => r.device \notin Active]_vars

Status(k) ==
    LET queue == kiosks[k].queue
    IN IF queue = NoQueue \/ queue.latest = "unknown" THEN "unknown"
       ELSE IF queue.lastValidCount > 0 THEN "pending" ELSE "clear"
Caveat(k) == kiosks[k].queue.lastValidCount > 0

\* "Malformed report must stay unknown instead of becoming a healthy zero": what
\* is said of a kiosk's queue is from its newest report, though reports overtake
\* each other or fail.
QueueIsNewest ==
    \A k \in Active : Status(k) # "unknown" => kiosks[k].queue.observedAt >= heard[k]

\* "A valid positive count stays a caveat until a newer valid zero arrives."
CaveatStands ==
    \A k \in Active : Caveat(k) /\ ~Caveat(k)' =>
        \E r \in At("admitted") :
            r.kiosk = k /\ r.count = 0 /\ r.at > kiosks[k].queue.observedAt

\* A kiosk with scans yet to upload is never said to have none, whichever reports
\* are overtaken, fail or have no valid count: both of the above.
\* (nextAttendanceQueue, updateLastSyncFromHttp)
QueueIsHonest == []QueueIsNewest /\ [][CaveatStands]_vars
=============================================================================

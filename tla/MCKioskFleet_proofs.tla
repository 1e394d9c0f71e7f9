------------------------ MODULE MCKioskFleet_proofs ------------------------
(***************************************************************************)
(* Whom a request speaks for, what is said of a kiosk's queue, which       *)
(* changes an old kiosk has and which release it is left with, for any     *)
(* number of kiosks, names, requests, credentials, updates and failures,   *)
(* and any clocks.                                                         *)
(***************************************************************************)
EXTENDS MCKioskFleet, SequenceTheorems, TLAPS

-----------------------------------------------------------------------------
(* Identity of kiosks.                                                     *)

Queue == [lastValidCount : Nat, observedAt : Nat, latest : {"none", "reported", "unknown"}]

KioskRow ==
    [name : Names, credentialHash : Nat, legacyDisabled : BOOLEAN,
     lastSync : Nat, queue : Queue]

Call == [step : {"arrived", "admitted"}, kiosk : Kiosks, device : Kiosks,
         key : 0..issued, count : {0, 1, Unknown}, at : 1..now]

IdentityTypeOK ==
    /\ DOMAIN kiosks \subseteq Kiosks
    /\ kiosks \in [DOMAIN kiosks -> KioskRow]
    /\ now \in 1..MaxNow
    /\ issued \in 0..MaxCredential
    /\ name \in [Kiosks -> Names]
    /\ calls \subseteq Call
    /\ holder \in [Kiosks -> Nat]
    /\ heard \in [Kiosks -> Nat]

\* A kiosk's row has the name of its device, and the key last given for it: a
\* credential of its own, the shared one, or none.
Keys ==
    \A k \in DOMAIN kiosks :
        /\ kiosks[k].name = name[k]
        /\ holder[k] \in 0..issued \cup {Identity!Nobody}
        /\ holder[k] = Identity!Shared => ~kiosks[k].legacyDisabled
        /\ holder[k] # Identity!Shared => kiosks[k].legacyDisabled
        /\ kiosks[k].credentialHash =
              IF holder[k] = Identity!Nobody THEN Identity!NoHash ELSE holder[k]

\* Only a kiosk that is registered has been given a key or been heard of, and a
\* request that is admitted is for one.
Registered ==
    /\ \A k \in Kiosks \ DOMAIN kiosks : heard[k] = 0
    /\ \A k \in Kiosks \ DOMAIN kiosks : holder[k] = Identity!Shared
    /\ \A r \in calls : r.step = "admitted" => r.kiosk \in DOMAIN kiosks

\* The queue was observed with a report that was taken, and a report that came
\* later and was dealt with without changing it made it unknown.
Observed ==
    \A k \in DOMAIN kiosks :
        LET row == kiosks[k]
        IN /\ heard[k] \in 0..now
           /\ row.lastSync \in 0..now \cup {Far}
           /\ row.lastSync \in {0, Far} => row.queue = Identity!NoQueue /\ heard[k] = 0
           /\ row.lastSync \in 1..now => heard[k] <= row.lastSync
           /\ row.queue.observedAt <= row.lastSync
           /\ row.queue.latest = "none" => row.queue = Identity!NoQueue
           /\ row.queue.latest = "reported" => row.queue.observedAt = row.lastSync

IdentityInv == IdentityTypeOK /\ Keys /\ Registered /\ Observed

LEMMA NoQueueType == Identity!NoQueue \in Queue
BY DEF Identity!NoQueue, Queue, Identity!Never

LEMMA RowType ==
    ASSUME NEW n \in Names
    PROVE  Identity!Row(n) \in KioskRow
BY DEF Identity!Row, KioskRow, Identity!NoQueue, Queue, Identity!Never, Identity!NoHash

\* A row of before, last heard of at any time.
OldRow(n, t) == [Identity!Row(n) EXCEPT !.lastSync = t]

LEMMA OldRowType ==
    ASSUME NEW n \in Names, NEW t \in Nat
    PROVE  /\ OldRow(n, t) \in KioskRow
           /\ OldRow(n, t).name = n
           /\ OldRow(n, t).lastSync = t
           /\ OldRow(n, t).queue = Identity!NoQueue
           /\ OldRow(n, t).credentialHash = 0
           /\ ~OldRow(n, t).legacyDisabled
BY NoQueueType DEF OldRow, Identity!Row, Identity!NoHash, KioskRow

\* A row whose credential is another, and that the shared key no longer opens.
Closed(row, hash) == [row EXCEPT !.credentialHash = hash, !.legacyDisabled = TRUE]

LEMMA ClosedRow ==
    ASSUME NEW row \in KioskRow, NEW hash \in Nat
    PROVE  /\ Closed(row, hash) \in KioskRow
           /\ Closed(row, hash).name = row.name
           /\ Closed(row, hash).lastSync = row.lastSync
           /\ Closed(row, hash).queue = row.queue
           /\ Closed(row, hash).credentialHash = hash
           /\ Closed(row, hash).legacyDisabled
<1>1. Closed(row, hash) \in KioskRow
  BY DEF KioskRow, Closed
<1>2. Closed(row, hash).legacyDisabled
  BY DEF KioskRow, Closed
<1> QED
  BY <1>1, <1>2 DEF KioskRow, Closed

LEMMA IdentityInitInv ==
    ASSUME Identity!Init
    PROVE  IdentityInv
<1>1. PICK old \in SUBSET Kiosks, n \in [Kiosks -> Names], t \in {Identity!Never, Far} :
        /\ kiosks = [k \in old |-> OldRow(n[k], t)]
        /\ name = n
  BY DEF Identity!Init, OldRow
<1>2. t \in Nat /\ Far \in Nat
  BY IdentityAssumption DEF Identity!KioskIdentityAssumption, Identity!Never
<1>3. /\ DOMAIN kiosks = old
      /\ \A k \in old : kiosks[k] = OldRow(name[k], t) /\ name[k] \in Names
  BY <1>1
<1>4. \A k \in old :
        /\ kiosks[k] \in KioskRow
        /\ kiosks[k].name = name[k]
        /\ kiosks[k].lastSync = t
        /\ kiosks[k].queue = Identity!NoQueue
        /\ kiosks[k].credentialHash = 0
        /\ ~kiosks[k].legacyDisabled
  BY <1>2, <1>3, OldRowType
<1>5. IdentityTypeOK
  BY <1>1, <1>3, <1>4, IdentityAssumption
     DEF Identity!Init, IdentityTypeOK, Identity!Shared, Identity!Never,
         Identity!KioskIdentityAssumption
<1>6. \A k \in Kiosks : holder[k] = 0 /\ heard[k] = 0
  BY DEF Identity!Init, Identity!Shared, Identity!Never
<1>7. Keys
  <2>1. Identity!Nobody \in Nat /\ Identity!Nobody # 0
    BY IdentityAssumption DEF Identity!Nobody, Identity!KioskIdentityAssumption
  <2>2. issued = 0
    BY DEF Identity!Init
  <2> QED
    BY <2>1, <2>2, <1>3, <1>4, <1>6 DEF Keys, Identity!Shared, Identity!NoHash
<1>8. Registered
  BY <1>3, <1>6 DEF Identity!Init, Registered, Identity!Shared
<1>9. Observed
  <2>1. now = 1
    BY DEF Identity!Init
  <2>2. Identity!NoQueue.observedAt = 0 /\ Identity!NoQueue.latest = "none"
    BY DEF Identity!NoQueue, Identity!Never
  <2> QED
    BY <2>1, <2>2, <1>2, <1>3, <1>4, <1>6 DEF Observed, Identity!Never
<1> QED
  BY <1>5, <1>7, <1>8, <1>9 DEF IdentityInv

LEMMA CreateInv ==
    ASSUME IdentityInv, Identity!create
    PROVE  IdentityInv'
<1>1. PICK k \in Kiosks \ DOMAIN kiosks :
        /\ kiosks' = [j \in DOMAIN kiosks \cup {k} |->
                        IF j = k THEN Identity!Row(name[k]) ELSE kiosks[j]]
        /\ UNCHANGED <<now, issued, name, calls, holder, heard>>
  BY DEF Identity!create, Identity!Active
<1>2. /\ DOMAIN kiosks' = DOMAIN kiosks \cup {k}
      /\ kiosks'[k] = Identity!Row(name[k])
      /\ \A j \in DOMAIN kiosks : kiosks'[j] = kiosks[j]
  BY <1>1
<1>3. Identity!Row(name[k]) \in KioskRow
  BY RowType DEF IdentityInv, IdentityTypeOK
<1>4. IdentityTypeOK'
  BY <1>1, <1>2, <1>3 DEF IdentityInv, IdentityTypeOK, Call
<1>5. Keys'
  BY <1>1, <1>2
     DEF IdentityInv, IdentityTypeOK, Keys, Registered, Identity!Row, Identity!Shared,
         Identity!NoHash, Identity!Nobody
<1>6. Registered'
  BY <1>1, <1>2 DEF IdentityInv, IdentityTypeOK, Registered
<1>7. Observed'
  <2>1. heard[k] = 0
    BY <1>1 DEF IdentityInv, Registered
  <2> QED
    BY <2>1, <1>1, <1>2
       DEF IdentityInv, IdentityTypeOK, Observed, Identity!Row, Identity!Never, Identity!NoQueue
<1> QED
  BY <1>4, <1>5, <1>6, <1>7 DEF IdentityInv

LEMMA RotateInv ==
    ASSUME IdentityInv, Identity!rotateCredential
    PROVE  IdentityInv'
<1>1. PICK k \in DOMAIN kiosks :
        /\ issued < MaxCredential
        /\ issued' = issued + 1
        /\ kiosks' = [kiosks EXCEPT ![k].credentialHash = issued + 1,
                                    ![k].legacyDisabled = TRUE]
        /\ holder' = [holder EXCEPT ![k] = issued + 1]
        /\ UNCHANGED <<now, name, calls, heard>>
  BY DEF Identity!rotateCredential, Identity!Active
<1>2. /\ k \in Kiosks /\ kiosks[k] \in KioskRow
      /\ issued \in Nat /\ MaxCredential \in Nat
  BY IdentityAssumption DEF IdentityInv, IdentityTypeOK, Identity!KioskIdentityAssumption
<1>3. /\ DOMAIN kiosks' = DOMAIN kiosks
      /\ kiosks'[k] = Closed(kiosks[k], issued + 1)
      /\ \A j \in DOMAIN kiosks : j # k => kiosks'[j] = kiosks[j]
  BY <1>1 DEF IdentityInv, IdentityTypeOK, Closed
<1>4. /\ kiosks'[k] \in KioskRow
      /\ kiosks'[k].name = kiosks[k].name
      /\ kiosks'[k].lastSync = kiosks[k].lastSync
      /\ kiosks'[k].queue = kiosks[k].queue
      /\ kiosks'[k].credentialHash = issued + 1
      /\ kiosks'[k].legacyDisabled
  BY <1>2, <1>3, ClosedRow
<1>5. holder'[k] = issued + 1 /\ \A j \in Kiosks : j # k => holder'[j] = holder[j]
  BY <1>1, <1>2 DEF IdentityInv, IdentityTypeOK
<1>6. IdentityTypeOK'
  <2>1. calls' \subseteq Call'
    BY <1>1, <1>2 DEF IdentityInv, IdentityTypeOK, Call
  <2> QED
    BY <2>1, <1>1, <1>2, <1>3, <1>4 DEF IdentityInv, IdentityTypeOK
<1>7. Keys'
  BY <1>1, <1>2, <1>3, <1>4, <1>5
     DEF IdentityInv, IdentityTypeOK, Keys, Identity!Shared, Identity!NoHash, Identity!Nobody
<1>8. Registered'
  BY <1>1, <1>2, <1>3, <1>5 DEF IdentityInv, Registered
<1>9. Observed'
  BY <1>1, <1>3, <1>4 DEF IdentityInv, IdentityTypeOK, Observed, Identity!NoQueue
<1> QED
  BY <1>6, <1>7, <1>8, <1>9 DEF IdentityInv

LEMMA RevokeInv ==
    ASSUME IdentityInv, Identity!revokeCredential
    PROVE  IdentityInv'
<1>1. PICK k \in DOMAIN kiosks :
        /\ kiosks' = [kiosks EXCEPT ![k] = Identity!Revoked(@)]
        /\ holder' = [holder EXCEPT ![k] = Identity!Nobody]
        /\ UNCHANGED <<now, issued, name, calls, heard>>
  BY DEF Identity!revokeCredential, Identity!Active
<1>2. /\ k \in Kiosks /\ kiosks[k] \in KioskRow
      /\ issued \in 0..MaxCredential /\ MaxCredential \in Nat
  BY IdentityAssumption DEF IdentityInv, IdentityTypeOK, Identity!KioskIdentityAssumption
<1>3. /\ DOMAIN kiosks' = DOMAIN kiosks
      /\ kiosks'[k] = Identity!Revoked(kiosks[k])
      /\ \A j \in DOMAIN kiosks : j # k => kiosks'[j] = kiosks[j]
  BY <1>1 DEF IdentityInv, IdentityTypeOK, Closed
<1>4. /\ kiosks'[k] \in KioskRow
      /\ kiosks'[k].name = kiosks[k].name
      /\ kiosks'[k].lastSync = kiosks[k].lastSync
      /\ kiosks'[k].queue = kiosks[k].queue
      /\ kiosks'[k].credentialHash = 0
      /\ kiosks'[k].legacyDisabled
  <2>1. kiosks'[k] = Closed(kiosks[k], 0)
    BY <1>3 DEF Identity!Revoked, Identity!NoHash, Closed
  <2> QED
    BY <2>1, <1>2, ClosedRow
<1>5. /\ holder'[k] = Identity!Nobody
      /\ \A j \in Kiosks : j # k => holder'[j] = holder[j]
  BY <1>1, <1>2 DEF IdentityInv, IdentityTypeOK
<1>6. Identity!Nobody \in Nat /\ Identity!Nobody # 0
  BY <1>2 DEF Identity!Nobody
<1>7. IdentityTypeOK'
  <2>1. calls' \subseteq Call'
    BY <1>1, <1>2 DEF IdentityInv, IdentityTypeOK, Call
  <2> QED
    BY <2>1, <1>1, <1>2, <1>3, <1>4, <1>6 DEF IdentityInv, IdentityTypeOK
<1>8. Keys'
  BY <1>1, <1>2, <1>3, <1>4, <1>5, <1>6
     DEF IdentityInv, IdentityTypeOK, Keys, Identity!Shared, Identity!NoHash
<1>9. Registered'
  BY <1>1, <1>2, <1>3, <1>5 DEF IdentityInv, Registered
<1>10. Observed'
  BY <1>1, <1>3, <1>4 DEF IdentityInv, IdentityTypeOK, Observed, Identity!NoQueue
<1> QED
  BY <1>7, <1>8, <1>9, <1>10 DEF IdentityInv

LEMMA TickInv ==
    ASSUME IdentityInv, Identity!Tick
    PROVE  IdentityInv'
<1>1. /\ now < MaxNow /\ now' = now + 1
      /\ UNCHANGED <<kiosks, issued, name, calls, holder, heard>>
  BY DEF Identity!Tick
<1>2. /\ {Far, MaxNow} \subseteq Nat /\ Far > MaxNow
      /\ now \in 1..MaxNow
  BY IdentityAssumption DEF IdentityInv, IdentityTypeOK, Identity!KioskIdentityAssumption
<1>3. IdentityTypeOK'
  <2>1. calls' \subseteq Call'
    BY <1>1, <1>2 DEF IdentityInv, IdentityTypeOK, Call
  <2> QED
    BY <2>1, <1>1, <1>2 DEF IdentityInv, IdentityTypeOK
<1>4. Keys' /\ Registered'
  BY <1>1 DEF IdentityInv, Keys, Registered, Identity!Nobody
<1>5. Observed'
  <2> SUFFICES ASSUME NEW k \in DOMAIN kiosks
               PROVE  /\ heard[k] \in 0..now'
                      /\ kiosks[k].lastSync \in 0..now' \cup {Far}
                      /\ kiosks[k].lastSync \in 1..now' => heard[k] <= kiosks[k].lastSync
    BY <1>1 DEF IdentityInv, Observed
  <2>1. /\ kiosks[k].lastSync \in 0..now \cup {Far}
        /\ heard[k] \in 0..now
        /\ kiosks[k].lastSync \in 1..now => heard[k] <= kiosks[k].lastSync
    BY DEF IdentityInv, Observed
  <2> QED
    BY <2>1, <1>1, <1>2
<1> QED
  BY <1>3, <1>4, <1>5 DEF IdentityInv

LEMMA ArriveInv ==
    ASSUME IdentityInv, Identity!Arrive
    PROVE  IdentityInv'
<1>1. PICK d \in Kiosks, key \in 0..issued, count \in {0, 1, Unknown} :
        calls' = calls \cup {[step |-> "arrived", kiosk |-> d, device |-> d,
                              key |-> key, count |-> count, at |-> now]}
  BY DEF Identity!Arrive, Identity!Shared, Identity!Counts
<1>2. UNCHANGED <<kiosks, now, issued, name, holder, heard>>
  BY DEF Identity!Arrive, Identity!portalVars
<1>3. IdentityTypeOK'
  <2>1. now \in 1..now /\ IdentityTypeOK
    BY IdentityAssumption DEF IdentityInv, IdentityTypeOK, Identity!KioskIdentityAssumption
  <2>2. calls' \subseteq Call
    BY <1>1, <2>1 DEF IdentityTypeOK, Call
  <2> QED
    BY <2>1, <2>2, <1>2 DEF IdentityTypeOK, Call
<1>4. Keys' /\ Registered' /\ Observed'
  BY <1>1, <1>2 DEF IdentityInv, Keys, Registered, Observed, Identity!Nobody
<1> QED
  BY <1>3, <1>4 DEF IdentityInv

\* The kiosks a request may be taken for are registered.
LEMMA IdentityIsActive ==
    ASSUME NEW r
    PROVE  Identity!Identity(r) \subseteq DOMAIN kiosks
BY DEF Identity!Identity, Identity!authenticateDevice, Identity!authenticateLegacy,
       Identity!findActiveKioskByIdentifier, Identity!Active

LEMMA AuthenticateInv ==
    ASSUME IdentityInv, Identity!authenticateKiosk
    PROVE  IdentityInv'
<1>1. PICK r \in Identity!At("arrived") :
        calls' = (calls \ {r}) \cup {Identity!Admitted(r, k) : k \in Identity!Identity(r)}
  BY DEF Identity!authenticateKiosk
<1>2. UNCHANGED <<kiosks, now, issued, name, holder, heard>>
  BY DEF Identity!authenticateKiosk, Identity!portalVars
<1>3. r \in calls /\ r \in Call
  BY <1>1 DEF Identity!At, IdentityInv, IdentityTypeOK
<1>4. \A k \in Identity!Identity(r) :
        /\ k \in DOMAIN kiosks
        /\ Identity!Admitted(r, k) \in Call
        /\ Identity!Admitted(r, k).kiosk = k
  BY <1>3, IdentityIsActive DEF Identity!Admitted, Call, IdentityInv, IdentityTypeOK
<1>5. IdentityTypeOK'
  BY <1>1, <1>2, <1>4 DEF IdentityInv, IdentityTypeOK, Call
<1>6. Registered'
  BY <1>1, <1>2, <1>4 DEF IdentityInv, Registered
<1>7. Keys' /\ Observed'
  BY <1>2 DEF IdentityInv, Keys, Observed, Identity!Nobody
<1> QED
  BY <1>5, <1>6, <1>7 DEF IdentityInv

\* What is known of the queue once a report is dealt with.
LEMMA NextQueue ==
    ASSUME NEW row \in KioskRow, NEW r \in Call
    PROVE  LET queue == Identity!nextAttendanceQueue(row, r)
           IN /\ queue \in Queue
              /\ r.count # Unknown => /\ queue.latest = "reported"
                                      /\ queue.observedAt = r.at
                                      /\ queue.lastValidCount = r.count
              /\ r.count = Unknown => \/ queue = Identity!NoQueue
                                      \/ /\ queue.latest = "unknown"
                                         /\ queue.observedAt = row.queue.observedAt
                                         /\ queue.lastValidCount = row.queue.lastValidCount
              /\ r.count = Unknown /\ queue = Identity!NoQueue => row.queue = queue
<1> DEFINE queue == Identity!nextAttendanceQueue(row, r)
<1>1. row.queue \in Queue /\ r.at \in Nat
  BY DEF KioskRow, Call
<1>2. CASE r.count # Unknown
  <2>1. r.count \in Nat
    BY <1>2 DEF Call
  <2>2. queue = [lastValidCount |-> r.count, observedAt |-> r.at, latest |-> "reported"]
    BY <1>2 DEF Identity!nextAttendanceQueue
  <2> QED
    BY <1>1, <1>2, <2>1, <2>2 DEF Queue
<1>3. CASE r.count = Unknown /\ row.queue = Identity!NoQueue
  <2>1. queue = Identity!NoQueue
    BY <1>3 DEF Identity!nextAttendanceQueue
  <2> QED
    BY <1>3, <2>1, NoQueueType
<1>4. CASE r.count = Unknown /\ row.queue # Identity!NoQueue
  <2>1. queue = [row.queue EXCEPT !.latest = "unknown"]
    BY <1>4 DEF Identity!nextAttendanceQueue
  <2>2. queue \in Queue /\ queue.latest = "unknown"
    BY <1>1, <2>1 DEF Queue
  <2>3. /\ queue.observedAt = row.queue.observedAt
        /\ queue.lastValidCount = row.queue.lastValidCount
    BY <1>1, <2>1 DEF Queue
  <2>4. queue # Identity!NoQueue
    BY <2>2 DEF Identity!NoQueue
  <2> QED
    BY <1>4, <2>2, <2>3, <2>4
<1> QED
  BY <1>2, <1>3, <1>4

\* A row once a report is taken.
Reported(row, r) ==
    [row EXCEPT !.lastSync = r.at, !.queue = Identity!nextAttendanceQueue(row, r)]

LEMMA ReportedRow ==
    ASSUME NEW row \in KioskRow, NEW r \in Call
    PROVE  /\ Reported(row, r) \in KioskRow
           /\ Reported(row, r).name = row.name
           /\ Reported(row, r).credentialHash = row.credentialHash
           /\ Reported(row, r).legacyDisabled <=> row.legacyDisabled
           /\ Reported(row, r).lastSync = r.at
           /\ Reported(row, r).queue = Identity!nextAttendanceQueue(row, r)
<1>1. Identity!nextAttendanceQueue(row, r) \in Queue /\ r.at \in Nat
  BY NextQueue DEF Call
<1> QED
  BY <1>1 DEF KioskRow, Reported

\* What dealing with a report does, whether it is taken, overtaken or fails.
LEMMA Reporting ==
    ASSUME IdentityInv, Identity!updateLastSync
    PROVE  \E r \in calls :
             /\ r \in Call /\ r.step = "admitted" /\ r.kiosk \in DOMAIN kiosks
             /\ \/ /\ Identity!IsNewer(kiosks[r.kiosk], r.at)
                   /\ kiosks' = [kiosks EXCEPT ![r.kiosk] = Reported(@, r)]
                \/ ~Identity!IsNewer(kiosks[r.kiosk], r.at) /\ kiosks' = kiosks
                \/ kiosks' = kiosks /\ heard' = heard
             /\ \/ heard' = [heard EXCEPT ![r.kiosk] = IF @ < r.at THEN r.at ELSE @]
                \/ heard' = heard
             /\ calls' = calls \ {r}
<1>1. PICK r \in Identity!At("admitted") :
        /\ \/ /\ LET row == kiosks[r.kiosk]
                 IN kiosks' = [kiosks EXCEPT ![r.kiosk] =
                                 IF Identity!IsNewer(row, r.at)
                                 THEN [row EXCEPT !.lastSync = r.at,
                                         !.queue = Identity!nextAttendanceQueue(row, r)]
                                 ELSE row]
              /\ heard' = [heard EXCEPT ![r.kiosk] = IF @ < r.at THEN r.at ELSE @]
           \/ UNCHANGED <<kiosks, heard>>
        /\ calls' = calls \ {r}
  BY DEF Identity!updateLastSync
<1>2. r \in calls /\ r \in Call /\ r.step = "admitted" /\ r.kiosk \in DOMAIN kiosks
  BY <1>1 DEF Identity!At, IdentityInv, IdentityTypeOK, Registered
<1>3. CASE UNCHANGED <<kiosks, heard>>
  BY <1>1, <1>2, <1>3
<1>4. CASE /\ Identity!IsNewer(kiosks[r.kiosk], r.at)
           /\ ~UNCHANGED <<kiosks, heard>>
  BY <1>1, <1>2, <1>4 DEF Reported
<1>5. CASE /\ ~Identity!IsNewer(kiosks[r.kiosk], r.at)
           /\ ~UNCHANGED <<kiosks, heard>>
  <2>1. kiosks' = kiosks
    BY <1>1, <1>2, <1>5 DEF IdentityInv, IdentityTypeOK
  <2> QED
    BY <2>1, <1>1, <1>2, <1>5
<1> QED
  BY <1>3, <1>4, <1>5

LEMMA UpdateInv ==
    ASSUME IdentityInv, Identity!updateLastSync
    PROVE  IdentityInv'
<1>1. PICK r \in calls :
        /\ r \in Call /\ r.step = "admitted" /\ r.kiosk \in DOMAIN kiosks
        /\ \/ /\ Identity!IsNewer(kiosks[r.kiosk], r.at)
              /\ kiosks' = [kiosks EXCEPT ![r.kiosk] = Reported(@, r)]
           \/ ~Identity!IsNewer(kiosks[r.kiosk], r.at) /\ kiosks' = kiosks
           \/ kiosks' = kiosks /\ heard' = heard
        /\ \/ heard' = [heard EXCEPT ![r.kiosk] = IF @ < r.at THEN r.at ELSE @]
           \/ heard' = heard
        /\ calls' = calls \ {r}
  BY Reporting
<1> DEFINE k == r.kiosk
           row == kiosks[k]
           new == Reported(row, r)
<1>2. UNCHANGED <<now, issued, name, holder>>
  BY DEF Identity!updateLastSync
<1>3. k \in Kiosks /\ row \in KioskRow /\ r.at \in 1..now /\ now \in 1..MaxNow
  BY <1>1 DEF IdentityInv, IdentityTypeOK, Call
<1>4. MaxNow \in Nat /\ Far \in Nat /\ Far > MaxNow
  BY IdentityAssumption DEF Identity!KioskIdentityAssumption
<1>5. /\ new \in KioskRow
      /\ new.name = row.name
      /\ new.credentialHash = row.credentialHash
      /\ new.legacyDisabled <=> row.legacyDisabled
      /\ new.lastSync = r.at
      /\ new.queue = Identity!nextAttendanceQueue(row, r)
  BY <1>1, <1>3, ReportedRow
<1>6. /\ DOMAIN kiosks' = DOMAIN kiosks
      /\ \A j \in DOMAIN kiosks : j # k => kiosks'[j] = kiosks[j]
      /\ \/ Identity!IsNewer(row, r.at) /\ kiosks'[k] = new
         \/ ~Identity!IsNewer(row, r.at) /\ kiosks'[k] = row
         \/ kiosks'[k] = row /\ heard' = heard
  BY <1>1 DEF IdentityInv, IdentityTypeOK
<1>7. /\ heard' \in [Kiosks -> Nat]
      /\ \A j \in Kiosks : j # k => heard'[j] = heard[j]
      /\ heard'[k] \in {heard[k], IF heard[k] < r.at THEN r.at ELSE heard[k]}
  BY <1>1, <1>3 DEF IdentityInv, IdentityTypeOK
<1> HIDE DEF new
<1>8. IdentityTypeOK'
  <2>1. kiosks' \in [DOMAIN kiosks' -> KioskRow]
    BY <1>1, <1>5 DEF IdentityInv, IdentityTypeOK, new
  <2>2. calls' \subseteq Call'
    BY <1>1, <1>2 DEF IdentityInv, IdentityTypeOK, Call
  <2> QED
    BY <2>1, <2>2, <1>2, <1>6, <1>7 DEF IdentityInv, IdentityTypeOK
<1>9. Keys'
  BY <1>2, <1>5, <1>6 DEF IdentityInv, Keys, Identity!Nobody
<1>10. Registered'
  BY <1>1, <1>2, <1>6, <1>7 DEF IdentityInv, Registered
<1>11. Observed'
  <2>1. /\ heard[k] \in 0..now
        /\ row.lastSync \in 0..now \cup {Far}
        /\ row.lastSync \in {0, Far} => row.queue = Identity!NoQueue /\ heard[k] = 0
        /\ row.lastSync \in 1..now => heard[k] <= row.lastSync
        /\ row.queue.observedAt <= row.lastSync
        /\ row.queue.latest = "none" => row.queue = Identity!NoQueue
        /\ row.queue.latest = "reported" => row.queue.observedAt = row.lastSync
    BY <1>1 DEF IdentityInv, Observed
  <2>2. heard'[k] \in 0..now
    BY <2>1, <1>3, <1>7
  <2>3. CASE Identity!IsNewer(row, r.at) /\ kiosks'[k] = new
    <3>1. heard[k] <= r.at
      BY <2>1, <2>3, <1>3, <1>4 DEF Identity!IsNewer
    <3>2. heard'[k] <= r.at
      BY <3>1, <1>3, <1>7 DEF IdentityInv, IdentityTypeOK
    <3>3. row.queue.observedAt \in Nat /\ row.queue.observedAt <= r.at
      <4>1. row.queue \in Queue /\ Identity!NoQueue.observedAt = 0
        BY <1>3 DEF KioskRow, Identity!NoQueue, Identity!Never
      <4> QED
        BY <4>1, <2>1, <2>3, <1>3, <1>4 DEF Identity!IsNewer, Queue
    <3>4. /\ new.queue.observedAt <= r.at
          /\ new.queue.latest = "none" => new.queue = Identity!NoQueue
          /\ new.queue.latest = "reported" => new.queue.observedAt = r.at
      <4>1. Identity!NoQueue.observedAt = 0 /\ Identity!NoQueue.latest = "none"
        BY DEF Identity!NoQueue, Identity!Never
      <4> QED
        BY <4>1, <3>3, <1>1, <1>3, <1>5, NextQueue
    <3>5. r.at \in 1..now /\ r.at # 0 /\ r.at # Far
      BY <1>3, <1>4
    <3> QED
      BY <2>2, <2>3, <3>2, <3>4, <3>5, <1>2, <1>5, <1>6, <1>7
         DEF IdentityInv, IdentityTypeOK, Observed, Identity!NoQueue, Identity!Never
  <2>4. CASE ~Identity!IsNewer(row, r.at) /\ kiosks'[k] = row
    <3>1. row.lastSync \in 1..now /\ r.at <= row.lastSync
      BY <2>1, <2>4, <1>3, <1>4 DEF Identity!IsNewer
    <3>2. heard'[k] <= row.lastSync
      BY <3>1, <2>1, <1>3, <1>7
    <3> QED
      BY <2>1, <2>2, <2>4, <3>1, <3>2, <1>2, <1>3, <1>4, <1>6, <1>7
         DEF IdentityInv, IdentityTypeOK, Observed, Identity!NoQueue, Identity!Never
  <2>5. CASE kiosks'[k] = row /\ heard' = heard
    BY <2>5, <1>2, <1>6 DEF IdentityInv, Observed, Identity!NoQueue, Identity!Never
  <2> QED
    BY <2>3, <2>4, <2>5, <1>6
<1> QED
  BY <1>8, <1>9, <1>10, <1>11 DEF IdentityInv

LEMMA IdentityNextInv ==
    ASSUME IdentityInv, Identity!Next
    PROVE  IdentityInv'
BY CreateInv, RotateInv, RevokeInv, TickInv, ArriveInv, AuthenticateInv, UpdateInv
   DEF Identity!Next

LEMMA IdentityStutterInv ==
    ASSUME IdentityInv, UNCHANGED identityVars
    PROVE  IdentityInv'
BY DEF identityVars, IdentityInv, IdentityTypeOK, Call, Keys, Registered, Observed,
       Identity!Nobody, Identity!NoQueue

-----------------------------------------------------------------------------
(* Who is admitted, and what is said of queues.                            *)

\* A step in which a request is admitted as a kiosk's: the key is the one last
\* given for it, and of kiosks that share a name none is meant.
LEMMA AdmissionStep ==
    ASSUME IdentityInv, Identity!Next,
           NEW r \in Identity!At("arrived"), NEW k \in Kiosks,
           Identity!Admitted(r, k) \in calls' \ calls
    PROVE  /\ r.key = holder[k]
           /\ k # r.device => /\ kiosks[k].name = name[r.device]
                              /\ r.key = Identity!Shared => r.device \notin Identity!Active
<1>1. r \in calls /\ r \in Call /\ r.step = "arrived"
  BY DEF Identity!At, IdentityInv, IdentityTypeOK
<1> DEFINE new == Identity!Admitted(r, k)
<1>2. /\ new.step = "admitted" /\ new.kiosk = k
      /\ new.device = r.device /\ new.key = r.key
  BY <1>1 DEF Identity!Admitted, Call
<1> HIDE DEF new
<1>3. Identity!authenticateKiosk
  <2>1. CASE Identity!Arrive
    <3>1. PICK a : a.step = "arrived" /\ calls' = calls \cup {a}
      BY <2>1 DEF Identity!Arrive
    <3> QED
      BY <3>1, <1>2 DEF new
  <2>2. CASE calls' \subseteq calls
    BY <2>2
  <2> QED
    BY <2>1, <2>2
       DEF Identity!Next, Identity!create, Identity!rotateCredential,
           Identity!revokeCredential, Identity!Tick, Identity!updateLastSync
<1>4. PICK s \in calls :
        calls' = (calls \ {s}) \cup {Identity!Admitted(s, j) : j \in Identity!Identity(s)}
  BY <1>3 DEF Identity!authenticateKiosk, Identity!At
<1>5. PICK j \in Identity!Identity(s) : new = Identity!Admitted(s, j)
  BY <1>4 DEF new
<1>6. j = k /\ s.device = r.device /\ s.key = r.key
  <2>1. s \in Call
    BY DEF IdentityInv, IdentityTypeOK
  <2>2. /\ Identity!Admitted(s, j).kiosk = j
        /\ Identity!Admitted(s, j).device = s.device
        /\ Identity!Admitted(s, j).key = s.key
    BY <2>1 DEF Identity!Admitted, Call
  <2> QED
    BY <2>2, <1>2, <1>5
<1>7. /\ k \in DOMAIN kiosks /\ r.key \in 0..issued
      /\ kiosks[k].name = name[r.device]
      /\ holder[k] \in 0..issued \cup {Identity!Nobody}
  BY <1>1, <1>5, <1>6, IdentityIsActive DEF Identity!Identity, Call, IdentityInv, Keys
<1>8. CASE r.key # Identity!Shared
  <2>1. kiosks[k].credentialHash = r.key
    BY <1>5, <1>6, <1>8
       DEF Identity!Identity, Identity!HasDeviceKey, Identity!authenticateDevice
  <2> QED
    BY <2>1, <1>7, <1>8 DEF IdentityInv, Keys, Identity!NoHash, Identity!Shared
<1>9. CASE r.key = Identity!Shared
  <2> DEFINE same == {i \in DOMAIN kiosks : kiosks[i].name = name[r.device]}
  <2>1. k \in same /\ same = {k} /\ ~kiosks[k].legacyDisabled
    <3>1. k \in Identity!authenticateLegacy(name[r.device])
      BY <1>5, <1>6, <1>9 DEF Identity!Identity, Identity!HasDeviceKey
    <3> QED
      BY <3>1
         DEF Identity!authenticateLegacy, Identity!findActiveKioskByIdentifier,
             Identity!Active
  <2>2. holder[k] = Identity!Shared
    BY <2>1, <1>7 DEF IdentityInv, Keys
  <2>3. ASSUME k # r.device, r.device \in DOMAIN kiosks
        PROVE  FALSE
    <3>1. r.device \in same
      BY <2>3 DEF IdentityInv, Keys
    <3> QED
      BY <3>1, <2>1, <2>3
  <2> QED
    BY <2>2, <2>3, <1>7, <1>9 DEF Identity!Active
<1> QED
  BY <1>8, <1>9, <1>7 DEF Identity!Shared

LEMMA AdmittedStep ==
    ASSUME IdentityInv, Identity!Next
    PROVE  \A r \in Identity!At("arrived"), k \in Kiosks :
              Identity!Admitted(r, k) \in calls' \ calls =>
                  /\ r.key = holder[k]
                  /\ k # r.device => /\ kiosks[k].name = name[r.device]
                                     /\ r.key = Identity!Shared =>
                                           r.device \notin Identity!Active
BY AdmissionStep

\* What is said of a queue is from the newest report.
LEMMA NewestIsShown ==
    ASSUME IdentityInv
    PROVE  Identity!QueueIsNewest
<1> SUFFICES ASSUME NEW k \in DOMAIN kiosks, Identity!Status(k) # "unknown"
             PROVE  kiosks[k].queue.observedAt >= heard[k]
  BY DEF Identity!QueueIsNewest, Identity!Active
<1>1. /\ kiosks[k].queue # Identity!NoQueue
      /\ kiosks[k].queue.latest # "unknown"
  BY DEF Identity!Status
<1>2. kiosks[k].queue \in Queue /\ kiosks[k].lastSync \in Nat /\ heard[k] \in Nat
  BY DEF IdentityInv, IdentityTypeOK, KioskRow
<1>3. kiosks[k].queue.latest = "reported"
  BY <1>1, <1>2 DEF IdentityInv, Observed, Queue
<1>4. kiosks[k].queue.observedAt = kiosks[k].lastSync /\ heard[k] <= kiosks[k].lastSync
  BY <1>1, <1>3 DEF IdentityInv, Observed
<1> QED
  BY <1>2, <1>4 DEF Queue

\* A caveat goes only with a later count of none.
LEMMA CaveatStep ==
    ASSUME IdentityInv, Identity!Next
    PROVE  Identity!CaveatStands
<1> SUFFICES ASSUME NEW k \in DOMAIN kiosks,
                    kiosks[k].queue.lastValidCount > 0,
                    ~(kiosks'[k].queue.lastValidCount > 0)
             PROVE  \E r \in Identity!At("admitted") :
                      r.kiosk = k /\ r.count = 0 /\ r.at > kiosks[k].queue.observedAt
  BY DEF Identity!CaveatStands, Identity!Caveat, Identity!Active
<1>1. kiosks[k] \in KioskRow /\ kiosks[k].queue \in Queue
  BY DEF IdentityInv, IdentityTypeOK, KioskRow
<1>2. kiosks'[k].queue # kiosks[k].queue
  OBVIOUS
<1>3. Identity!updateLastSync
  <2>1. ASSUME Identity!create PROVE FALSE
    BY <2>1, <1>2 DEF Identity!create, Identity!Active
  <2>2. ASSUME Identity!rotateCredential PROVE FALSE
    <3>1. PICK j \in DOMAIN kiosks :
            kiosks' = [kiosks EXCEPT ![j] = Closed(@, issued + 1)]
      BY <2>2 DEF Identity!rotateCredential, Identity!Active, Closed
    <3>2. issued + 1 \in Nat
      BY IdentityAssumption DEF IdentityInv, IdentityTypeOK, Identity!KioskIdentityAssumption
    <3>3. kiosks'[k] = kiosks[k] \/ kiosks'[k] = Closed(kiosks[k], issued + 1)
      BY <3>1 DEF IdentityInv, IdentityTypeOK
    <3> QED
      BY <3>2, <3>3, <1>1, <1>2, ClosedRow
  <2>3. ASSUME Identity!revokeCredential PROVE FALSE
    <3>1. PICK j \in DOMAIN kiosks : kiosks' = [kiosks EXCEPT ![j] = Closed(@, 0)]
      BY <2>3
         DEF Identity!revokeCredential, Identity!Active, Closed, Identity!Revoked,
             Identity!NoHash
    <3>2. kiosks'[k] = kiosks[k] \/ kiosks'[k] = Closed(kiosks[k], 0)
      BY <3>1 DEF IdentityInv, IdentityTypeOK
    <3> QED
      BY <3>2, <1>1, <1>2, ClosedRow
  <2>4. ASSUME UNCHANGED kiosks PROVE FALSE
    BY <2>4, <1>2
  <2> QED
    BY <2>1, <2>2, <2>3, <2>4
       DEF Identity!Next, Identity!Tick, Identity!Arrive, Identity!authenticateKiosk,
           Identity!portalVars
<1>4. PICK r \in calls :
        /\ r \in Call /\ r.step = "admitted" /\ r.kiosk \in DOMAIN kiosks
        /\ Identity!IsNewer(kiosks[r.kiosk], r.at)
        /\ kiosks' = [kiosks EXCEPT ![r.kiosk] = Reported(@, r)]
  BY <1>2, <1>3, Reporting
<1>5. r.kiosk = k /\ kiosks'[k] = Reported(kiosks[k], r)
  BY <1>2, <1>4 DEF IdentityInv, IdentityTypeOK
<1>6. kiosks'[k].queue = Identity!nextAttendanceQueue(kiosks[k], r)
  BY <1>1, <1>4, <1>5, ReportedRow
<1>7. r.count = 0
  <2>1. r.count # Unknown
    <3>1. Identity!NoQueue.lastValidCount = 0
      BY DEF Identity!NoQueue
    <3> QED
      BY <3>1, <1>1, <1>4, <1>6, NextQueue
  <2>2. kiosks'[k].queue.lastValidCount = r.count
    BY <2>1, <1>1, <1>4, <1>6, NextQueue
  <2> QED
    BY <2>1, <2>2, <1>4 DEF Call
<1>8. r.at > kiosks[k].queue.observedAt
  <2>1. kiosks[k].queue # Identity!NoQueue
    BY DEF Identity!NoQueue
  <2>2. /\ kiosks[k].lastSync \in 1..now
        /\ kiosks[k].queue.observedAt <= kiosks[k].lastSync
    BY <2>1 DEF IdentityInv, IdentityTypeOK, Observed
  <2>3. r.at > kiosks[k].lastSync
    BY <2>2, <1>4, <1>5 DEF Identity!IsNewer
  <2> QED
    BY <2>2, <2>3, <1>1, <1>4 DEF Queue, Call, IdentityInv, IdentityTypeOK
<1> QED
  BY <1>4, <1>5, <1>7, <1>8 DEF Identity!At

-----------------------------------------------------------------------------
(* Theorems.                                                               *)

LEMMA IdentityInvariance == MCSpec => []IdentityInv
<1>1. MCInit => IdentityInv
  BY IdentityInitInv DEF MCInit
<1>2. IdentityInv /\ [MCNext]_<<part, vars, identityVars, rosterVars>> => IdentityInv'
  BY IdentityNextInv, IdentityStutterInv DEF MCNext
<1> QED
  BY <1>1, <1>2, PTL DEF MCSpec

LEMMA IdentityMoves ==
    ASSUME [MCNext]_<<part, vars, identityVars, rosterVars>>
    PROVE  Identity!Next \/ UNCHANGED Identity!vars
<1>1. UNCHANGED identityVars => UNCHANGED Identity!vars
  BY DEF identityVars, Identity!vars, Identity!portalVars
<1> QED
  BY <1>1 DEF MCNext

\* A request is admitted as a kiosk's only with the key last given for that kiosk,
\* and as another kiosk's than its device's only if both were given one name.
\* (authenticateKiosk, rotateCredential, revokeCredential)
THEOREM AdmittedAreOwners == MCSpec => AdmittedIsOwner
<1>1. IdentityInv /\ [MCNext]_<<part, vars, identityVars, rosterVars>>
        => [\A r \in Identity!At("arrived"), k \in Kiosks :
              Identity!Admitted(r, k) \in calls' \ calls =>
                  /\ r.key = holder[k]
                  /\ k # r.device => /\ kiosks[k].name = name[r.device]
                                     /\ r.key = Identity!Shared =>
                                           r.device \notin Identity!Active]_Identity!vars
  BY AdmittedStep, IdentityMoves
<1> QED
  BY <1>1, IdentityInvariance, PTL DEF MCSpec, AdmittedIsOwner, Identity!AdmittedIsOwner

\* What is said of a kiosk's queue is from its newest report, and a positive count
\* stays a caveat until a newer report of none.
\* (nextAttendanceQueue, updateLastSyncFromHttp)
THEOREM QueuesAreHonest == MCSpec => QueueIsHonest
<1>1. IdentityInv => Identity!QueueIsNewest
  BY NewestIsShown
<1>2. IdentityInv /\ [MCNext]_<<part, vars, identityVars, rosterVars>>
        => [Identity!CaveatStands]_Identity!vars
  BY CaveatStep, IdentityMoves
<1> QED
  BY <1>1, <1>2, IdentityInvariance, PTL DEF MCSpec, QueueIsHonest, Identity!QueueIsHonest

-----------------------------------------------------------------------------
(* The roster of a kiosk without receipts.                                  *)

LegacyCursor == [issuedAt : Nat, sequence : Nat]

LegacyRequest ==
    {Roster!None} \cup [step : {"asked"}, since : Nat]
           \cup [step : {"issued"}, token : Nat, from : Nat]
           \cup [step : {"answered"}, token : Nat, workers : SUBSET Nat]

RosterTypeOK ==
    /\ clock \in Nat
    /\ rosterSequence \in Nat
    /\ cursors \in Seq(LegacyCursor)
    /\ lastSync \in Nat
    /\ held \in SUBSET Nat
    /\ waiting \in Slots \cup {0}
    /\ requests \in [Slots -> LegacyRequest]

\* Roster!At most two timestamps are remembered, none of what is yet to come.
CursorsOK ==
    /\ Len(cursors) <= 2
    /\ Len(cursors) = 2 => cursors[1].issuedAt > cursors[2].issuedAt
    /\ \A i \in 1..Len(cursors) : cursors[i].sequence <= rosterSequence

HasToken(s) == Roster!At(s, "issued") \/ Roster!At(s, "answered")

\* The latest timestamp is the latest of all that were issued.
LatestToken ==
    \A s \in Slots : HasToken(s) =>
        Len(cursors) > 0 /\ requests[s].token <= cursors[1].issuedAt

\* What the device holds was issued, or is what it had from the beginning and
\* asks with.
AskedOK ==
    \/ Len(cursors) > 0 /\ lastSync <= cursors[1].issuedAt
    \/ \A s \in Slots : Roster!At(s, "asked") => requests[s].since = lastSync

\* What the device waits for will make it complete.
AwaitedOK ==
    waiting # 0 =>
        LET r == requests[waiting]
        IN /\ Roster!At(waiting, "asked") => r.since = lastSync
           /\ Roster!At(waiting, "issued") => 1..r.from \subseteq held
           /\ Roster!At(waiting, "answered") =>
                 \A i \in 1..Len(cursors) : cursors[i].issuedAt = r.token =>
                    1..cursors[i].sequence \subseteq held \cup r.workers

CompleteOK ==
    \A i \in 1..Len(cursors) :
        cursors[i].issuedAt = lastSync => 1..cursors[i].sequence \subseteq held

RosterInv ==
    RosterTypeOK /\ CursorsOK /\ LatestToken /\ AskedOK /\ AwaitedOK /\ CompleteOK

-----------------------------------------------------------------------------
\* What is remembered once a timestamp was issued: it, and the latest before.
RememberToken(token) ==
    LET all == <<[issuedAt |-> token, sequence |-> rosterSequence]>> \o cursors
    IN SubSeq(all, 1, IF Len(all) < 2 THEN Len(all) ELSE 2)

LEMMA Remembering ==
    ASSUME RosterTypeOK, CursorsOK, NEW token \in Nat
    PROVE  /\ RememberToken(token) \in Seq(LegacyCursor)
           /\ Len(RememberToken(token)) = IF Len(cursors) = 0 THEN 1 ELSE 2
           /\ RememberToken(token)[1] = [issuedAt |-> token, sequence |-> rosterSequence]
           /\ Len(cursors) > 0 => RememberToken(token)[2] = cursors[1]
<1> DEFINE new == [issuedAt |-> token, sequence |-> rosterSequence]
           all == <<new>> \o cursors
<1>1. new \in LegacyCursor
  BY DEF RosterTypeOK, LegacyCursor
<1>2. /\ all \in Seq(LegacyCursor) /\ Len(all) = Len(cursors) + 1
      /\ all[1] = new
      /\ Len(cursors) > 0 => all[2] = cursors[1]
  BY <1>1 DEF RosterTypeOK
<1> HIDE DEF all, new
<1>3. CASE Len(cursors) = 0
  <2>1. Len(all) = 1 /\ RememberToken(token) = SubSeq(all, 1, 1)
    BY <1>2, <1>3 DEF RememberToken, all, new
  <2>2. /\ SubSeq(all, 1, 1) \in Seq(LegacyCursor) /\ Len(SubSeq(all, 1, 1)) = 1
        /\ SubSeq(all, 1, 1)[1] = all[1]
    BY <2>1, <1>2, SubSeqProperties
  <2> QED
    BY <2>1, <2>2, <1>2, <1>3 DEF new
<1>4. CASE Len(cursors) > 0
  <2>1. Len(all) >= 2 /\ RememberToken(token) = SubSeq(all, 1, 2)
    BY <1>2, <1>4 DEF RememberToken, all, new, RosterTypeOK
  <2> QED
    BY <2>1, <1>2, <1>4 DEF new
<1> QED
  BY <1>3, <1>4 DEF RosterTypeOK

\* A new timestamp is later than all before and not the one that was asked about.
LEMMA Later ==
    ASSUME RosterTypeOK, NEW asked \in Nat
    PROVE  /\ Roster!Timestamp(asked) \in Nat
           /\ Roster!Timestamp(asked) # asked
           /\ Len(cursors) > 0 => Roster!Timestamp(asked) > cursors[1].issuedAt
<1>1. CASE cursors = <<>>
  BY <1>1 DEF RosterTypeOK, Roster!Timestamp
<1>2. CASE cursors # <<>>
  <2>1. Len(cursors) > 0 /\ cursors[1] \in LegacyCursor
    BY <1>2 DEF RosterTypeOK
  <2> QED
    BY <2>1, <1>2 DEF RosterTypeOK, Roster!Timestamp, LegacyCursor
<1> QED
  BY <1>1, <1>2

\* A device is asked to have at most what the timestamp it holds stands for.
LEMMA KnownIsHeld ==
    ASSUME RosterTypeOK, CompleteOK
    PROVE  Roster!Known(lastSync) \in Nat /\ 1..Roster!Known(lastSync) \subseteq held
<1> DEFINE same == {i \in DOMAIN cursors : cursors[i].issuedAt = lastSync}
<1>1. CASE same = {}
  BY <1>1 DEF Roster!Known
<1>2. CASE same # {}
  <2>1. PICK i \in same : i = CHOOSE j \in same : TRUE
    BY <1>2
  <2>2. Roster!Known(lastSync) = cursors[i].sequence
    BY <2>1, <1>2 DEF Roster!Known
  <2>3. i \in 1..Len(cursors) /\ cursors[i].issuedAt = lastSync /\ cursors[i] \in LegacyCursor
    BY <2>1 DEF RosterTypeOK
  <2> QED
    BY <2>2, <2>3 DEF CompleteOK, LegacyCursor
<1> QED
  BY <1>1, <1>2

LEMMA KnownType ==
    ASSUME RosterTypeOK, NEW asked
    PROVE  Roster!Known(asked) \in Nat
<1> DEFINE same == {i \in DOMAIN cursors : cursors[i].issuedAt = asked}
<1>1. CASE same = {}
  BY <1>1 DEF Roster!Known
<1>2. CASE same # {}
  <2>1. PICK i \in same : i = CHOOSE j \in same : TRUE
    BY <1>2
  <2>2. Roster!Known(asked) = cursors[i].sequence /\ cursors[i] \in LegacyCursor
    BY <2>1, <1>2 DEF Roster!Known, RosterTypeOK
  <2> QED
    BY <2>2 DEF LegacyCursor
<1> QED
  BY <1>1, <1>2

-----------------------------------------------------------------------------
LEMMA RosterInitInv ==
    ASSUME Roster!LegacyRosterAssumption, Roster!Init
    PROVE  RosterInv
BY DEF Roster!LegacyRosterAssumption, Roster!Init, RosterInv, RosterTypeOK, CursorsOK, LatestToken, AskedOK,
       AwaitedOK, CompleteOK, HasToken, Roster!At, Roster!None, LegacyRequest, LegacyCursor

LEMMA WriteWorkerInv ==
    ASSUME RosterInv, Roster!WriteWorker
    PROVE  RosterInv'
<1>1. RosterTypeOK'
  BY DEF RosterInv, Roster!WriteWorker, RosterTypeOK
<1>2. CursorsOK'
  <2>1. \A i \in 1..Len(cursors) : cursors[i] \in LegacyCursor
    BY DEF RosterInv, RosterTypeOK
  <2> QED
    BY <2>1 DEF RosterInv, Roster!WriteWorker, RosterTypeOK, CursorsOK, LegacyCursor
<1>3. LatestToken' /\ AskedOK' /\ AwaitedOK' /\ CompleteOK'
  BY DEF RosterInv, Roster!WriteWorker, LatestToken, AskedOK, AwaitedOK,
         CompleteOK, HasToken, Roster!At
<1> QED
  BY <1>1, <1>2, <1>3 DEF RosterInv

LEMMA SetClockInv ==
    ASSUME RosterInv, Roster!SetClock
    PROVE  RosterInv'
<1>1. RosterTypeOK'
  BY DEF RosterInv, Roster!SetClock, RosterTypeOK
<1>2. CursorsOK' /\ LatestToken' /\ AskedOK' /\ AwaitedOK' /\ CompleteOK'
  BY DEF RosterInv, Roster!SetClock, CursorsOK, LatestToken, AskedOK, AwaitedOK,
         CompleteOK, HasToken, Roster!At
<1> QED
  BY <1>1, <1>2 DEF RosterInv

LEMMA RosterAskInv ==
    ASSUME Roster!LegacyRosterAssumption, RosterInv, Roster!Ask
    PROVE  RosterInv'
<1>1. PICK s \in Slots :
        /\ Roster!At(s, "none")
        /\ requests' = [requests EXCEPT ![s] = [step |-> "asked", since |-> lastSync]]
        /\ waiting' = s
  BY DEF Roster!Ask
<1>2. /\ requests \in [Slots -> LegacyRequest]
      /\ requests'[s] = [step |-> "asked", since |-> lastSync]
      /\ \A other \in Slots : other # s => requests'[other] = requests[other]
  BY <1>1 DEF RosterInv, RosterTypeOK
<1>3. RosterTypeOK'
  BY <1>1 DEF Roster!Ask, RosterInv, RosterTypeOK, LegacyRequest
<1>4. CursorsOK' /\ CompleteOK'
  BY DEF Roster!Ask, RosterInv, CursorsOK, CompleteOK
<1>5. LatestToken'
  BY <1>2 DEF Roster!Ask, RosterInv, LatestToken, HasToken, Roster!At
<1>6. AskedOK'
  BY <1>2 DEF Roster!Ask, RosterInv, AskedOK, Roster!At
<1>7. AwaitedOK'
  BY <1>1, <1>2 DEF Roster!Ask, AwaitedOK, Roster!At
<1> QED
  BY <1>3, <1>4, <1>5, <1>6, <1>7 DEF RosterInv

LEMMA IssueInv ==
    ASSUME Roster!LegacyRosterAssumption, RosterInv, Roster!issueLegacyRosterCursor
    PROVE  RosterInv'
<1>1. PICK s \in Slots :
        LET asked == requests[s].since
            token == Roster!Timestamp(asked)
        IN /\ Roster!At(s, "asked")
           /\ cursors' = RememberToken(token)
           /\ requests' = [requests EXCEPT ![s] =
                             [step |-> "issued", token |-> token, from |-> Roster!Known(asked)]]
           /\ UNCHANGED <<clock, rosterSequence, lastSync, held, waiting>>
  BY DEF Roster!issueLegacyRosterCursor, RememberToken
<1> DEFINE asked == requests[s].since
           token == Roster!Timestamp(asked)
<1>2. asked \in Nat
  <2>1. requests[s] \in LegacyRequest /\ requests[s].step = "asked"
    BY <1>1 DEF RosterInv, RosterTypeOK, Roster!At
  <2> QED
    BY <2>1 DEF LegacyRequest, Roster!None
<1>3. /\ token \in Nat
      /\ token # asked
      /\ Len(cursors) > 0 => token > cursors[1].issuedAt
  BY <1>2, Later DEF RosterInv
<1>4. Roster!Known(asked) \in Nat
  BY KnownType DEF RosterInv
<1> HIDE DEF token, asked
<1>5. /\ cursors' \in Seq(LegacyCursor)
      /\ Len(cursors') = IF Len(cursors) = 0 THEN 1 ELSE 2
      /\ cursors'[1] = [issuedAt |-> token, sequence |-> rosterSequence]
      /\ Len(cursors) > 0 => cursors'[2] = cursors[1]
  BY <1>1, <1>3, Remembering DEF RosterInv, token, asked
<1>6. /\ requests \in [Slots -> LegacyRequest]
      /\ requests'[s] = [step |-> "issued", token |-> token, from |-> Roster!Known(asked)]
      /\ \A other \in Slots : other # s => requests'[other] = requests[other]
  BY <1>1 DEF RosterInv, RosterTypeOK, token, asked
<1>7. RosterTypeOK'
  <2>1. requests' \in [Slots -> LegacyRequest]
    BY <1>1, <1>3, <1>4, <1>6 DEF LegacyRequest, token, asked
  <2> QED
    BY <1>1, <1>5, <2>1 DEF RosterInv, RosterTypeOK
\* The remembered timestamp that is not the new one is the latest of before.
<1>8. \A i \in 1..Len(cursors') :
         \/ i = 1
         \/ i = 2 /\ Len(cursors) > 0 /\ cursors'[i] = cursors[1]
  BY <1>5 DEF RosterInv, RosterTypeOK
<1>9. Len(cursors) > 0 =>
        /\ cursors[1] \in LegacyCursor
        /\ cursors[1].issuedAt < token
        /\ cursors[1].sequence <= rosterSequence
  BY <1>3 DEF RosterInv, RosterTypeOK, CursorsOK
<1>10. CursorsOK'
  BY <1>1, <1>5, <1>8, <1>9 DEF RosterInv, RosterTypeOK, CursorsOK
<1>11. LatestToken'
  <2> SUFFICES ASSUME NEW r \in Slots, HasToken(r)'
               PROVE  Len(cursors') > 0 /\ requests'[r].token <= cursors'[1].issuedAt
    BY DEF LatestToken
  <2>1. CASE r = s
    BY <2>1, <1>3, <1>5, <1>6
  <2>2. CASE r # s
    <3>1. HasToken(r) /\ requests'[r] = requests[r]
      BY <2>2, <1>6 DEF HasToken, Roster!At
    <3>2. Len(cursors) > 0 /\ requests[r].token <= cursors[1].issuedAt
      BY <3>1 DEF RosterInv, LatestToken
    <3>3. requests[r].token \in Nat
      BY <3>1, <1>6 DEF HasToken, Roster!At, LegacyRequest, Roster!None
    <3> QED
      BY <3>1, <3>2, <3>3, <1>3, <1>5, <1>9 DEF LegacyCursor
  <2> QED
    BY <2>1, <2>2
\* The timestamp the device holds is not the new one.
<1>12. lastSync # token /\ AskedOK'
  <2>1. CASE Len(cursors) > 0 /\ lastSync <= cursors[1].issuedAt
    BY <2>1, <1>1, <1>3, <1>5, <1>9 DEF RosterInv, RosterTypeOK, AskedOK, LegacyCursor
  <2>2. CASE \A r \in Slots : Roster!At(r, "asked") => requests[r].since = lastSync
    <3>1. asked = lastSync
      BY <2>2, <1>1 DEF asked
    <3>2. \A r \in Slots : Roster!At(r, "asked")' => requests'[r].since = lastSync
      BY <2>2, <1>6 DEF Roster!At
    <3> QED
      BY <3>1, <3>2, <1>1, <1>3 DEF AskedOK
  <2> QED
    BY <2>1, <2>2 DEF RosterInv, AskedOK
<1>13. CompleteOK'
  <2> SUFFICES ASSUME NEW i \in 1..Len(cursors'), cursors'[i].issuedAt = lastSync
               PROVE  1..cursors'[i].sequence \subseteq held
    BY <1>1 DEF CompleteOK
  <2>1. Len(cursors) > 0 /\ cursors'[i] = cursors[1]
    BY <1>5, <1>8, <1>12
  <2>2. 1 \in 1..Len(cursors)
    BY <2>1 DEF RosterInv, RosterTypeOK
  <2> QED
    BY <2>1, <2>2 DEF RosterInv, CompleteOK
<1>14. AwaitedOK'
  <2> SUFFICES ASSUME waiting # 0
               PROVE  LET r == requests'[waiting]
                      IN /\ r.step = "asked" => r.since = lastSync
                         /\ r.step = "issued" => 1..r.from \subseteq held
                         /\ r.step = "answered" =>
                              \A i \in 1..Len(cursors') : cursors'[i].issuedAt = r.token =>
                                 1..cursors'[i].sequence \subseteq held \cup r.workers
    BY <1>1 DEF AwaitedOK, Roster!At
  <2>1. waiting \in Slots
    BY DEF RosterInv, RosterTypeOK
  <2>2. CASE waiting = s
    <3>1. asked = lastSync
      BY <2>2, <1>1 DEF RosterInv, AwaitedOK, asked
    <3>2. 1..Roster!Known(asked) \subseteq held
      BY <3>1, KnownIsHeld DEF RosterInv
    <3> QED
      BY <3>2, <2>2, <1>6
  <2>3. CASE waiting # s
    <3>1. requests'[waiting] = requests[waiting]
      BY <2>1, <2>3, <1>6
    <3>2. ASSUME requests[waiting].step = "answered",
                 NEW i \in 1..Len(cursors'),
                 cursors'[i].issuedAt = requests[waiting].token
          PROVE  1..cursors'[i].sequence \subseteq held \cup requests[waiting].workers
      <4>1. Len(cursors) > 0 /\ requests[waiting].token <= cursors[1].issuedAt
        BY <3>2, <2>1 DEF RosterInv, LatestToken, HasToken, Roster!At
      <4>2. requests[waiting].token \in Nat
        BY <3>2, <2>1, <1>6 DEF LegacyRequest, Roster!None
      <4>3. requests[waiting].token # token
        BY <4>1, <4>2, <1>3, <1>9 DEF LegacyCursor
      <4>4. cursors'[i] = cursors[1]
        BY <3>2, <4>3, <1>5, <1>8
      <4>5. 1 \in 1..Len(cursors)
        BY <4>1 DEF RosterInv, RosterTypeOK
      <4> QED
        BY <3>2, <4>4, <4>5 DEF RosterInv, AwaitedOK, Roster!At
    <3> QED
      BY <3>1, <3>2 DEF RosterInv, AwaitedOK, Roster!At
  <2> QED
    BY <2>2, <2>3
<1> QED
  BY <1>7, <1>10, <1>11, <1>12, <1>13, <1>14 DEF RosterInv

LEMMA FetchInv ==
    ASSUME Roster!LegacyRosterAssumption, RosterInv, Roster!fetchWorkersForSync
    PROVE  RosterInv'
<1>1. PICK s \in Slots :
        /\ Roster!At(s, "issued")
        /\ requests' = [requests EXCEPT ![s] =
                          [step |-> "answered", token |-> @.token,
                           workers |-> (@.from + 1)..rosterSequence]]
  BY DEF Roster!fetchWorkersForSync
<1>2. requests[s].token \in Nat /\ requests[s].from \in Nat
  <2>1. requests[s] \in LegacyRequest /\ requests[s].step = "issued"
    BY <1>1 DEF RosterInv, RosterTypeOK, Roster!At
  <2> QED
    BY <2>1 DEF LegacyRequest, Roster!None
<1> DEFINE workers == (requests[s].from + 1)..rosterSequence
<1>3. /\ requests \in [Slots -> LegacyRequest]
      /\ requests'[s] = [step |-> "answered", token |-> requests[s].token,
                         workers |-> workers]
      /\ \A other \in Slots : other # s => requests'[other] = requests[other]
  BY <1>1 DEF RosterInv, RosterTypeOK
<1>4. workers \in SUBSET Nat
  BY <1>2 DEF RosterInv, RosterTypeOK
<1> HIDE DEF workers
<1>5. RosterTypeOK'
  <2>1. requests' \in [Slots -> LegacyRequest]
    BY <1>1, <1>2, <1>3, <1>4 DEF LegacyRequest
  <2> QED
    BY <2>1 DEF Roster!fetchWorkersForSync, RosterInv, RosterTypeOK
<1>6. CursorsOK' /\ CompleteOK'
  BY DEF Roster!fetchWorkersForSync, RosterInv, CursorsOK, CompleteOK
<1>7. LatestToken'
  BY <1>1, <1>3 DEF Roster!fetchWorkersForSync, RosterInv, LatestToken, HasToken, Roster!At
<1>8. AskedOK'
  BY <1>3 DEF Roster!fetchWorkersForSync, RosterInv, AskedOK, Roster!At
<1>9. AwaitedOK'
  <2>1. CASE waiting = s
    <3>1. 1..requests[s].from \subseteq held
      BY <2>1, <1>1 DEF RosterInv, AwaitedOK, Roster!LegacyRosterAssumption
    <3>2. \A i \in 1..Len(cursors) : 1..cursors[i].sequence \subseteq held \cup workers
      <4> SUFFICES ASSUME NEW i \in 1..Len(cursors), NEW n \in 1..cursors[i].sequence
                   PROVE  n \in held \cup workers
        OBVIOUS
      <4>1. cursors[i].sequence <= rosterSequence /\ cursors[i] \in LegacyCursor
        BY DEF RosterInv, RosterTypeOK, CursorsOK
      <4>2. n \in 1..rosterSequence
        BY <4>1 DEF LegacyCursor, RosterInv, RosterTypeOK
      <4>3. n \in 1..requests[s].from \/ n \in workers
        BY <4>2, <1>2 DEF workers, RosterInv, RosterTypeOK
      <4> QED
        BY <4>3, <3>1
    <3>3. waiting' = s /\ UNCHANGED <<cursors, lastSync, held>>
      BY <2>1 DEF Roster!fetchWorkersForSync
    <3>4. requests'[s].step = "answered" /\ requests'[s].workers = workers
      BY <1>3
    <3> QED
      BY <3>2, <3>3, <3>4 DEF AwaitedOK, Roster!At
  <2>2. CASE waiting # s
    <3>1. waiting # 0 => requests'[waiting] = requests[waiting]
      BY <2>2, <1>3 DEF RosterInv, RosterTypeOK
    <3> QED
      BY <3>1 DEF Roster!fetchWorkersForSync, RosterInv, AwaitedOK, Roster!At
  <2> QED
    BY <2>1, <2>2
<1> QED
  BY <1>5, <1>6, <1>7, <1>8, <1>9 DEF RosterInv

LEMMA RosterApplyInv ==
    ASSUME Roster!LegacyRosterAssumption, RosterInv, Roster!Apply
    PROVE  RosterInv'
<1>1. PICK s \in Slots :
        /\ Roster!At(s, "answered") /\ waiting = s
        /\ \/ /\ held' = held \cup requests[s].workers
              /\ lastSync' = requests[s].token
           \/ /\ \E applied \in SUBSET requests[s].workers : held' = held \cup applied
              /\ UNCHANGED lastSync
        /\ waiting' = 0
        /\ requests' = [requests EXCEPT ![s] = Roster!None]
        /\ UNCHANGED <<clock, rosterSequence, cursors>>
  BY DEF Roster!Apply
<1>2. requests[s].token \in Nat /\ requests[s].workers \in SUBSET Nat
  <2>1. requests[s] \in LegacyRequest /\ requests[s].step = "answered"
    BY <1>1 DEF RosterInv, RosterTypeOK, Roster!At
  <2> QED
    BY <2>1 DEF LegacyRequest, Roster!None
<1>3. /\ requests \in [Slots -> LegacyRequest]
      /\ requests'[s] = Roster!None
      /\ \A other \in Slots : other # s => requests'[other] = requests[other]
  BY <1>1 DEF RosterInv, RosterTypeOK
<1>4. RosterTypeOK'
  <2>1. requests' \in [Slots -> LegacyRequest]
    BY <1>1, <1>3 DEF LegacyRequest
  <2>2. lastSync' \in Nat /\ held' \in SUBSET Nat
    BY <1>1, <1>2 DEF RosterInv, RosterTypeOK
  <2> QED
    BY <1>1, <2>1, <2>2 DEF RosterInv, RosterTypeOK
<1>5. CursorsOK'
  BY <1>1 DEF RosterInv, CursorsOK
<1>6. LatestToken'
  BY <1>1, <1>3 DEF RosterInv, LatestToken, HasToken, Roster!At, Roster!None
<1>7. AwaitedOK'
  BY <1>1 DEF AwaitedOK
<1>8. AskedOK' /\ CompleteOK'
  <2>1. CASE lastSync' = requests[s].token /\ held' = held \cup requests[s].workers
    <3>1. AskedOK'
      BY <2>1, <1>1 DEF RosterInv, LatestToken, HasToken, AskedOK
    <3>2. \A i \in 1..Len(cursors) : cursors[i].issuedAt = requests[s].token =>
             1..cursors[i].sequence \subseteq held \cup requests[s].workers
      BY <1>1 DEF RosterInv, AwaitedOK, Roster!LegacyRosterAssumption
    <3>3. CompleteOK'
      BY <2>1, <3>2, <1>1 DEF CompleteOK
    <3> QED
      BY <3>1, <3>3
  <2>2. CASE lastSync' = lastSync /\ held \subseteq held'
    <3>1. AskedOK'
      BY <2>2, <1>1, <1>3 DEF RosterInv, AskedOK, Roster!At, Roster!None
    <3>2. CompleteOK'
      BY <2>2, <1>1 DEF RosterInv, CompleteOK
    <3> QED
      BY <3>1, <3>2
  <2> QED
    BY <1>1, <2>1, <2>2
<1> QED
  BY <1>4, <1>5, <1>6, <1>7, <1>8 DEF RosterInv

LEMMA RosterLoseInv ==
    ASSUME Roster!LegacyRosterAssumption, RosterInv, Roster!Lose
    PROVE  RosterInv'
<1>1. PICK s \in Slots :
        /\ requests' = [requests EXCEPT ![s] = Roster!None]
        /\ waiting' = IF waiting = s THEN 0 ELSE waiting
        /\ UNCHANGED <<clock, rosterSequence, cursors, lastSync, held>>
  BY DEF Roster!Lose
<1>2. /\ requests \in [Slots -> LegacyRequest]
      /\ requests'[s] = Roster!None
      /\ \A other \in Slots : other # s => requests'[other] = requests[other]
  BY <1>1 DEF RosterInv, RosterTypeOK
<1>3. RosterTypeOK'
  BY <1>1 DEF RosterInv, RosterTypeOK, LegacyRequest
<1>4. CursorsOK' /\ CompleteOK'
  BY <1>1 DEF RosterInv, CursorsOK, CompleteOK
<1>5. LatestToken'
  BY <1>1, <1>2 DEF RosterInv, LatestToken, HasToken, Roster!At, Roster!None
<1>6. AskedOK'
  BY <1>1, <1>2 DEF RosterInv, AskedOK, Roster!At, Roster!None
<1>7. AwaitedOK'
  <2>1. waiting' # 0 =>
          /\ waiting' = waiting /\ waiting # s
          /\ requests'[waiting] = requests[waiting]
    BY <1>1, <1>2 DEF RosterInv, RosterTypeOK
  <2> QED
    BY <2>1, <1>1 DEF RosterInv, AwaitedOK, Roster!At
<1> QED
  BY <1>3, <1>4, <1>5, <1>6, <1>7 DEF RosterInv

LEMMA RosterNextInv ==
    ASSUME Roster!LegacyRosterAssumption, RosterInv, [Roster!Next]_Roster!vars
    PROVE  RosterInv'
<1>1. CASE Roster!Next
  BY <1>1, WriteWorkerInv, SetClockInv, RosterAskInv, IssueInv, FetchInv,
     RosterApplyInv, RosterLoseInv
     DEF Roster!Next
<1>2. CASE UNCHANGED Roster!vars
  BY <1>2 DEF Roster!vars, RosterInv, RosterTypeOK, CursorsOK, LatestToken, AskedOK, AwaitedOK,
         CompleteOK, HasToken, Roster!At
<1> QED
  BY <1>1, <1>2

-----------------------------------------------------------------------------
\* If the portal recognizes the timestamp an old kiosk holds, the kiosk has every
\* change up to the sequence it stands for: what the kiosk waits for will make it
\* complete, and no timestamp it holds is issued to it again.
\* (issueLegacyRosterCursorFromHttp)
THEOREM NothingIsSkippedInFleet == MCSpec => []NothingSkipped
<1>1. MCInit => RosterInv
  BY RosterInitInv, RosterAssumption DEF MCInit
<1>2. RosterInv /\ [MCNext]_<<part, vars, identityVars, rosterVars>> => RosterInv'
  <2> SUFFICES ASSUME RosterInv, [MCNext]_<<part, vars, identityVars, rosterVars>>
               PROVE  RosterInv'
    OBVIOUS
  <2>1. Roster!Next \/ UNCHANGED rosterVars
    BY DEF MCNext
  <2>2. [Roster!Next]_Roster!vars
    BY <2>1 DEF rosterVars, Roster!vars
  <2> QED
    BY <2>2, RosterNextInv, RosterAssumption
<1>3. RosterInv => NothingSkipped
  BY DEF NothingSkipped, RosterInv, RosterTypeOK, CompleteOK, Roster!NothingSkipped
<1> QED
  BY <1>1, <1>2, <1>3, PTL DEF MCSpec

-----------------------------------------------------------------------------
(* Updates.                                                                *)

Commands == {"cancel", "collect", "retire", "trap", "build", "prepare", "restart",
             "health", "commit", "committed"}

Rest(n) == SubSeq(UpdateScript, n, 14)

\* Commands that the updater has still to run.
Left == Len(script)

\* An updater that lives is in its script or in that of its trap; one that was
\* killed has left a command that was started, or none.
ScriptInv ==
    /\ alive => script \in {Rest(n) : n \in 1..14} \cup {ExitScript, <<>>}
    /\ ~alive => /\ script \in {<<>>, <<"collect">>, <<"health">>, <<"commit">>}
                 /\ script # <<>> => step # "start"
    /\ step # "start" =>
        /\ script # <<>>
        /\ Head(script) = CASE step \in {"look", "remove"} -> "collect"
                            [] step = "probe" -> "health"
                            [] OTHER -> "commit"

\* The candidate between its staging and its commit.
CandidateInv ==
    /\ current <= updates /\ durable <= updates
    /\ Left >= 5 \/ (Left = 4 /\ step = "start") => current < updates /\ durable < updates
    /\ Left \in 4..7 => Complete(Candidate)
    /\ Left \in 5..6 => pending.release = Candidate
    /\ Left = 4 => Candidate \in good

\* The marker is of the application that runs if it is of the last launch.
LaunchInv ==
    /\ child # NoLaunch =>
        /\ phase \in {"mark", "watch", "compare"}
        /\ child.release = running
        /\ child.launch = launches
    /\ phase \in {"choose", "compare"} => seen # NoRelease
    /\ phase = "mark" => marker.launch < launches
    /\ child # NoLaunch /\ marker.launch = launches => marker.release = child.release

\* What is removed is not the committed release's, and only the committed release
\* that was not flushed differs from the one that is.
RemovalInv ==
    /\ durable # current => \/ script \in {<<>>, UpdateScript, ExitScript}
                            \/ step = "replaced"
    /\ step = "remove" =>
        /\ <<"code", current>> \notin doomed
        /\ <<"env", venv[current]>> \notin doomed

ReleaseInv ==
    /\ TypeOK
    /\ ScriptInv
    /\ CandidateInv
    /\ LaunchInv
    /\ RemovalInv
    /\ CommittedIsUsable

LEMMA RestOfScript ==
    ASSUME NEW n \in 1..14
    PROVE  /\ Rest(n) \in Seq(Commands)
           /\ Len(Rest(n)) = 15 - n
           /\ Rest(n) # <<>>
           /\ Head(Rest(n)) = UpdateScript[n]
           /\ n < 14 => Tail(Rest(n)) = Rest(n + 1)
<1>1. UpdateScript \in Seq(Commands) /\ Len(UpdateScript) = 14
  BY DEF UpdateScript, Commands
<1>2. n \in 1..Len(UpdateScript) /\ 14 \in n..Len(UpdateScript)
  BY <1>1
<1>3. /\ Head(Rest(n)) = UpdateScript[n]
      /\ Tail(Rest(n)) = SubSeq(UpdateScript, n + 1, 14)
  BY <1>1, <1>2, HeadTailOfSubSeq DEF Rest
<1>4. /\ Rest(n) \in Seq(Commands)
      /\ Len(Rest(n)) = 15 - n
  <2>1. n \in Int /\ 14 \in Int /\ \A i \in n..14 : UpdateScript[i] \in Commands
    BY DEF UpdateScript, Commands
  <2>2. /\ SubSeq(UpdateScript, n, 14) \in Seq(Commands)
        /\ Len(SubSeq(UpdateScript, n, 14)) = IF n <= 14 THEN 14 - n + 1 ELSE 0
    BY <2>1, SubSeqProperties
  <2> QED
    BY <2>2 DEF Rest
<1>5. Rest(n) # <<>>
  BY <1>4
<1> QED
  BY <1>3, <1>4, <1>5 DEF Rest

LEMMA WholeScript == Rest(1) = UpdateScript
<1>1. UpdateScript \in Seq(Commands) /\ Len(UpdateScript) = 14
  BY DEF UpdateScript, Commands
<1> QED
  BY <1>1, SubSeqFull DEF Rest

LEMMA LastOfScript == Rest(14) = <<"collect">> /\ Tail(Rest(14)) = <<>> /\ Len(Rest(14)) = 1
<1>0. PICK n \in 1..14 : n = 14
  OBVIOUS
<1>1. Rest(14) \in Seq(Commands) /\ Len(Rest(14)) = 1 /\ Head(Rest(14)) = "collect"
  <2>1. UpdateScript[14] = "collect"
    BY DEF UpdateScript
  <2>2. Rest(n) \in Seq(Commands) /\ Len(Rest(n)) = 15 - n /\ Head(Rest(n)) = UpdateScript[n]
    BY RestOfScript
  <2> QED
    BY <1>0, <2>1, <2>2
<1>2. Rest(14)[1] = "collect"
  BY <1>1
<1>3. <<"collect">> \in Seq(Commands) /\ Len(<<"collect">>) = 1 /\ <<"collect">>[1] = "collect"
  BY DEF Commands
<1>4. Rest(14) = <<"collect">>
  BY <1>1, <1>2, <1>3, SeqEqual
<1>5. Tail(<<"collect">>) = <<>>
  OBVIOUS
<1> QED
  BY <1>1, <1>4, <1>5

LEMMA ShortScripts ==
    /\ ExitScript # <<>> /\ Len(ExitScript) = 2
    /\ Head(ExitScript) = "cancel" /\ Tail(ExitScript) = <<"collect">>
    /\ Len(<<>>) = 0
    /\ \A c \in Commands : <<c>> # <<>> /\ Len(<<c>>) = 1 /\ Head(<<c>>) = c /\ Tail(<<c>>) = <<>>
BY DEF ExitScript

\* Where a command is in the script.
LEMMA PlaceOfCommand ==
    ASSUME ScriptInv, script # <<>>
    PROVE  /\ Left \in 1..14
           /\ ~alive => Left = 1 /\ step # "start"
           /\ Head(script) = "cancel" => Left \in {14, 11, 2}
           /\ Head(script) = "collect" => Left \in {13, 9, 1}
           /\ Head(script) = "retire" => Left \in {12, 2}
           /\ Head(script) = "trap" => Left = 10
           /\ Head(script) = "build" => Left = 8
           /\ Head(script) = "prepare" => Left = 7
           /\ Head(script) = "restart" => Left = 6
           /\ Head(script) = "health" => Left \in {5, 1}
           /\ Head(script) = "commit" => Left \in {4, 1}
           /\ Head(script) = "committed" => Left = 3
           /\ Head(script) # "cancel" => script \notin {<<>>, UpdateScript, ExitScript}
           /\ Head(script) \in Commands
           /\ alive /\ Head(script) \in {"health", "commit"} => Left # 1
<1>1. CASE alive /\ script \in {Rest(n) : n \in 1..14}
  <2>1. PICK n \in 1..14 : script = Rest(n)
    BY <1>1
  <2>2. Left = 15 - n /\ Head(script) = UpdateScript[n]
    BY <2>1, RestOfScript DEF Left
  <2>3. /\ UpdateScript[1] = "cancel" /\ UpdateScript[2] = "collect"
        /\ UpdateScript[3] = "retire" /\ UpdateScript[4] = "cancel"
        /\ UpdateScript[5] = "trap" /\ UpdateScript[6] = "collect"
        /\ UpdateScript[7] = "build" /\ UpdateScript[8] = "prepare"
        /\ UpdateScript[9] = "restart" /\ UpdateScript[10] = "health"
        /\ UpdateScript[11] = "commit" /\ UpdateScript[12] = "committed"
        /\ UpdateScript[13] = "retire" /\ UpdateScript[14] = "collect"
    BY DEF UpdateScript
  <2>4. Head(UpdateScript) = "cancel" /\ Head(ExitScript) = "cancel"
    BY ShortScripts DEF UpdateScript
  <2>5. n \in {1, 2, 3, 4, 5, 6, 7, 8, 9, 10, 11, 12, 13, 14}
    OBVIOUS
  <2>6. Head(script) \in Commands
    BY <2>2, <2>3, <2>5 DEF Commands
  <2>7. /\ Head(script) = "cancel" => Left \in {14, 11, 2}
        /\ Head(script) = "collect" => Left \in {13, 9, 1}
        /\ Head(script) = "retire" => Left \in {12, 2}
        /\ Head(script) = "trap" => Left = 10
        /\ Head(script) = "build" => Left = 8
    BY <2>2, <2>3, <2>5
  <2>8. /\ Head(script) = "prepare" => Left = 7
        /\ Head(script) = "restart" => Left = 6
        /\ Head(script) = "health" => Left = 5
        /\ Head(script) = "commit" => Left = 4
        /\ Head(script) = "committed" => Left = 3
    BY <2>2, <2>3, <2>5
  <2>9. Left \in 1..14
    BY <2>2
  <2> QED
    BY <1>1, <2>4, <2>6, <2>7, <2>8, <2>9
<1>2. CASE alive /\ script = ExitScript
  <2>1. Left = 2 /\ Head(script) = "cancel"
    BY <1>2, ShortScripts DEF Left
  <2> QED
    BY <1>2, <2>1 DEF Commands
<1>3. CASE ~alive
  <2>1. PICK c \in {"collect", "health", "commit"} : script = <<c>>
    BY <1>3 DEF ScriptInv
  <2>2. Left = 1 /\ Head(script) = c
    BY <2>1, ShortScripts DEF Left
  <2>3. Head(UpdateScript) = "cancel" /\ Head(ExitScript) = "cancel"
    BY ShortScripts DEF UpdateScript
  <2>4. step # "start"
    BY <1>3 DEF ScriptInv
  <2> QED
    BY <1>3, <2>2, <2>3, <2>4 DEF Commands
<1> QED
  BY <1>1, <1>2, <1>3 DEF ScriptInv

\* A command that ends leaves one fewer; an orphan leaves none.
LEMMA Advance ==
    ASSUME ScriptInv, script # <<>>, Done, alive' = alive
    PROVE  /\ ScriptInv'
           /\ step' = "start"
           /\ Left' = IF alive THEN Left - 1 ELSE 0
           /\ Left' \in 0..13
<1>1. step' = "start"
  BY DEF Done
<1>2. CASE alive /\ script \in {Rest(n) : n \in 1..14}
  <2>1. PICK n \in 1..14 : script = Rest(n)
    BY <1>2
  <2>2. Left = 15 - n
    BY <2>1, RestOfScript DEF Left
  <2>3. CASE n = 14
    <3>1. script' = <<>>
      BY <1>2, <2>1, <2>3, LastOfScript DEF Done
    <3> QED
      BY <1>1, <1>2, <2>2, <2>3, <3>1, ShortScripts DEF ScriptInv, Left
  <2>4. CASE n < 14
    <3>1. Tail(Rest(n)) = Rest(n + 1)
      BY <2>4, RestOfScript
    <3>2. PICK k \in 1..14 : k = n + 1
      BY <2>4
    <3>3. script' = Rest(k)
      BY <1>2, <2>1, <3>1, <3>2 DEF Done
    <3>4. Len(Rest(k)) = 15 - k
      BY RestOfScript
    <3>5. Left' = 15 - k
      BY <3>3, <3>4 DEF Left
    <3>6. ScriptInv'
      BY <1>1, <1>2, <3>3 DEF ScriptInv
    <3> QED
      BY <1>1, <1>2, <2>2, <3>2, <3>5, <3>6
  <2> QED
    BY <2>3, <2>4
<1>3. CASE alive /\ script = ExitScript
  <2>1. script' = Rest(14)
    BY <1>3, ShortScripts, LastOfScript DEF Done
  <2>2. Len(Rest(14)) = 1
    BY LastOfScript
  <2> QED
    BY <1>1, <1>3, <2>1, <2>2, ShortScripts DEF ScriptInv, Left
<1>4. CASE ~alive
  BY <1>1, <1>4, ShortScripts DEF Done, ScriptInv, Left
<1> QED
  BY <1>2, <1>3, <1>4 DEF ScriptInv

LEMMA NothingTypes ==
    ASSUME ReleaseAssumption
    PROVE  /\ 0 \in Releases /\ NoRelease \notin Releases
           /\ NoTrial \in [release : Releases, owner : 0..NumUpdates]
           /\ \A n \in Nat : 0 \in 0..n /\ NoLaunch \in [release : Releases, launch : 0..n]
<1>1. 0 \in Releases /\ NoRelease \notin Releases /\ 0 \in 0..NumUpdates
  BY DEF Releases, NoRelease, ReleaseAssumption
<1>2. \A n \in Nat : 0 \in 0..n
  OBVIOUS
<1> QED
  BY <1>1, <1>2 DEF NoTrial, NoLaunch

LEMMA ReleaseInitInv ==
    ASSUME ReleaseAssumption, Init
    PROVE  ReleaseInv
<1>1. TypeOK
  BY DEF ReleaseAssumption, Init, TypeOK, Releases, NoTrial, NoLaunch, NoRelease
<1>2. ScriptInv
  BY DEF Init, ScriptInv
<1>3. CandidateInv
  BY ShortScripts DEF Init, CandidateInv, Left
<1>4. LaunchInv
  BY DEF Init, LaunchInv
<1>5. RemovalInv
  BY DEF Init, RemovalInv
<1>6. CommittedIsUsable
  BY DEF ReleaseAssumption, Init, CommittedIsUsable, CommittedIsComplete, CommittedIsGood,
         Complete, Releases
<1> QED
  BY <1>1, <1>2, <1>3, <1>4, <1>5, <1>6 DEF ReleaseInv

LEMMA ChoiceIsRelease ==
    ASSUME TypeOK, LaunchInv, phase \in {"choose", "compare"}
    PROVE  Choice \in Releases
BY DEF TypeOK, LaunchInv, Choice, selected

LEMMA LauncherType ==
    ASSUME ReleaseAssumption, TypeOK, LaunchInv, LauncherNext
    PROVE  TypeOK'
<1>1. CASE StartLauncher
  BY <1>1 DEF TypeOK, StartLauncher, fileVars, updaterVars
<1>2. CASE Choose
  <2>1. running' \in Releases
    BY <1>2, ChoiceIsRelease DEF Choose
  <2> QED
    BY <1>2, <2>1 DEF TypeOK, Choose, fileVars, updaterVars
<1>3. CASE Spawn
  <2>1. launches' = launches + 1 /\ launches \in Nat
    BY <1>3 DEF TypeOK, Spawn
  <2>2. 0..launches \subseteq 0..launches'
    BY <2>1
  <2>3. child' \in [release : Releases, launch : 0..launches']
    BY <1>3, <2>1 DEF TypeOK, Spawn
  <2>4. marker' \in [release : Releases, launch : 0..launches']
    BY <1>3, <2>2 DEF TypeOK, Spawn, fileVars
  <2>5. stable' \in 0..launches' /\ since' \in 0..launches'
    BY <1>3, <2>2 DEF TypeOK, Spawn, updaterVars
  <2>6. launches' \in Nat
    BY <2>1
  <2> QED
    BY <1>3, <2>3, <2>4, <2>5, <2>6 DEF TypeOK, Spawn, fileVars, updaterVars
<1>4. CASE SpawnFails
  BY <1>4, NothingTypes DEF TypeOK, SpawnFails, LauncherEnds, Reject, fileVars, updaterVars
<1>5. CASE Mark
  <2>1. marker' \in [release : Releases, launch : 0..launches]
    BY <1>5 DEF TypeOK, Mark
  <2> QED
    BY <1>5, <2>1 DEF TypeOK, Mark, updaterVars
<1>6. CASE Poll
  BY <1>6 DEF TypeOK, Poll, fileVars, updaterVars
<1>7. CASE Compare
  <2>1. child' \in [release : Releases, launch : 0..launches]
    BY <1>7, NothingTypes DEF TypeOK, Compare
  <2> QED
    BY <1>7, <2>1 DEF TypeOK, Compare, fileVars, updaterVars
<1>8. CASE ChildExited
  BY <1>8, NothingTypes DEF TypeOK, ChildExited, LauncherEnds, Reject, fileVars, updaterVars
<1> QED
  BY <1>1, <1>2, <1>3, <1>4, <1>5, <1>6, <1>7, <1>8 DEF LauncherNext

LEMMA LauncherLaunches ==
    ASSUME ReleaseAssumption, TypeOK, LaunchInv, LauncherNext
    PROVE  LaunchInv'
<1> USE DEF LaunchInv
<1>0. current # NoRelease
  BY DEF TypeOK, Releases, NoRelease, ReleaseAssumption
<1>1. CASE StartLauncher
  BY <1>0, <1>1 DEF StartLauncher, fileVars
<1>2. CASE Choose
  BY <1>2 DEF Choose, fileVars
<1>3. CASE Spawn
  <2>1. /\ launches' = launches + 1 /\ launches \in Nat
        /\ marker' = marker /\ marker.launch \in 0..launches
    BY <1>3 DEF TypeOK, Spawn, fileVars
  <2>2. /\ child'.release = running' /\ child'.launch = launches'
        /\ phase' = "mark"
    BY <1>3 DEF Spawn
  <2>3. marker'.launch < launches'
    BY <2>1
  <2> QED
    BY <2>1, <2>2, <2>3
<1>4. CASE SpawnFails
  BY <1>0, <1>4 DEF SpawnFails, LauncherEnds, Reject, fileVars
<1>5. CASE Mark
  <2>1. marker' = [release |-> running, launch |-> launches] \/ marker' = marker
    BY <1>5 DEF Mark
  <2> QED
    BY <1>5, <2>1 DEF Mark, TypeOK
<1>6. CASE Poll
  BY <1>0, <1>6 DEF Poll, fileVars
<1>7. CASE Compare
  BY <1>0, <1>7 DEF Compare, fileVars
<1>8. CASE ChildExited
  BY <1>0, <1>8 DEF ChildExited, LauncherEnds, Reject, fileVars
<1> QED
  BY <1>1, <1>2, <1>3, <1>4, <1>5, <1>6, <1>7, <1>8 DEF LauncherNext

\* The launcher changes neither a file of the committed release nor the updater.
LEMMA LauncherKeeps ==
    ASSUME ReleaseAssumption, ReleaseInv, LauncherNext
    PROVE  ReleaseInv'
<1>1. UNCHANGED <<good, dirs, envs, venv, current, durable, pending, updaterVars>>
  BY DEF LauncherNext, StartLauncher, Choose, Spawn, SpawnFails, Mark, Poll, Compare,
         ChildExited, fileVars
<1>2. ScriptInv'
  BY <1>1 DEF ReleaseInv, ScriptInv, updaterVars
<1>3. CandidateInv'
  BY <1>1 DEF ReleaseInv, CandidateInv, Left, Complete, Candidate, updaterVars
<1>4. RemovalInv'
  BY <1>1 DEF ReleaseInv, RemovalInv, updaterVars
<1>5. CommittedIsUsable'
  BY <1>1 DEF ReleaseInv, CommittedIsUsable, CommittedIsComplete, CommittedIsGood, Complete
<1> QED
  BY <1>2, <1>3, <1>4, <1>5, LauncherType, LauncherLaunches DEF ReleaseInv

\* A command that leaves the launcher and its marker alone.
LEMMA LaunchesKept ==
    ASSUME LaunchInv, UNCHANGED <<launcherVars, marker>>
    PROVE  LaunchInv'
BY DEF LaunchInv, launcherVars

LEMMA UsableKept ==
    ASSUME CommittedIsUsable, UNCHANGED <<good, dirs, envs, venv, current, durable>>
    PROVE  CommittedIsUsable'
BY DEF CommittedIsUsable, CommittedIsComplete, CommittedIsGood, Complete

LEMMA StartUpdateInv ==
    ASSUME ReleaseAssumption, ReleaseInv, StartUpdate
    PROVE  ReleaseInv'
<1>1. script' = UpdateScript /\ step' = "start" /\ Left' = 14 /\ alive'
  BY DEF StartUpdate, UpdateScript, Left
<1>2. TypeOK'
  <2>1. updates' \in 0..NumUpdates
    BY DEF StartUpdate, ReleaseInv, TypeOK, ReleaseAssumption
  <2> QED
    BY <2>1 DEF StartUpdate, ReleaseInv, TypeOK, fileVars, launcherVars
<1>3. ScriptInv'
  <2>1. UpdateScript \in {Rest(n) : n \in 1..14}
    BY WholeScript
  <2> QED
    BY <1>1, <2>1 DEF ScriptInv
<1>4. CandidateInv'
  <2>1. updates' = updates + 1 /\ updates \in Nat
    BY DEF StartUpdate, ReleaseInv, TypeOK, ReleaseAssumption
  <2>2. /\ current' = current /\ current <= updates /\ current \in Int
        /\ durable' = durable /\ durable <= updates /\ durable \in Int
    BY DEF StartUpdate, fileVars, ReleaseInv, CandidateInv, TypeOK, Releases
  <2> QED
    BY <1>1, <2>1, <2>2 DEF CandidateInv
<1>5. RemovalInv'
  BY <1>1 DEF RemovalInv
<1> QED
  BY <1>2, <1>3, <1>4, <1>5, LaunchesKept, UsableKept
  DEF StartUpdate, ReleaseInv, fileVars, launcherVars

LEMMA CancelInv ==
    ASSUME ReleaseAssumption, ReleaseInv, Cancel
    PROVE  ReleaseInv'
<1>1. script # <<>> /\ Head(script) = "cancel" /\ alive' = alive /\ Done
  BY DEF Cancel, Runs
<1>2. ScriptInv' /\ step' = "start" /\ Left \in {14, 11, 2} /\ alive /\ Left' = Left - 1
  BY <1>1, PlaceOfCommand, Advance DEF ReleaseInv, Cancel, Runs
<1>3. TypeOK'
  <2>1. pending' \in [release : Releases, owner : 0..NumUpdates]
    BY DEF Cancel, NoTrial, Releases, ReleaseAssumption
  <2> QED
    BY <1>2, <2>1 DEF Cancel, ReleaseInv, TypeOK, launcherVars
<1>4. CandidateInv'
  <2>1. Left' \in {13, 10, 1}
    BY <1>2
  <2> QED
    BY <1>2, <2>1 DEF Cancel, ReleaseInv, CandidateInv
<1>5. RemovalInv'
  BY <1>2 DEF RemovalInv, Cancel
<1>6. CommittedIsUsable'
  BY DEF Cancel, ReleaseInv, CommittedIsUsable, CommittedIsComplete, CommittedIsGood, Complete
<1> QED
  BY <1>2, <1>3, <1>4, <1>5, <1>6, LaunchesKept DEF Cancel, ReleaseInv

\* The committed release was flushed before anything is removed.
LEMMA FlushedBefore ==
    ASSUME ReleaseInv, script # <<>>, Head(script) # "cancel", step # "replaced"
    PROVE  durable = current
BY PlaceOfCommand DEF ReleaseInv, RemovalInv

LEMMA CollectInv ==
    ASSUME ReleaseAssumption, ReleaseInv, Collect
    PROVE  ReleaseInv'
<1>1. script # <<>> /\ Head(script) = "collect" /\ step' = "look"
  BY DEF Collect, Runs
<1>2. Left \in {13, 9, 1} /\ durable = current
  BY <1>1, PlaceOfCommand, FlushedBefore DEF Collect, Runs, ReleaseInv
<1>3. TypeOK'
  <2>1. Staged \subseteq {"code", "env"} \X Releases
    BY DEF ReleaseInv, TypeOK, Staged
  <2> QED
    BY <2>1 DEF Collect, ReleaseInv, TypeOK, fileVars, launcherVars
<1>4. ScriptInv'
  BY <1>1 DEF Collect, ReleaseInv, ScriptInv
<1>5. CandidateInv'
  <2>1. Left' = Left
    BY DEF Collect, Left
  <2> QED
    BY <1>2, <2>1 DEF Collect, ReleaseInv, CandidateInv, fileVars
<1>6. RemovalInv'
  BY <1>1, <1>2 DEF Collect, RemovalInv, fileVars
<1> QED
  BY <1>3, <1>4, <1>5, <1>6, LaunchesKept, UsableKept
  DEF Collect, ReleaseInv, fileVars, launcherVars

\* The collector looks at an item: it goes on, or what it removes is not the
\* committed release's.
LEMMA LookInv ==
    ASSUME ReleaseAssumption, ReleaseInv, NEW item \in doomed, KeepItem(item) \/ DoomItem(item)
    PROVE  ReleaseInv'
<1>1. /\ script # <<>> /\ Head(script) = "collect" /\ step = "look"
      /\ script' = script /\ alive' = alive
      /\ UNCHANGED <<fileVars, launcherVars, updates, trap, stable, faults>>
      /\ step' \in {"look", "remove"}
      /\ doomed' \subseteq doomed
  BY DEF KeepItem, DoomItem, Runs
<1>2. Left \in {13, 9, 1} /\ durable = current
  BY <1>1, PlaceOfCommand, FlushedBefore DEF ReleaseInv
<1>3. TypeOK'
  BY <1>1 DEF ReleaseInv, TypeOK, fileVars, launcherVars
<1>4. ScriptInv'
  BY <1>1 DEF ReleaseInv, ScriptInv
<1>5. CandidateInv'
  <2>1. Left' = Left
    BY <1>1 DEF Left
  <2> QED
    BY <1>1, <1>2, <2>1 DEF ReleaseInv, CandidateInv, fileVars
<1>6. RemovalInv'
  <2>1. step' = "remove" => doomed' = {item} /\ ~Keep(item)
    BY <1>1 DEF KeepItem, DoomItem
  <2>2. ~Keep(item) => item # <<"code", current>> /\ item # <<"env", venv[current]>>
    BY DEF Keep, Protected
  <2> QED
    BY <1>1, <1>2, <2>1, <2>2 DEF RemovalInv, fileVars
<1> QED
  BY <1>1, <1>3, <1>4, <1>5, <1>6, LaunchesKept, UsableKept
  DEF ReleaseInv, fileVars, launcherVars

LEMMA RemoveItemInv ==
    ASSUME ReleaseAssumption, ReleaseInv, RemoveItem
    PROVE  ReleaseInv'
<1>1. /\ script # <<>> /\ Head(script) = "collect" /\ step = "remove" /\ alive' = alive
      /\ UNCHANGED <<good, venv, current, durable, pending, marker, launcherVars, updates,
                     trap, stable, faults>>
  BY DEF RemoveItem, Runs
<1>2. Left \in {13, 9, 1} /\ durable = current
  BY <1>1, PlaceOfCommand, FlushedBefore DEF ReleaseInv
<1>3. /\ ScriptInv' /\ Left' \in {13, 9, 1, 0} /\ step' \in {"look", "start"}
  <2>1. CASE alive
    BY <1>1, <1>2, <2>1 DEF RemoveItem, ReleaseInv, ScriptInv, Left
  <2>2. CASE ~alive
    BY <1>1, <2>2, Advance DEF RemoveItem, ReleaseInv
  <2> QED
    BY <2>1, <2>2
<1>4. TypeOK'
  <2>1. dirs' \subseteq Releases /\ envs' \subseteq Releases
    BY DEF RemoveItem, ReleaseInv, TypeOK
  <2>2. Staged' \subseteq {"code", "env"} \X Releases
    BY <2>1 DEF Staged
  <2>3. doomed' \subseteq {"code", "env"} \X Releases
    BY <2>2 DEF RemoveItem
  <2> QED
    BY <1>1, <1>3, <2>1, <2>3 DEF ReleaseInv, TypeOK, launcherVars
<1>5. CandidateInv'
  <2>1. CASE alive
    <3>1. Left' = Left
      BY <2>1 DEF RemoveItem, Left
    <3> QED
      BY <1>1, <1>2, <3>1 DEF ReleaseInv, CandidateInv
  <2>2. CASE ~alive
    <3>1. Left' = 0
      BY <1>1, <2>2, Advance DEF RemoveItem, ReleaseInv
    <3> QED
      BY <1>1, <3>1 DEF ReleaseInv, CandidateInv
  <2> QED
    BY <2>1, <2>2
<1>6. RemovalInv'
  BY <1>1, <1>2, <1>3 DEF RemovalInv
<1>7. CommittedIsUsable'
  <2>1. current \in dirs' /\ venv[current] \in envs'
    BY <1>1 DEF RemoveItem, ReleaseInv, RemovalInv, CommittedIsUsable, CommittedIsComplete, Complete
  <2> QED
    BY <1>1, <1>2, <2>1 DEF ReleaseInv, CommittedIsUsable, CommittedIsComplete, CommittedIsGood, Complete
<1> QED
  BY <1>1, <1>3, <1>4, <1>5, <1>6, <1>7, LaunchesKept DEF ReleaseInv

\* A command that changes nothing but the updater's own state.
LEMMA QuietCommandInv ==
    ASSUME ReleaseAssumption, ReleaseInv, CollectDone \/ SetTrap \/ Committed
    PROVE  ReleaseInv'
<1>1. /\ script # <<>> /\ Head(script) \in {"collect", "trap", "committed"} /\ step # "replaced"
      /\ Done /\ alive' = alive
      /\ UNCHANGED <<fileVars, launcherVars, updates, stable, doomed, faults>>
      /\ trap' \in BOOLEAN
  BY DEF CollectDone, SetTrap, Committed, Runs, ReleaseInv, TypeOK
<1>2. /\ Left \in {13, 9, 1, 10, 3} /\ durable = current
      /\ ScriptInv' /\ step' = "start" /\ Left' = IF alive THEN Left - 1 ELSE 0
  BY <1>1, PlaceOfCommand, FlushedBefore, Advance DEF ReleaseInv
<1>3. TypeOK'
  BY <1>1, <1>2 DEF ReleaseInv, TypeOK, fileVars, launcherVars
<1>4. CandidateInv'
  <2>1. (Left' \in {12, 9, 8} /\ Left >= 5) \/ Left' < 4
    BY <1>2
  <2> QED
    BY <1>1, <1>2, <2>1 DEF ReleaseInv, CandidateInv, fileVars
<1>5. RemovalInv'
  BY <1>1, <1>2 DEF RemovalInv, fileVars
<1> QED
  BY <1>1, <1>2, <1>3, <1>4, <1>5, LaunchesKept, UsableKept
  DEF ReleaseInv, fileVars, launcherVars

LEMMA RetireInv ==
    ASSUME ReleaseAssumption, ReleaseInv, Retire
    PROVE  ReleaseInv'
<1>1. /\ script # <<>> /\ Head(script) = "retire" /\ step = "start" /\ Done /\ alive' = alive
      /\ UNCHANGED <<good, dirs, venv, current, durable, pending, marker, launcherVars,
                     updates, trap, stable, doomed, faults>>
  BY DEF Retire, Runs
<1>2. /\ Left \in {12, 2} /\ durable = current /\ alive
      /\ ScriptInv' /\ step' = "start" /\ Left' = Left - 1
  BY <1>1, PlaceOfCommand, FlushedBefore, Advance DEF ReleaseInv
<1>3. envs' \subseteq envs /\ venv[current] \in envs'
  BY DEF Retire, ReleaseInv, CommittedIsUsable, CommittedIsComplete, Complete
<1>4. TypeOK'
  BY <1>1, <1>2, <1>3 DEF ReleaseInv, TypeOK, launcherVars
<1>5. CandidateInv'
  <2>1. Left' \in {11, 1}
    BY <1>2
  <2> QED
    BY <1>1, <1>2, <2>1 DEF ReleaseInv, CandidateInv
<1>6. RemovalInv'
  BY <1>1, <1>2 DEF RemovalInv
<1>7. CommittedIsUsable'
  BY <1>1, <1>2, <1>3
  DEF ReleaseInv, CommittedIsUsable, CommittedIsComplete, CommittedIsGood, Complete
<1> QED
  BY <1>1, <1>2, <1>4, <1>5, <1>6, <1>7, LaunchesKept DEF ReleaseInv

\* The candidate is staged beside the committed release.
LEMMA BuildInv ==
    ASSUME ReleaseAssumption, ReleaseInv, Build
    PROVE  ReleaseInv'
<1>1. /\ script # <<>> /\ Head(script) = "build" /\ step = "start" /\ Done /\ alive' = alive
      /\ UNCHANGED <<good, current, durable, pending, marker, launcherVars, updates, trap,
                     stable, doomed, faults>>
  BY DEF Build, Runs
<1>2. /\ Left = 8 /\ durable = current
      /\ ScriptInv' /\ step' = "start" /\ Left' = 7
  BY <1>1, PlaceOfCommand, FlushedBefore, Advance DEF ReleaseInv
<1>3. current < updates /\ current \in Releases /\ updates \in Releases
  BY <1>2 DEF ReleaseInv, CandidateInv, TypeOK, Releases
<1>4. /\ dirs' = dirs \cup {updates} /\ envs' \in SUBSET Releases /\ envs \subseteq envs'
      /\ venv' \in [Releases -> Releases]
      /\ venv'[updates] \in envs'
      /\ venv'[current] = venv[current]
  <2>1. venv[current] \in envs /\ venv[current] \in Releases
    BY <1>3 DEF ReleaseInv, TypeOK, CommittedIsUsable, CommittedIsComplete, Complete
  <2>2. current # updates
    BY <1>3 DEF Releases
  <2>3. CASE venv' = [venv EXCEPT ![updates] = venv[current]] /\ envs' = envs
    BY <1>3, <2>1, <2>2, <2>3 DEF Build, Candidate, ReleaseInv, TypeOK
  <2>4. CASE venv' = [venv EXCEPT ![updates] = updates] /\ envs' = envs \cup {updates}
    BY <1>3, <2>1, <2>2, <2>4 DEF Build, Candidate, ReleaseInv, TypeOK
  <2> QED
    BY <2>3, <2>4 DEF Build, Candidate
<1>5. TypeOK'
  BY <1>1, <1>2, <1>3, <1>4 DEF ReleaseInv, TypeOK, launcherVars
<1>6. CandidateInv'
  <2>1. Complete(Candidate)'
    BY <1>1, <1>4 DEF Complete, Candidate
  <2> QED
    BY <1>1, <1>2, <1>3, <2>1 DEF ReleaseInv, CandidateInv
<1>7. RemovalInv'
  BY <1>1, <1>2 DEF RemovalInv
<1>8. CommittedIsUsable'
  BY <1>1, <1>2, <1>4
  DEF ReleaseInv, CommittedIsUsable, CommittedIsComplete, CommittedIsGood, Complete
<1> QED
  BY <1>1, <1>2, <1>5, <1>6, <1>7, <1>8, LaunchesKept DEF ReleaseInv

LEMMA PrepareInv ==
    ASSUME ReleaseAssumption, ReleaseInv, Prepare
    PROVE  ReleaseInv'
<1>1. /\ script # <<>> /\ Head(script) = "prepare" /\ step = "start" /\ Done /\ alive' = alive
      /\ UNCHANGED <<good, dirs, envs, venv, current, durable, marker, launcherVars,
                     updates, trap, stable, doomed, faults>>
      /\ pending' = [release |-> Candidate, owner |-> updates]
  BY DEF Prepare, Runs
<1>2. /\ Left = 7 /\ durable = current
      /\ ScriptInv' /\ step' = "start" /\ Left' = 6
  BY <1>1, PlaceOfCommand, FlushedBefore, Advance DEF ReleaseInv
<1>3. TypeOK'
  <2>1. pending' \in [release : Releases, owner : 0..NumUpdates]
    BY <1>1 DEF ReleaseInv, TypeOK, Candidate, Releases
  <2> QED
    BY <1>1, <1>2, <2>1 DEF ReleaseInv, TypeOK, launcherVars
<1>4. CandidateInv'
  BY <1>1, <1>2 DEF ReleaseInv, CandidateInv, Complete, Candidate
<1>5. RemovalInv'
  BY <1>1, <1>2 DEF RemovalInv
<1> QED
  BY <1>1, <1>2, <1>3, <1>4, <1>5, LaunchesKept, UsableKept DEF ReleaseInv

LEMMA RestartInv ==
    ASSUME ReleaseAssumption, ReleaseInv, Restart
    PROVE  ReleaseInv'
<1>1. /\ script # <<>> /\ Head(script) = "restart" /\ step = "start" /\ Done /\ alive' = alive
      /\ UNCHANGED <<fileVars, launches, since, updates, trap, stable, doomed, faults>>
      /\ LauncherEnds /\ child' = NoLaunch
  BY DEF Restart, Runs
<1>2. /\ Left = 6 /\ durable = current
      /\ ScriptInv' /\ step' = "start" /\ Left' = 5
  BY <1>1, PlaceOfCommand, FlushedBefore, Advance DEF ReleaseInv
<1>3. TypeOK'
  BY <1>1, <1>2, NothingTypes DEF ReleaseInv, TypeOK, fileVars, LauncherEnds
<1>4. CandidateInv'
  BY <1>1, <1>2 DEF ReleaseInv, CandidateInv, Complete, Candidate, fileVars
<1>5. LaunchInv'
  BY <1>1 DEF LaunchInv, LauncherEnds
<1>6. RemovalInv'
  BY <1>1, <1>2 DEF RemovalInv, fileVars
<1> QED
  BY <1>1, <1>2, <1>3, <1>4, <1>5, <1>6, UsableKept DEF ReleaseInv, fileVars

\* A probe that finds the gate open found a good candidate.
LEMMA HealthInv ==
    ASSUME ReleaseAssumption, ReleaseInv, StartHealth \/ Probe
    PROVE  ReleaseInv'
<1>1. /\ script # <<>> /\ Head(script) = "health" /\ step \in {"start", "probe"} /\ alive' = alive
      /\ UNCHANGED <<fileVars, launcherVars, updates, trap, doomed, faults>>
  BY DEF StartHealth, Probe, Runs
<1>2. Left \in {5, 1} /\ durable = current /\ (alive <=> Left = 5)
  BY <1>1, PlaceOfCommand, FlushedBefore DEF ReleaseInv
<1>3. stable' \in 0..launches
  BY DEF StartHealth, Probe, ReleaseInv, TypeOK
<1>4. CASE script' = script /\ step' = "probe"
  <2>1. TypeOK'
    BY <1>1, <1>3, <1>4 DEF ReleaseInv, TypeOK, fileVars, launcherVars
  <2>2. ScriptInv'
    BY <1>1, <1>4 DEF ReleaseInv, ScriptInv
  <2>3. CandidateInv'
    BY <1>1, <1>2, <1>4 DEF ReleaseInv, CandidateInv, Complete, Candidate, Left, fileVars
  <2>4. RemovalInv'
    BY <1>1, <1>2, <1>4 DEF RemovalInv, fileVars
  <2> QED
    BY <1>1, <2>1, <2>2, <2>3, <2>4, LaunchesKept, UsableKept
    DEF ReleaseInv, fileVars, launcherVars
<1>5. CASE InOrder /\ Done
  <2>1. ScriptInv' /\ step' = "start" /\ Left' = IF alive THEN Left - 1 ELSE 0
    BY <1>1, <1>5, Advance DEF ReleaseInv
  <2>2. TypeOK'
    BY <1>1, <1>3, <2>1 DEF ReleaseInv, TypeOK, fileVars, launcherVars
  <2>3. alive => Candidate \in good
    <3>1. marker.release = child.release /\ child.release \in good
      BY <1>5 DEF InOrder, ChildLives, ReleaseInv, LaunchInv
    <3>2. alive => pending.release = Candidate
      BY <1>2 DEF ReleaseInv, CandidateInv
    <3> QED
      BY <1>5, <3>1, <3>2 DEF InOrder
  <2>4. CandidateInv'
    <3>1. CASE alive
      <4>1. Left = 5 /\ Left' = 4
        BY <1>2, <2>1, <3>1
      <4> QED
        BY <1>1, <2>1, <2>3, <3>1, <4>1
        DEF ReleaseInv, CandidateInv, Complete, Candidate, fileVars
    <3>2. CASE ~alive
      <4>1. Left' = 0
        BY <2>1, <3>2
      <4> QED
        BY <1>1, <4>1 DEF ReleaseInv, CandidateInv, fileVars
    <3> QED
      BY <3>1, <3>2
  <2>5. RemovalInv'
    BY <1>1, <1>2, <2>1 DEF RemovalInv, fileVars
  <2> QED
    BY <1>1, <2>1, <2>2, <2>4, <2>5, LaunchesKept, UsableKept
    DEF ReleaseInv, fileVars, launcherVars
<1> QED
  BY <1>4, <1>5 DEF StartHealth, Probe, Runs

LEMMA CommitReplaceInv ==
    ASSUME ReleaseAssumption, ReleaseInv, CommitReplace
    PROVE  ReleaseInv'
<1>1. /\ script # <<>> /\ Head(script) = "commit" /\ step = "start"
      /\ script' = script /\ alive' = alive /\ step' = "replaced" /\ current' = Candidate
      /\ UNCHANGED <<good, dirs, envs, venv, durable, pending, marker, launcherVars, updates,
                     trap, stable, doomed, faults>>
  BY DEF CommitReplace, Runs
<1>2. Left = 4
  BY <1>1, PlaceOfCommand DEF ReleaseInv
<1>3. /\ Complete(Candidate) /\ Candidate \in good
      /\ durable < updates
  BY <1>1, <1>2 DEF ReleaseInv, CandidateInv
<1>4. TypeOK'
  BY <1>1 DEF ReleaseInv, TypeOK, launcherVars, Candidate, Releases
<1>5. ScriptInv'
  BY <1>1 DEF ReleaseInv, ScriptInv
<1>6. CandidateInv'
  <2>1. current' <= updates' /\ durable' <= updates' /\ Left' = 4
    BY <1>1, <1>2 DEF ReleaseInv, CandidateInv, Candidate, Left, TypeOK, Releases
  <2> QED
    BY <1>1, <1>3, <2>1 DEF CandidateInv, Complete, Candidate
<1>7. RemovalInv'
  BY <1>1 DEF RemovalInv
<1>8. CommittedIsUsable'
  BY <1>1, <1>3
  DEF ReleaseInv, CommittedIsUsable, CommittedIsComplete, CommittedIsGood, Complete
<1> QED
  BY <1>1, <1>4, <1>5, <1>6, <1>7, <1>8, LaunchesKept DEF ReleaseInv

LEMMA CommitSyncInv ==
    ASSUME ReleaseAssumption, ReleaseInv, CommitSync
    PROVE  ReleaseInv'
<1>1. /\ script # <<>> /\ Head(script) = "commit" /\ step = "replaced"
      /\ script' = script /\ alive' = alive /\ step' = "synced" /\ durable' = current
      /\ UNCHANGED <<good, dirs, envs, venv, current, pending, marker, launcherVars, updates,
                     trap, stable, doomed, faults>>
  BY DEF CommitSync, Runs
<1>2. Left \in {4, 1}
  BY <1>1, PlaceOfCommand DEF ReleaseInv
<1>3. TypeOK'
  BY <1>1 DEF ReleaseInv, TypeOK, launcherVars
<1>4. ScriptInv'
  BY <1>1 DEF ReleaseInv, ScriptInv
<1>5. CandidateInv'
  BY <1>1, <1>2 DEF ReleaseInv, CandidateInv, Complete, Candidate, Left
<1>6. RemovalInv'
  BY <1>1 DEF RemovalInv
<1>7. CommittedIsUsable'
  BY <1>1
  DEF ReleaseInv, CommittedIsUsable, CommittedIsComplete, CommittedIsGood, Complete
<1> QED
  BY <1>1, <1>3, <1>4, <1>5, <1>6, <1>7, LaunchesKept DEF ReleaseInv

LEMMA CommitUnlinkInv ==
    ASSUME ReleaseAssumption, ReleaseInv, CommitUnlink
    PROVE  ReleaseInv'
<1>1. /\ script # <<>> /\ Head(script) = "commit" /\ step = "synced" /\ Done /\ alive' = alive
      /\ pending' = NoTrial
      /\ UNCHANGED <<good, dirs, envs, venv, current, durable, marker, launcherVars, updates,
                     trap, stable, doomed, faults>>
  BY DEF CommitUnlink, Runs
<1>2. /\ Left \in {4, 1} /\ durable = current
      /\ ScriptInv' /\ step' = "start" /\ Left' = IF alive THEN Left - 1 ELSE 0
  BY <1>1, PlaceOfCommand, FlushedBefore, Advance DEF ReleaseInv
<1>3. TypeOK'
  <2>1. pending' \in [release : Releases, owner : 0..NumUpdates]
    BY <1>1 DEF NoTrial, Releases, ReleaseAssumption
  <2> QED
    BY <1>1, <1>2, <2>1 DEF ReleaseInv, TypeOK, launcherVars
<1>4. CandidateInv'
  <2>1. Left' < 4 /\ Left' \in Int
    BY <1>2
  <2> QED
    BY <1>1, <2>1 DEF ReleaseInv, CandidateInv
<1>5. RemovalInv'
  BY <1>1, <1>2 DEF RemovalInv
<1> QED
  BY <1>1, <1>2, <1>3, <1>4, <1>5, LaunchesKept, UsableKept DEF ReleaseInv

\* The exit trap, or an orphan that meets its deadline.
LEMMA CutShort ==
    ASSUME ReleaseAssumption, ReleaseInv, finish_update
    PROVE  ReleaseInv'
<1>1. /\ script' \in {ExitScript, <<>>} /\ step' = "start"
      /\ UNCHANGED <<fileVars, launcherVars, updates, faults>>
      /\ alive' = trap /\ ~trap' /\ trap' \in BOOLEAN /\ doomed' = {} /\ stable' = 0
      /\ ~trap => script' = <<>>
  BY DEF finish_update
<1>2. Left' \in {2, 0}
  BY <1>1, ShortScripts DEF Left
<1>3. TypeOK'
  <2>1. stable' \in 0..launches /\ alive' \in BOOLEAN
    BY <1>1, NothingTypes DEF ReleaseInv, TypeOK
  <2> QED
    BY <1>1, <2>1 DEF ReleaseInv, TypeOK, fileVars, launcherVars
<1>4. ScriptInv'
  BY <1>1 DEF ScriptInv
<1>5. CandidateInv'
  BY <1>1, <1>2 DEF ReleaseInv, CandidateInv, fileVars
<1>6. RemovalInv'
  BY <1>1 DEF RemovalInv
<1> QED
  BY <1>1, <1>3, <1>4, <1>5, <1>6, LaunchesKept, UsableKept
  DEF ReleaseInv, fileVars, launcherVars

LEMMA HealthTimeoutInv ==
    ASSUME ReleaseAssumption, ReleaseInv, HealthTimeout
    PROVE  ReleaseInv'
<1>1. CASE alive
  BY <1>1, CutShort DEF HealthTimeout
<1>2. CASE ~alive
  <2>1. /\ script # <<>> /\ Head(script) = "health" /\ step = "probe" /\ Done
        /\ alive' = alive /\ stable' = 0
        /\ UNCHANGED <<fileVars, launcherVars, updates, trap, doomed, faults>>
    BY <1>2 DEF HealthTimeout, Runs
  <2>2. ScriptInv' /\ step' = "start" /\ Left' = 0 /\ durable = current
    BY <1>2, <2>1, Advance, FlushedBefore DEF ReleaseInv
  <2>3. TypeOK'
    BY <2>1, <2>2 DEF ReleaseInv, TypeOK, fileVars, launcherVars
  <2>4. CandidateInv'
    BY <2>1, <2>2 DEF ReleaseInv, CandidateInv, fileVars
  <2>5. RemovalInv'
    BY <2>1, <2>2 DEF RemovalInv, fileVars
  <2> QED
    BY <2>1, <2>2, <2>3, <2>4, <2>5, LaunchesKept, UsableKept
    DEF ReleaseInv, fileVars, launcherVars
<1> QED
  BY <1>1, <1>2

\* The last command was run, or a kill leaves the command in progress alone.
LEMMA ShellEndsInv ==
    ASSUME ReleaseAssumption, ReleaseInv, Exit \/ Kill
    PROVE  ReleaseInv'
<1>1. /\ alive /\ ~alive' /\ alive' \in BOOLEAN /\ step' = step /\ trap' \in BOOLEAN
      /\ UNCHANGED <<fileVars, launcherVars, updates, stable, doomed, faults>>
      /\ script' = IF step = "start" THEN <<>> ELSE <<Head(script)>>
  BY DEF Exit, Kill, ReleaseInv, TypeOK, ScriptInv
<1>2. step # "start" => script # <<>> /\ Head(script) \in {"collect", "health", "commit"}
  BY DEF ReleaseInv, ScriptInv
<1>3. Left' \in {0, 1}
  BY <1>1, <1>2, ShortScripts DEF Left
<1>4. TypeOK'
  BY <1>1 DEF ReleaseInv, TypeOK, fileVars, launcherVars
<1>5. ScriptInv'
  BY <1>1, <1>2, ShortScripts DEF ReleaseInv, ScriptInv
<1>6. CandidateInv'
  BY <1>1, <1>3 DEF ReleaseInv, CandidateInv, fileVars
<1>7. RemovalInv'
  <2>1. step # "start" /\ step # "replaced" => durable = current
    BY <1>2, FlushedBefore
  <2> QED
    BY <1>1, <2>1 DEF ReleaseInv, RemovalInv, fileVars
<1> QED
  BY <1>1, <1>4, <1>5, <1>6, <1>7, LaunchesKept, UsableKept
  DEF ReleaseInv, fileVars, launcherVars

LEMMA ChildCrashInv ==
    ASSUME ReleaseAssumption, ReleaseInv, ChildCrash
    PROVE  ReleaseInv'
<1>1. /\ child' = NoLaunch /\ faults' \in 0..MaxFaults
      /\ UNCHANGED <<fileVars, updaterVars, phase, running, seen, rejected, launches, since>>
  BY DEF ChildCrash, ReleaseInv, TypeOK, ReleaseAssumption
<1>2. TypeOK'
  BY <1>1, NothingTypes DEF ReleaseInv, TypeOK, fileVars, updaterVars
<1>3. ScriptInv'
  BY <1>1 DEF ReleaseInv, ScriptInv, updaterVars
<1>4. CandidateInv'
  BY <1>1 DEF ReleaseInv, CandidateInv, Complete, Candidate, Left, fileVars, updaterVars
<1>5. LaunchInv'
  BY <1>1 DEF ReleaseInv, LaunchInv, fileVars
<1>6. RemovalInv'
  BY <1>1 DEF ReleaseInv, RemovalInv, fileVars, updaterVars
<1> QED
  BY <1>1, <1>2, <1>3, <1>4, <1>5, <1>6, UsableKept DEF ReleaseInv, fileVars

LEMMA PowerFailureInv ==
    ASSUME ReleaseAssumption, ReleaseInv, PowerFailure
    PROVE  ReleaseInv'
<1>1. /\ current' \in {current, durable} /\ durable' = current'
      /\ ~alive' /\ script' = <<>> /\ step' = "start" /\ alive' \in BOOLEAN /\ trap' \in BOOLEAN /\ doomed' = {} /\ stable' = 0
      /\ LauncherEnds /\ child' = NoLaunch
      /\ UNCHANGED <<good, dirs, envs, venv, pending, marker, updates, launches, since>>
  BY DEF PowerFailure
<1>2. TypeOK'
  <2>1. faults' \in 0..MaxFaults
    BY DEF PowerFailure, ReleaseInv, TypeOK, ReleaseAssumption
  <2> QED
    BY <1>1, <2>1, NothingTypes DEF ReleaseInv, TypeOK, LauncherEnds
<1>3. ScriptInv'
  BY <1>1 DEF ScriptInv
<1>4. CandidateInv'
  <2>1. Left' = 0
    BY <1>1, ShortScripts DEF Left
  <2> QED
    BY <1>1, <2>1 DEF ReleaseInv, CandidateInv
<1>5. LaunchInv'
  BY <1>1 DEF LaunchInv, LauncherEnds
<1>6. RemovalInv'
  BY <1>1 DEF RemovalInv
<1>7. CommittedIsUsable'
  BY <1>1
  DEF ReleaseInv, CommittedIsUsable, CommittedIsComplete, CommittedIsGood, Complete
<1> QED
  BY <1>2, <1>3, <1>4, <1>5, <1>6, <1>7 DEF ReleaseInv

LEMMA ReleaseNextInv ==
    ASSUME ReleaseAssumption, ReleaseInv, Next
    PROVE  ReleaseInv'
<1>1. CASE CommandNext
  BY <1>1, CancelInv, CollectInv, LookInv, RemoveItemInv, QuietCommandInv, RetireInv,
     BuildInv, PrepareInv, RestartInv, HealthInv, CommitReplaceInv, CommitSyncInv,
     CommitUnlinkInv, ShellEndsInv
  DEF CommandNext
<1>2. CASE FaultNext
  BY <1>2, CutShort, ShellEndsInv, ChildCrashInv, PowerFailureInv DEF FaultNext, Interrupt
<1> QED
  BY <1>1, <1>2, LauncherKeeps, StartUpdateInv, HealthTimeoutInv DEF Next

LEMMA ReleaseStutterInv ==
    ASSUME ReleaseInv, UNCHANGED vars
    PROVE  ReleaseInv'
<1>1. UNCHANGED <<good, dirs, envs, venv, current, durable, pending, marker, launcherVars>>
      /\ UNCHANGED <<updates, alive, script, step, trap, stable, doomed, faults>>
  BY DEF vars, fileVars, updaterVars
<1>2. TypeOK'
  BY <1>1 DEF ReleaseInv, TypeOK, launcherVars
<1>3. ScriptInv'
  BY <1>1 DEF ReleaseInv, ScriptInv
<1>4. CandidateInv'
  BY <1>1 DEF ReleaseInv, CandidateInv, Complete, Candidate, Left
<1>5. RemovalInv'
  BY <1>1 DEF ReleaseInv, RemovalInv
<1> QED
  BY <1>1, <1>2, <1>3, <1>4, <1>5, LaunchesKept, UsableKept DEF ReleaseInv

\* Wherever two updates, or two thousand, are cut short, the committed release is
\* on disk with its environment and came up before it was committed: neither the
\* collector nor the retirement of the original environment nor the gate is ever
\* wrong, for any number of updates, crashes and power failures.
\* (kiosk_release.py collect, retire_original_venv, healthy, commit; update.sh)
THEOREM CommittedStaysUsable == Spec => []CommittedIsUsable
<1>1. Init => ReleaseInv
  BY ReleaseInitInv, ReleaseHolds
<1>2. ReleaseInv /\ [Next]_vars => ReleaseInv'
  BY ReleaseNextInv, ReleaseStutterInv, ReleaseHolds
<1>3. ReleaseInv => CommittedIsUsable
  BY DEF ReleaseInv
<1> QED
  BY <1>1, <1>2, <1>3, PTL DEF Spec
=============================================================================

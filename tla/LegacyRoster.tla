---------------------------- MODULE LegacyRoster ----------------------------
(***************************************************************************)
(* The roster of a kiosk without receipts (src/convex/kiosks.ts,           *)
(* src/src/app/api/sync/route.ts): it sends back the timestamp of the last *)
(* answer it applied, and the portal remembers which sequence of changes   *)
(* its last two timestamps stand for.  Before, timestamps were those of a  *)
(* server's clock, perhaps ahead of the others, and stood for nothing that *)
(* is remembered.                                                          *)
(*                                                                         *)
(* The roster is the number of its last change and is read at once: its    *)
(* pages are in RosterReceipts.  A database of before employee ids, for    *)
(* which a kiosk asks for all workers until it has them, is left out.      *)
(***************************************************************************)
EXTENDS Integers, Sequences

CONSTANTS
    Slots,          \* requests at a time
    Remembered,     \* the timestamps a device may have from before
    MaxTime, MaxToken, MaxSequence    \* bounds

LegacyRosterAssumption ==
    /\ {MaxTime, MaxToken, MaxSequence} \subseteq Nat \ {0}
    /\ Remembered \subseteq Nat
    /\ 0 \notin Slots

VARIABLES
    clock,          \* of the portal's servers, which may be set back
    rosterSequence,
    cursors,        \* legacyRosterCursors, latest first
    since,          \* the device's last_worker_sync
    held,           \* the changes it has applied
    waiting,        \* the request it waits for; 0 for none
    requests        \* [Slots -> request]

vars == <<clock, rosterSequence, cursors, since, held, waiting, requests>>

None == [step |-> "none"]
At(s, step) == requests[s].step = step

Init ==
    /\ clock = 1
    /\ rosterSequence = 1
    /\ cursors = <<>>
    /\ since \in Remembered
    /\ held = {}
    /\ waiting = 0
    /\ requests = [s \in Slots |-> None]

\* A worker is changed.
WriteWorker ==
    /\ rosterSequence < MaxSequence
    /\ rosterSequence' = rosterSequence + 1
    /\ UNCHANGED <<clock, cursors, since, held, waiting, requests>>

SetClock ==
    /\ clock' \in 1..MaxTime
    /\ UNCHANGED <<rosterSequence, cursors, since, held, waiting, requests>>

\* The device asks, and gives up what it waited for.
Ask ==
    \E s \in Slots :
        /\ At(s, "none")
        /\ requests' = [requests EXCEPT ![s] = [step |-> "asked", since |-> since]]
        /\ waiting' = s
        /\ UNCHANGED <<clock, rosterSequence, cursors, since, held>>

\* A slip: the timestamp may be the one that was asked about.
AnyTimestamp(asked) ==
    IF cursors = <<>> \/ cursors[1].issuedAt < clock THEN clock
    ELSE cursors[1].issuedAt + 1

\* Later than all before, and not by chance the one that was asked about.
Timestamp(asked) ==
    LET candidate == IF cursors = <<>> \/ cursors[1].issuedAt < clock THEN clock
                     ELSE cursors[1].issuedAt + 1
    IN IF candidate = asked THEN candidate + 1 ELSE candidate

\* What a timestamp is known to stand for; of others the whole roster is read.
Known(asked) ==
    LET same == {i \in DOMAIN cursors : cursors[i].issuedAt = asked}
    IN IF same = {} THEN 0 ELSE cursors[CHOOSE i \in same : TRUE].sequence

\* The sequence is read before the roster, in one transaction with the cursor.
issueLegacyRosterCursor ==
    \E s \in Slots :
        /\ At(s, "asked")
        /\ LET asked == requests[s].since
               token == Timestamp(asked)
               all == <<[issuedAt |-> token, sequence |-> rosterSequence]>> \o cursors
           IN /\ token <= MaxToken
              /\ cursors' = SubSeq(all, 1, IF Len(all) < 2 THEN Len(all) ELSE 2)
              /\ requests' = [requests EXCEPT ![s] =
                                [step |-> "issued", token |-> token, from |-> Known(asked)]]
        /\ UNCHANGED <<clock, rosterSequence, since, held, waiting>>

\* Changes since the sequence are read and sent.
fetchWorkersForSync ==
    \E s \in Slots :
        /\ At(s, "issued")
        /\ requests' = [requests EXCEPT ![s] =
                          [step |-> "answered", token |-> @.token,
                           workers |-> (@.from + 1)..rosterSequence]]
        /\ UNCHANGED <<clock, rosterSequence, cursors, since, held, waiting>>

\* The device applies the answer it waits for, worker by worker, and then stores
\* the timestamp, unless a worker is refused or it stops.
Apply ==
    \E s \in Slots :
        /\ At(s, "answered") /\ waiting = s
        /\ LET answer == requests[s]
           IN \/ /\ held' = held \cup answer.workers
                 /\ since' = answer.token
              \/ /\ \E applied \in SUBSET answer.workers : held' = held \cup applied
                 /\ UNCHANGED since
        /\ waiting' = 0
        /\ requests' = [requests EXCEPT ![s] = None]
        /\ UNCHANGED <<clock, rosterSequence, cursors>>

\* A request or an answer is lost, or comes when nobody waits for it.
Lose ==
    \E s \in Slots :
        /\ At(s, "asked") \/ At(s, "answered")
        /\ requests' = [requests EXCEPT ![s] = None]
        /\ waiting' = IF waiting = s THEN 0 ELSE waiting
        /\ UNCHANGED <<clock, rosterSequence, cursors, since, held>>

Next ==
    \/ WriteWorker \/ SetClock \/ Ask \/ issueLegacyRosterCursor
    \/ fetchWorkersForSync \/ Apply \/ Lose

Spec == Init /\ [][Next]_vars

-----------------------------------------------------------------------------
\* "Never infer a sequence from wall time": if the portal recognizes the
\* timestamp a device holds, the device has every change up to the sequence it
\* stands for, whatever was lost, given up, repeated or remembered from before,
\* and whatever the clocks do.  (issueLegacyRosterCursorFromHttp)
NothingSkipped ==
    \A i \in DOMAIN cursors :
        cursors[i].issuedAt = since => 1..cursors[i].sequence \subseteq held
=============================================================================

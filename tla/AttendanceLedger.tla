-------------------------- MODULE AttendanceLedger --------------------------
(***************************************************************************)
(* What the attendance upload promises about a scan the kiosk recorded: it *)
(* is in the queue, on the server's books, or set aside for a supervisor.  *)
(* It leaves the queue only when it is on the books or was refused, and it *)
(* is never set aside once it is on the books.                             *)
(***************************************************************************)
EXTENDS Naturals

CONSTANT Logs

VARIABLES
    recorded,   \* scans the kiosk recorded
    queue,      \* scans the kiosk still owes the server
    ledger,     \* scans on the server's books
    aside       \* scans quarantined with the reason of their refusal

vars == <<recorded, queue, ledger, aside>>

Init ==
    /\ recorded = {}
    /\ queue = {}
    /\ ledger = {}
    /\ aside = {}

Record(log) ==
    /\ log \notin recorded
    /\ recorded' = recorded \cup {log}
    /\ queue' = queue \cup {log}
    /\ UNCHANGED <<ledger, aside>>

\* The server books a whole batch or nothing; a repeated batch adds nothing.
Accept(batch) ==
    /\ batch \subseteq queue \cup ledger
    /\ ledger' = ledger \cup batch
    /\ UNCHANGED <<recorded, queue, aside>>

Confirm(batch) ==
    /\ batch \subseteq queue \cap ledger
    /\ queue' = queue \ batch
    /\ UNCHANGED <<recorded, ledger, aside>>

SetAside(log) ==
    /\ log \in queue \ ledger
    /\ queue' = queue \ {log}
    /\ aside' = aside \cup {log}
    /\ UNCHANGED <<recorded, ledger>>

Release(log) ==
    /\ log \in aside
    /\ aside' = aside \ {log}
    /\ queue' = queue \cup {log}
    /\ UNCHANGED <<recorded, ledger>>

Next ==
    \/ \E log \in Logs : Record(log) \/ SetAside(log) \/ Release(log)
    \/ \E batch \in SUBSET Logs : Accept(batch) \/ Confirm(batch)

Spec == Init /\ [][Next]_vars

-----------------------------------------------------------------------------

\* No scan is forgotten: what is neither owed nor set aside is on the books.
Accounted ==
    /\ recorded = queue \cup aside \cup ledger
    /\ aside \cap (queue \cup ledger) = {}
=============================================================================

---------------------------- MODULE ClockAction ----------------------------
(***************************************************************************)
(* The direction of a clock event, inferred from the kiosk's own history.  *)
(*                                                                         *)
(* Scans and manual clocks write concurrently with roster syncs that       *)
(* remove, restore and re-enroll workers and with the retention of the     *)
(* history; each is one write transaction.  A local worker id is used once;*)
(* a restored person gets another.  A person enrolled at the kiosk has no  *)
(* server id until the roster adopts the row, by name; the model has one   *)
(* row of a person at a time.  The wall clock may step either way.         *)
(*                                                                         *)
(* A repeated manual request finds its receipt, which the first one wrote  *)
(* in its transaction, and changes nothing: left out.  So are timestamps   *)
(* that an operator mends and those that cannot be read.                   *)
(***************************************************************************)
EXTENDS Integers

CONSTANTS
    People,           \* each with a server id
    KioskType,        \* entry, exit or auto
    MaxEvents,
    MaxLocal,         \* local worker ids
    MaxFaces,         \* enrollments of one person
    MaxWall,
    Retention,        \* the longer of history retention and debounce
    StaleAfter        \* AUTO_CLOCK_STALE_HOURS

ClockActionAssumption ==
    /\ "none" \notin People
    /\ {MaxEvents, MaxLocal, MaxFaces, MaxWall, Retention, StaleAfter} \subseteq Nat

VARIABLES
    wall,             \* the wall clock
    enrolled,         \* how often each person has been enrolled
    workers,          \* workers: by local id
    locals,           \* local ids 1..locals have been used
    log,              \* attendance_log
    events,           \* rows 1..events have been inserted
    scan,             \* the match in the camera loop's hand
    history           \* history: all events of each person

rosterVars == <<enrolled, workers, locals>>
logVars == <<log, events, history>>
vars == <<wall, rosterVars, logVars, scan>>

Locals == 1..MaxLocal
Wall == 0..MaxWall
NoServer == "none"
Gone == [person |-> NoServer, server |-> NoServer, face |-> 0]
NoScan == [worker |-> 0, server |-> NoServer, face |-> 0]
NoEvent == [id |-> 0, action |-> "none", epoch |-> 0]

Init ==
    /\ wall = 0
    /\ enrolled = [p \in People |-> 0]
    /\ workers = [i \in Locals |-> Gone]
    /\ locals = 0
    /\ log = {}
    /\ events = 0
    /\ scan = NoScan
    /\ history = [p \in People |-> {}]

StepClock(t) ==
    /\ t # wall
    /\ wall' = t
    /\ UNCHANGED <<rosterVars, logVars, scan>>

-----------------------------------------------------------------------------
(* The roster.                                                             *)

Here(i) == workers[i] # Gone
Row(p) == {i \in Locals : Here(i) /\ workers[i].person = p}

\* Another template of p: a row of p is updated and keeps its server id unless
\* it is given one; without a row of p one is added.
add_worker(p, server) ==
    /\ enrolled[p] < MaxFaces
    /\ enrolled' = [enrolled EXCEPT ![p] = @ + 1]
    /\ \/ \E i \in Row(p) :
            /\ workers' = [workers EXCEPT ![i].face = enrolled[p] + 1,
                    ![i].server = IF server = NoServer THEN @ ELSE server]
            /\ UNCHANGED locals
       \/ /\ Row(p) = {}
          /\ locals < MaxLocal
          /\ locals' = locals + 1
          /\ workers' = [workers EXCEPT ![locals + 1] =
                    [person |-> p, server |-> server, face |-> enrolled[p] + 1]]
    /\ UNCHANGED <<wall, logVars, scan>>

\* The roster brings a person back with the template of before.
Restore(p) ==
    /\ enrolled[p] > 0
    /\ Row(p) = {}
    /\ locals < MaxLocal
    /\ locals' = locals + 1
    /\ workers' = [workers EXCEPT ![locals + 1] =
                    [person |-> p, server |-> p, face |-> enrolled[p]]]
    /\ UNCHANGED <<wall, enrolled, logVars, scan>>

\* The trigger first writes the server id on events that lack it.  With a row
\* that has none the kiosk forgets whose the events were.
RemoveWorker(i) ==
    /\ Here(i)
    /\ log' = {IF row.worker = i /\ row.server = NoServer
               THEN [row EXCEPT !.server = workers[i].server] ELSE row :
               row \in log}
    /\ workers' = [workers EXCEPT ![i] = Gone]
    /\ history' = IF workers[i].server # NoServer THEN history
                  ELSE [history EXCEPT ![workers[i].person] =
                            {event \in @ : event.worker # i}]
    /\ UNCHANGED <<wall, enrolled, locals, events, scan>>

-----------------------------------------------------------------------------
(* Events.                                                                 *)

InScope(i) ==
    {row \in log : \/ row.worker = i
                   \/ workers[i].server # NoServer /\ row.server = workers[i].server}

_get_last_attendance(i) ==
    IF InScope(i) = {} THEN NoEvent
    ELSE LET row == CHOOSE row \in InScope(i) :
                        \A other \in InScope(i) : other.id <= row.id
         IN [id |-> row.id, action |-> row.action, epoch |-> row.epoch]

_infer_clock_action(i) ==
    LET last == _get_last_attendance(i) IN
    CASE KioskType = "entry" -> "clock_in"
      [] KioskType = "exit" -> "clock_out"
      [] OTHER -> IF \/ last.action # "clock_in"
                     \/ wall - last.epoch > StaleAfter
                  THEN "clock_in" ELSE "clock_out"

\* An action that is given is not inferred.
log_attendance(i, person, server, given) ==
    LET action == IF given = "none" THEN _infer_clock_action(i) ELSE given
        event == [id |-> events + 1, action |-> action, epoch |-> wall, worker |-> i,
                  inferred |-> given = "none"]
    IN
    /\ events < MaxEvents
    /\ events' = events + 1
    /\ log' = log \cup
            {[worker |-> i, id |-> events + 1, action |-> action, epoch |-> wall,
              server |-> server, synced |-> FALSE]}
    /\ history' = [history EXCEPT ![person] = @ \cup {event}]

record_manual_attendance(i, given) ==
    /\ Here(i)
    /\ log_attendance(i, workers[i].person, workers[i].server, given)
    /\ UNCHANGED <<wall, rosterVars, scan>>

Match(i) ==
    /\ scan = NoScan
    /\ Here(i)
    /\ scan' = [worker |-> i, server |-> workers[i].server, face |-> workers[i].face]
    /\ UNCHANGED <<wall, rosterVars, logVars>>

DropScan ==
    /\ scan # NoScan
    /\ scan' = NoScan
    /\ UNCHANGED <<wall, rosterVars, logVars>>

Owner(s) == IF s.server # NoServer THEN s.server ELSE workers[s.worker].person

\* A slip: whoever was matched is booked.
AnyMatch(s) == Owner(s) # NoServer

StillEnrolled(s) ==
    /\ Here(s.worker)
    /\ workers[s.worker].server = s.server
    /\ workers[s.worker].face = s.face

log_recognized_attendance ==
    /\ scan # NoScan
    /\ StillEnrolled(scan)
    /\ log_attendance(scan.worker, Owner(scan), scan.server, "none")
    /\ scan' = NoScan
    /\ UNCHANGED <<wall, rosterVars>>

mark_synced(row) ==
    /\ ~row.synced
    /\ log' = (log \ {row}) \cup {[row EXCEPT !.synced = TRUE]}
    /\ UNCHANGED <<wall, rosterVars, events, scan, history>>

\* A slip: only a worker's latest instant is kept.
KeepLatestInstant(row) ==
    \A other \in log : other.worker = row.worker =>
        \/ other.epoch < row.epoch
        \/ other.epoch = row.epoch /\ other.id <= row.id

\* Of each local id the latest instant and the last inserted event.
Kept(row) ==
    \/ \A other \in log : other.worker = row.worker =>
        \/ other.epoch < row.epoch
        \/ other.epoch = row.epoch /\ other.id <= row.id
    \/ \A other \in log : other.worker = row.worker => other.id <= row.id

\* No kept row becomes deletable by the deletion of others, so a batch deletes
\* as if one row after the other.
prune_synced_history(row) ==
    /\ row.synced
    /\ row.epoch < wall - Retention
    /\ ~Kept(row)
    /\ log' = log \ {row}
    /\ UNCHANGED <<wall, rosterVars, events, scan, history>>

-----------------------------------------------------------------------------
Roster ==
    \/ \E p \in People : \/ add_worker(p, NoServer) /\ Row(p) = {}
                         \/ add_worker(p, p)
                         \/ Restore(p)
    \/ \E i \in 1..locals : RemoveWorker(i)

Clocking ==
    \/ \E i \in 1..locals :
        \/ \E given \in {"none", "clock_in", "clock_out"} :
            record_manual_attendance(i, given)
        \/ Match(i)
    \/ DropScan
    \/ log_recognized_attendance

Next ==
    \/ \E t \in Wall : StepClock(t)
    \/ Roster
    \/ Clocking
    \/ \E row \in log :
        \/ mark_synced(row)
        \/ prune_synced_history(row)

Spec == Init /\ [][Next]_vars

-----------------------------------------------------------------------------
\* The events the kiosk should remember of worker i: all of the person, or
\* those of a row without a server id alone.
Remembered(i) ==
    {event \in history[workers[i].person] :
        workers[i].server = NoServer => event.worker = i}

IsLast(last, known) ==
    IF known = {} THEN last = NoEvent
    ELSE \E event \in known :
            /\ last = [id |-> event.id, action |-> event.action, epoch |-> event.epoch]
            /\ \A other \in known : other.id <= event.id

\* What direction and debounce are inferred from is the last event of the
\* person, though history was pruned, the wall clock stepped back, and the
\* person was adopted by the portal, or removed and restored under another id.
LastKnown ==
    \A i \in Locals : Here(i) => IsLast(_get_last_attendance(i), Remembered(i))

\* Who is inferred to leave came in last.
OutAfterIn ==
    \A p \in People : \A event \in history'[p] :
        /\ KioskType = "auto"
        /\ event.id > events
        /\ event.inferred
        /\ event.action = "clock_out"
        => \E last \in history[p] :
            /\ last.action = "clock_in"
            /\ \A other \in history[p] : other.id <= last.id

\* An automatic kiosk never infers that a person leaves twice in a row, also
\* when a match is written after its worker was removed and restored.
NoRepeatedOut == [][OutAfterIn]_vars
=============================================================================

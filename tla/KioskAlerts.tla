---------------------------- MODULE KioskAlerts ----------------------------
(***************************************************************************)
(* The cron that tells supervisors of kiosks in trouble and of recovery.   *)
(*                                                                         *)
(* A run reads kiosks and open alertState rows, sends one message per      *)
(* kiosk for what is new and one for what has cleared, and records the     *)
(* outcome in one transaction.  A cron does not overlap itself, and only   *)
(* it writes alertState, so a run's snapshot of the rows is the table.     *)
(* Kiosks change while a run sends.  A run may die anywhere.               *)
(*                                                                         *)
(* Of the five conditions three are kept: stale and offline, which exclude *)
(* each other, and fault, which stands for device_fault, queue_backlog and *)
(* never_synced.  Reminders, which repeat a message and touch only the     *)
(* time of a row, are left out.                                            *)
(***************************************************************************)
EXTENDS Integers

CONSTANTS
    Kiosks,
    MaxRefusals,      \* messages no channel accepted
    MaxDeaths         \* runs that died

VARIABLES
    active,           \* kiosks: active
    silence,          \* age of lastSync: fresh, stale or offline
    fault,            \* a scan-blocking fault is reported
    row,              \* alertState: none, open, or notified, of each condition
    check,            \* the run under way: what it saw and has sent
    told,             \* history: conditions the recipients take to persist
    unrecorded,       \* history: those told by a run that died
    refusals,
    deaths

kioskVars == <<active, silence, fault>>
vars == <<kioskVars, row, check, told, unrecorded, refusals, deaths>>

Conditions == {"stale", "offline", "fault"}
Nothing == [k \in Kiosks |-> {}]
IdleCheck == [pc |-> "idle", checked |-> {}, observed |-> Nothing,
            alerts |-> {}, recoveries |-> {},
            notified |-> Nothing, recovered |-> Nothing]

Init ==
    /\ active = [k \in Kiosks |-> TRUE]
    /\ silence = [k \in Kiosks |-> "fresh"]
    /\ fault = [k \in Kiosks |-> FALSE]
    /\ row = [k \in Kiosks |-> [c \in Conditions |-> "none"]]
    /\ check = IdleCheck
    /\ told = Nothing
    /\ unrecorded = Nothing
    /\ refusals = 0
    /\ deaths = 0

-----------------------------------------------------------------------------
(* What happens to a kiosk.                                                *)

Sync(k) ==
    /\ silence' = [silence EXCEPT ![k] = "fresh"]
    /\ \E f \in BOOLEAN : fault' = [fault EXCEPT ![k] = f]
    /\ UNCHANGED <<active, row, check, told, unrecorded, refusals, deaths>>

FallSilent(k) ==
    /\ silence' = [silence EXCEPT ![k] = IF @ = "fresh" THEN "stale" ELSE "offline"]
    /\ UNCHANGED <<active, fault, row, check, told, unrecorded, refusals, deaths>>

SetActive(k) ==
    /\ active' = [active EXCEPT ![k] = ~@]
    /\ UNCHANGED <<silence, fault, row, check, told, unrecorded, refusals, deaths>>

-----------------------------------------------------------------------------
(* A run.                                                                  *)

evaluateKioskAlerts(k) ==
    {c \in {"stale", "offline"} : silence[k] = c}
        \cup {c \in {"fault"} : fault[k]}

Due(k, observed) == {c \in observed : row[k][c] # "notified"}

Escalated(observed, c) == c = "stale" /\ "offline" \in observed

\* Told of, not seen any more, and not merely worse.
Cleared(k, observed) ==
    {c \in Conditions \ observed :
        row[k][c] = "notified" /\ ~Escalated(observed, c)}

\* loadState, evaluation and plan.
planKioskNotifications ==
    /\ check.pc = "idle"
    /\ LET checked == {k \in Kiosks : active[k]}
           observed == [k \in Kiosks |->
                            IF active[k] THEN evaluateKioskAlerts(k) ELSE {}]
       IN check' = [IdleCheck EXCEPT
            !.pc = "sending",
            !.checked = checked,
            !.observed = observed,
            !.alerts = {k \in checked : Due(k, observed[k]) # {}},
            !.recoveries = {k \in checked : Cleared(k, observed[k]) # {}}]
    /\ UNCHANGED <<kioskVars, row, told, unrecorded, refusals, deaths>>

\* An alert of offline takes the place of one of stale.
Tell(k, conditions) ==
    [told EXCEPT ![k] = (IF "offline" \in conditions THEN @ \ {"stale"} ELSE @)
                            \cup conditions]

DeliverAlert(k) ==
    /\ k \in check.alerts
    /\ check' = [check EXCEPT !.alerts = @ \ {k},
                          !.notified[k] = Due(k, check.observed[k])]
    /\ told' = Tell(k, Due(k, check.observed[k]))
    /\ UNCHANGED <<kioskVars, row, unrecorded, refusals, deaths>>

DeliverRecovery(k) ==
    /\ check.alerts = {}
    /\ k \in check.recoveries
    /\ check' = [check EXCEPT !.recoveries = @ \ {k},
                          !.recovered[k] = Cleared(k, check.observed[k])]
    /\ told' = [told EXCEPT ![k] = @ \ Cleared(k, check.observed[k])]
    /\ UNCHANGED <<kioskVars, row, unrecorded, refusals, deaths>>

\* No channel accepted the message.
RefuseMessage(k) ==
    /\ refusals < MaxRefusals
    /\ refusals' = refusals + 1
    /\ \/ /\ k \in check.alerts
          /\ check' = [check EXCEPT !.alerts = @ \ {k}]
       \/ /\ check.alerts = {}
          /\ k \in check.recoveries
          /\ check' = [check EXCEPT !.recoveries = @ \ {k}]
    /\ UNCHANGED <<kioskVars, row, told, unrecorded, deaths>>

\* A slip: what is not observed any more is resolved, told or not.
ResolvedUnseen(k, c) == c \notin check.observed[k]

Resolved(k, c) ==
    /\ c \notin check.observed[k]
    /\ \/ row[k][c] # "notified"
       \/ k \notin check.checked
       \/ Escalated(check.observed[k], c)
       \/ c \in check.recovered[k]

\* A kiosk that was retired is forgotten without a word.
recordState ==
    /\ check.pc = "sending"
    /\ check.alerts = {}
    /\ check.recoveries = {}
    /\ row' = [k \in Kiosks |-> [c \in Conditions |->
            IF c \in check.notified[k] THEN "notified"
            ELSE IF c \in check.observed[k] /\ row[k][c] = "none" THEN "open"
            ELSE IF Resolved(k, c) THEN "none"
            ELSE row[k][c]]]
    /\ check' = IdleCheck
    /\ told' = [k \in Kiosks |-> IF k \in check.checked THEN told[k] ELSE {}]
    /\ unrecorded' = [k \in Kiosks |-> unrecorded[k] \ check.notified[k]]
    /\ UNCHANGED <<kioskVars, refusals, deaths>>

RunDies ==
    /\ check.pc # "idle"
    /\ deaths < MaxDeaths
    /\ deaths' = deaths + 1
    /\ unrecorded' = [k \in Kiosks |-> unrecorded[k] \cup check.notified[k]]
    /\ check' = IdleCheck
    /\ UNCHANGED <<kioskVars, row, told, refusals>>

-----------------------------------------------------------------------------
Next ==
    \/ \E k \in Kiosks :
        \/ Sync(k) \/ FallSilent(k) \/ SetActive(k)
        \/ DeliverAlert(k) \/ DeliverRecovery(k) \/ RefuseMessage(k)
    \/ planKioskNotifications
    \/ recordState
    \/ RunDies

Spec == Init /\ [][Next]_vars

-----------------------------------------------------------------------------
\* Between runs a condition the recipients were told of is still on record as
\* such until they are told it cleared, so its recovery will be announced.
\* Only a run that died forgets; stale is looked at by SilenceFolded.
ToldIsRecorded ==
    check.pc = "idle" =>
        \A k \in Kiosks : \A c \in told[k] \ (unrecorded[k] \cup {"stale"}) :
            row[k][c] = "notified"

\* convex/alerts.ts:172 says that a stale episode which escalated into offline
\* is folded into the offline alert: recipients told of a silent kiosk have a
\* row left that will tell them of its return.
SilenceFolded ==
    check.pc = "idle" =>
        \A k \in Kiosks : told[k] \cap {"stale", "offline"} # {} =>
            \E c \in {"stale", "offline"} : row[k][c] # "none"
=============================================================================

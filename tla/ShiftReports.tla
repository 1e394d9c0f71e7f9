---------------------------- MODULE ShiftReports ----------------------------
(***************************************************************************)
(* Other readings of the same evidence: the briefing of the date, the      *)
(* checklist of its closeout, and the hours exported for payroll.  Each is *)
(* computed by code of its own, the hours by another pairing than that of  *)
(* the exceptions, and supervisors hold one against the other.             *)
(*                                                                         *)
(* The factory has one worker, and so one department, and one kiosk.       *)
(***************************************************************************)
EXTENDS ShiftExceptions

-----------------------------------------------------------------------------
(* The briefing.                                                           *)

Active == deactivated = Never
OnRoster == Active /\ rosterMembership # "omit"
Expected == OnRoster /\ Supported
\* A slip: the briefing judges everyone who was seen.
EveryoneChecked == rosterMembership # "omit"
arrivalChecks == rosterMembership = "full"

ArrivalStatus ==
    CASE ~arrivalChecks -> "present"
      [] arrivalChecks /\ Ins(Today) = {} ->
            IF now > Start THEN "missing" ELSE "not_yet_due"
      [] OTHER -> IF FirstIn.at > Start THEN "late" ELSE "present"

\* Live coverage: whoever left is no longer late, but who never came is missing
\* whatever exit was recorded.
getWorkerStatus ==
    IF /\ Today # {}
       /\ LastEvent.type = "out"
       /\ ArrivalStatus \in {"present", "late"}
    THEN "clocked_out" ELSE ArrivalStatus

departmentStatus ==
    LET status == getWorkerStatus
    IN CASE status = "not_yet_due" -> "not_yet_due"
         [] status = "missing" -> "critical"
         [] status = "clocked_out" -> IF now > End THEN "covered" ELSE "critical"
         [] status = "late" -> "short"
         [] OTHER -> "covered"

\* The briefing's own findings of the date.  Daily attendance counts everybody
\* once, whoever has left since.
summary ==
    [onRoster |-> OnRoster,
     noSchedule |-> assignment = "none",
     unavailable |-> OnRoster /\ ~Supported,
     present |-> Expected /\ Ins(Today) # {},
     late |-> Expected /\ ArrivalStatus = "late",
     lateNow |-> Expected /\ getWorkerStatus = "late",
     missing |-> Expected /\ getWorkerStatus = "missing",
     notYetDue |-> Expected /\ getWorkerStatus = "not_yet_due",
     department |-> IF Expected THEN departmentStatus ELSE "unscheduled",
     open |-> {e \in buildShiftExceptions : ~Hidden(e)}]

-----------------------------------------------------------------------------
(* What the briefing knows besides attendance: what the kiosk last told,   *)
(* the worker's face data, whether a recognition attempt waits for its     *)
(* review and whether corrections were made.                               *)

SCAN_BLOCKING_DEGRADED_REASONS ==
    {"camera_error", "model_error", "encoding_mismatch", "no_workers_synced",
     "liveness_required_unavailable"}

\* "held": the latest report had no valid count, an earlier one was positive.
Kiosks == [status : {"online", "stale", "offline", "never_synced"},
           reported : {"nothing", "camera_off", "model_error", "liveness_unavailable"},
           queue : {"clear", "pending", "held", "unknown"}]
GoodKiosk == [status |-> "online", reported |-> "nothing", queue |-> "clear"]

hasScanBlockingDeviceFault(kiosk) ==
    kiosk.reported \in {"camera_off", "model_off"} \cup SCAN_BLOCKING_DEGRADED_REASONS

HoldsAttendance(kiosk) == kiosk.queue \in {"pending", "held"}

getKioskWarningReasons(kiosk) ==
    ({kiosk.status} \ {"online"})
        \cup {"device_fault" : x \in {y \in {0} : hasScanBlockingDeviceFault(kiosk)}}
        \cup {"attendance_queue" : x \in {y \in {0} : HoldsAttendance(kiosk)}}

Silent(kiosk) == kiosk.status \in {"offline", "never_synced"}

\* The kiosks listed with a closeout that is signed.
SignedQueue(kiosk) ==
    [affected |-> HoldsAttendance(kiosk),
     unknown |-> kiosk.queue \in {"held", "unknown"},
     listed |-> kiosk.queue # "clear"]

Signals == [kiosk : Kiosks, face : {"valid", "invalid", "missing"},
            recognition : {"none", "info", "warning"}, corrected : BOOLEAN]
Good == [kiosk |-> GoodKiosk, face |-> "valid", recognition |-> "none",
         corrected |-> FALSE]

Critical(open) == {e \in open : e.critical}
MissingClockOuts(open) == {e \in open : e.key[1] = "missing_clock_out"}

-----------------------------------------------------------------------------
(* What keeps the day from being ready, the risks for its closeout and what*)
(* is to be done: sets of what is found and how urgent it is.              *)

Found(id, priority, condition) ==
    IF condition THEN {[id |-> id, priority |-> priority]} ELSE {}

CoveragePriority(day) == IF day.noSchedule THEN "warning" ELSE "critical"

readinessBlockers(g, day) == UNION
    {Found("schedule:none-today", "warning", day.noSchedule),
     Found("schedule:unavailable", CoveragePriority(day), day.unavailable),
     Found("attendance:missing-arrivals", "critical", day.missing),
     Found("kiosk:offline", "critical", Silent(g.kiosk)),
     Found("kiosk:device-fault", "critical", hasScanBlockingDeviceFault(g.kiosk)),
     Found("kiosk:attendance-queue", "warning", HoldsAttendance(g.kiosk)),
     Found("enrollment:invalid-face-data", "critical", day.onRoster /\ g.face = "invalid"),
     Found("exception:critical", "critical", Critical(day.open) # {})}

closeoutRisks(g, day) == UNION
    {Found("closeout:missing-clock-outs", "warning", MissingClockOuts(day.open) # {}),
     Found("closeout:recognition-reviews", g.recognition, g.recognition # "none"),
     Found("closeout:kiosk-warnings",
           IF Silent(g.kiosk) \/ hasScanBlockingDeviceFault(g.kiosk)
           THEN "critical" ELSE "warning",
           getKioskWarningReasons(g.kiosk) # {}),
     Found("closeout:open-exceptions",
           IF Critical(day.open) # {} THEN "critical" ELSE "warning",
           day.open # {} \/ g.recognition # "none"),
     Found("closeout:attendance-corrections", "info", g.corrected),
     Found("closeout:missing-face-data", "warning", day.onRoster /\ g.face = "missing")}

readinessStatus(g, day) ==
    CASE \E b \in readinessBlockers(g, day) : b.priority = "critical" -> "blocked"
      [] /\ \A b \in readinessBlockers(g, day) : b.priority # "critical"
         /\ \/ readinessBlockers(g, day) # {}
            \/ \E r \in closeoutRisks(g, day) : r.priority # "info"
            \/ day.lateNow -> "attention"
      [] OTHER -> "ready"

\* Of the exceptions the first eight, more than one worker has.
actionItems(g, day) == UNION
    ({Found("schedules:unavailable", CoveragePriority(day), day.unavailable),
      Found("coverage", IF day.department = "critical" THEN "critical" ELSE "warning",
            day.department \in {"critical", "short"}),
      Found("recognition:trust-review", g.recognition, g.recognition # "none"),
      Found("kiosk", IF g.kiosk.status = "stale" THEN "warning" ELSE "critical",
            g.kiosk.status # "online"),
      Found("kiosk-device", "critical", hasScanBlockingDeviceFault(g.kiosk)),
      Found("kiosk-queue", "warning", HoldsAttendance(g.kiosk)),
      Found("schedules:none-today", "warning", day.noSchedule)}
     \cup {Found(e.key[1], IF e.critical THEN "critical" ELSE "warning", TRUE) :
            e \in day.open})

\* The action shown first is one of the most urgent.
primaryAction(g, day) ==
    LET rank == [critical |-> 0, warning |-> 1, info |-> 2]
        items == actionItems(g, day)
    IN {a \in items : \A b \in items : rank[a.priority] <= rank[b.priority]}

-----------------------------------------------------------------------------
(* The checklist of the closeout.                                          *)

\* What blocks the signature until it is acknowledged.
sourceBlockers(g, day) == UNION
    {Found("schedule_coverage", "blocked", day.unavailable),
     Found("not_yet_due", "blocked", day.notYetDue),
     Found("critical_exceptions", "blocked", Critical(day.open) # {}),
     Found("missing_clock_outs", "blocked", MissingClockOuts(day.open) # {}),
     Found("kiosk_warnings", "blocked", getKioskWarningReasons(g.kiosk) # {}),
     Found("recognition_reviews", "blocked", g.recognition # "none")}

buildChecklist(g, day, acknowledged) ==
    IF acknowledged THEN {} ELSE {b.id : b \in sourceBlockers(g, day)}

\* What the mutation asks an acknowledgement for, by a condition of its own.
hasSourceBlockers(g, day) ==
    \/ day.unavailable
    \/ day.notYetDue
    \/ Critical(day.open) # {}
    \/ MissingClockOuts(day.open) # {}
    \/ g.recognition # "none"
    \/ getKioskWarningReasons(g.kiosk) # {}

-----------------------------------------------------------------------------
(* The hours of a date, from its punches and those of its neighbours.      *)

\* A slip: an exit leaves the entries before it open.
NeverClosed(P, slot) == {p \in Ins(P) : p.at < slot}

Since(P, slot) ==
    {p \in Ins(P) : p.at < slot /\ ~\E q \in Outs(P) : p.at < q.at /\ q.at < slot}

\* The row of a date: the intervals it would pay, and whether it is withheld.
\* An entry of the date is taken before one carried over from the day before.
HoursRow(date) ==
    LET known == On(punches, date - 1) \cup On(punches, date)
        next == On(punches, date + 1)
        open(slot) == IF On(Since(known, slot), date) # {}
                      THEN On(Since(known, slot), date) ELSE Since(known, slot)
        carried == On(Since(known, (date + 1) * DayLen), date)
        \* Only the first punch of the next day is looked at, and only when a
        \* shift is still open.
        closing == IF carried # {} /\ next # {} THEN Outs({Earliest(next)}) ELSE {}
        exits == Outs(On(punches, date)) \cup closing
        repeated == \/ \E p \in Ins(On(punches, date)) : Since(known, p.at) # {}
                    \/ \E q \in exits : Cardinality(Since(known, q.at)) > 1
        unmatched == \E q \in Outs(On(punches, date)) : open(q.at) = {}
        overlong == \E q \in exits : /\ open(q.at) # {}
                                     /\ q.at - Earliest(open(q.at)).at > MaxShift
        unfinished == carried # {} /\ closing = {}
    IN [paid |-> {<<Earliest(On(open(q.at), date)).at, q.at>> :
                    q \in {x \in exits : On(open(x.at), date) # {}}},
        ambiguous |-> repeated \/ unmatched \/ overlong \/ unfinished]

Paid(date) == LET row == HoursRow(date) IN IF row.ambiguous THEN {} ELSE row.paid

-----------------------------------------------------------------------------
(* Properties.                                                             *)

\* The briefing and the exceptions tell the same of an arrival, whoever joined
\* when and whatever was corrected: missing here is missing there, late on the
\* day late there, and none of it of one who is not judged.  The figures of the
\* day count each expected worker once, but for one who joined after the start
\* and was only seen to leave.
ArrivalsAgree(day, raised) ==
    /\ Expected => /\ day.missing <=> "missing_arrival" \in raised
                   /\ day.late <=> "late_arrival" \in raised
                   /\ day.missing => day.department = "critical"
                   /\ arrivalChecks \/ Ins(Today) # {} =>
                         Cardinality({f \in {"present", "missing", "notYetDue"} :
                                         day[f]}) = 1
    /\ ~Expected => {"missing_arrival", "late_arrival"} \cap raised = {}

\* A blocked day has a critical action to begin with, unless it is blocked by
\* face data alone; and a critical action means a blocked day, or that all of a
\* department left before the end.
FirstThingsFirst(g, day) ==
    LET first == primaryAction(g, day)
        blocked == {b.id : b \in {c \in readinessBlockers(g, day) :
                                    c.priority = "critical"}}
    IN /\ blocked \ {"enrollment:invalid-face-data"} # {} =>
             \E a \in first : a.priority = "critical"
       /\ \A a \in first : a.priority = "critical" =>
             \/ blocked # {}
             \/ Expected /\ getWorkerStatus = "clocked_out" /\ now <= End

\* A day is ready only when nobody is missing, late or without an exit unless
\* that was reviewed; then nothing but shifts that have not begun is to be
\* acknowledged when the day is signed.  What the closeout page lists as
\* blocking is what the mutation demands an acknowledgement for, and whoever
\* signs over attendance that was not uploaded has acknowledged it and has the
\* kiosk on record.
SignoffAgrees(g, day) ==
    /\ readinessStatus(g, day) = "ready" =>
          /\ day.open = {}
          /\ g.kiosk.status = "online"
          /\ buildChecklist(g, day, FALSE) \subseteq {"not_yet_due"}
    /\ hasSourceBlockers(g, day) <=> buildChecklist(g, day, FALSE) # {}
    /\ SignedQueue(g.kiosk).affected =>
          SignedQueue(g.kiosk).listed /\ hasSourceBlockers(g, day)

\* The circumstances tried: each by itself.
Tried ==
    {Good} \cup {[Good EXCEPT !.kiosk.status = x] : x \in {"stale", "offline", "never_synced"}}
           \cup {[Good EXCEPT !.kiosk.reported = x] :
                    x \in {"camera_off", "model_error", "liveness_unavailable"}}
           \cup {[Good EXCEPT !.kiosk.queue = x] : x \in {"pending", "held", "unknown"}}
           \cup {[Good EXCEPT !.face = x] : x \in {"invalid", "missing"}}
           \cup {[Good EXCEPT !.recognition = x] : x \in {"info", "warning"}}
           \cup {[Good EXCEPT !.corrected = TRUE]}

BriefingAgrees ==
    LET day == summary
        raised == {e.key[1] : e \in buildShiftExceptions}
    IN /\ ArrivalsAgree(day, raised)
       /\ "missing_arrival" \in raised => readinessStatus(Good, day) = "blocked"
       /\ \A g \in Tried : FirstThingsFirst(g, day) /\ SignoffAgrees(g, day)

\* Hours are paid once, for no two intervals that overlap, only for intervals
\* the exceptions are computed from as well, and not for a date of which the
\* exceptions find a scan out of sequence or an exit missing.
HoursAgree ==
    LET paid == [date \in 0..2 |-> Paid(date)]
    IN /\ \A d1, d2 \in 0..2 : \A x \in paid[d1], y \in paid[d2] :
             <<d1, x>> # <<d2, y>> => x[2] < y[1] \/ y[2] < x[1]
       /\ \A x \in paid[Date] : \E q \in PairedOuts(punches) :
             x = <<Earliest(OpenIns(punches, q)).at, q.at>>
       /\ On(punches, Date) # {} /\ ~HoursRow(Date).ambiguous /\ Active =>
             \A e \in buildShiftExceptions :
                e.key[1] \notin {"scan_sequence", "missing_clock_out"}
=============================================================================

-------------------------- MODULE ShiftExceptions --------------------------
(***************************************************************************)
(* What the portal finds wrong with one worker's shift of one factory date,*)
(* and what supervisors make of it.                                        *)
(*                                                                         *)
(* Nothing of this is stored: exceptions are computed at every read, from  *)
(* the effective punches of the date and its two neighbours, the worker's  *)
(* schedule and the clock.  What is stored is a review, bound by a         *)
(* fingerprint to the evidence it was made of.  Evidence comes late, from  *)
(* kiosks that were offline, or is corrected, while a supervisor looks at  *)
(* a page of before.                                                       *)
(*                                                                         *)
(* Time is counted in slots, DayLen of them in a date; the dates are 0, 1  *)
(* and 2, and Date is judged.  One punch per slot: punches of the          *)
(* same instant are told apart by their ids, here by nothing.  A           *)
(* fingerprint is the evidence it is the hash of.  Left out: wording, the  *)
(* exceptions of recognition attempts (RecognitionReviews), punches of     *)
(* unknown time and the hours of a change of daylight saving.              *)
(***************************************************************************)
EXTENDS Integers, FiniteSets, FiniteSetsExt

CONSTANTS
    DayLen,        \* slots of a date
    MaxShift,      \* MAX_PLAUSIBLE_SHIFT_HOURS
    Standard,      \* STANDARD_SHIFT_MINUTES
    VeryLate,      \* 30 minutes
    Slots,         \* when punches may be made
    Clock,         \* when the portal may be looked at
    JoinedAt,      \* when the worker's row may have been created
    MaxPunches,
    MaxChanges,    \* corrections and changes of the schedule or the roster
    MaxReviews

VARIABLES
    now,
    joined,        \* _creationTime of the worker
    deactivated,   \* when the worker was removed, or Never
    assignment,    \* the schedule assigned to the worker on Date
    punches,       \* effective attendance
    reviews,       \* exceptionReviews
    page,          \* the exception a supervisor looks at
    changes, reviewed

vars == <<now, joined, deactivated, assignment, punches, reviews, page, changes,
          reviewed>>

Date == 1
Never == -1
DateOf(slot) == slot \div DayLen
Midnight == (Date + 1) * DayLen

\* Schedules of one shift each, an overnight one, which is not supported, and
\* assignments that name no schedule.
Schedules == [day |-> [start |-> 2, end |-> 4], long |-> [start |-> 1, end |-> 5]]
Unsupported == {"overnight"}
Unassigned == {"none", "ambiguous"}

\* Shifts and punches are within the dates, and time starts somewhere.
ASSUME ShiftExceptionsAssumption ==
    /\ DayLen \in Nat /\ \A s \in DOMAIN Schedules : Schedules[s].end < DayLen
    /\ Slots \subseteq 0..(3 * DayLen - 1)
    /\ Clock \subseteq Nat /\ Clock # {} /\ JoinedAt \subseteq Nat
    /\ {MaxShift, Standard, VeryLate} \subseteq Nat

Assignments == DOMAIN Schedules \cup Unsupported \cup Unassigned
Supported == assignment \in DOMAIN Schedules
Start == Date * DayLen + Schedules[assignment].start
End == Date * DayLen + Schedules[assignment].end

NoPage == [key |-> <<"none", 0>>, evidence |-> {}, offer |-> "none", sees |-> {}]

Init ==
    /\ now = Min(Clock)
    /\ joined \in JoinedAt
    /\ deactivated = Never
    /\ assignment \in Assignments
    /\ punches = {}
    /\ reviews = {}
    /\ page = NoPage
    /\ changes = 0
    /\ reviewed = 0

-----------------------------------------------------------------------------
(* Punches paired into shifts.                                             *)

Punch(slot, type, source) == [at |-> slot, type |-> type, source |-> source]
Ins(P) == {p \in P : p.type = "in"}
Outs(P) == {p \in P : p.type = "out"}
On(P, date) == {p \in P : DateOf(p.at) = date}
Before(P, p) == {q \in P : q.at < p.at}
Earliest(P) == CHOOSE p \in P : \A q \in P : p.at <= q.at
Latest(P) == CHOOSE p \in P : \A q \in P : p.at >= q.at

isPlausibleShift(from, to) == to - from \in 0..MaxShift

\* The entries an exit may close: those since the last exit, of the latest
\* date.  A new day's entry cannot close yesterday's shift.
OpenIns(P, out) ==
    LET since == {p \in Ins(Before(P, out)) :
                    \A q \in Outs(Before(P, out)) : q.at < p.at}
    IN {p \in since : DateOf(p.at) = DateOf(Latest(since).at)}

\* The first of repeated entries is retained.
Closes(P, out) ==
    /\ OpenIns(P, out) # {}
    /\ isPlausibleShift(Earliest(OpenIns(P, out)).at, out.at)
PairedOuts(P) == {p \in Outs(P) : Closes(P, p)}
PairedIns(P) == UNION {OpenIns(P, p) : p \in PairedOuts(P)}
Overlong(P) == {p \in Outs(P) : OpenIns(P, p) # {} /\ ~Closes(P, p)}
Repeated(P) == {p \in P : Before(P, p) # {} /\ Latest(Before(P, p)).type = p.type}

\* A slip: only opposite punches of the same date contest one.
CounterpartOfDate(P, p) ==
    \E q \in P : /\ DateOf(q.at) = DateOf(p.at)
                 /\ \/ p.type = "in" /\ q.type = "out" /\ isPlausibleShift(p.at, q.at)
                    \/ p.type = "out" /\ q.type = "in" /\ isPlausibleShift(q.at, p.at)

\* Any opposite punch near enough, even one of another shift.
HasCounterpart(P, p) ==
    \E q \in P : \/ p.type = "in" /\ q.type = "out" /\ isPlausibleShift(p.at, q.at)
                 \/ p.type = "out" /\ q.type = "in" /\ isPlausibleShift(q.at, p.at)

-----------------------------------------------------------------------------
(* The roster of the date.                                                 *)

joinedAfterStart ==
    \/ DateOf(joined) > Date
    \/ DateOf(joined) = Date /\ Supported /\ joined > Start

rosterMembership ==
    IF ~joinedAfterStart THEN "full"
    ELSE IF On(punches, Date) = {} THEN "omit" ELSE "no_arrival_checks"

-----------------------------------------------------------------------------
(* Exceptions.  "sees" is what a supervisor judges: the punches that are   *)
(* shown and whether another one contests them.  "offer" is the one-tap    *)
(* correction.                                                             *)

Today == On(punches, Date)
FirstIn == Earliest(Ins(Today))
LastEvent == Latest(Today)

\* The whole pairing window and the assignment.
SourceEvidence == {<<p.at, p.type, p.source>> : p \in punches} \cup {<<0, assignment, "">>}

\* A slip: reviews are bound to the whole pairing window.
WholeWindow(type) == punches

\* Next-day punches too late to close the last entry, and punches that say
\* nothing of the arrival, are no evidence of the exception.
ReviewPunches(type) ==
    CASE type = "missing_clock_out" ->
            {p \in punches : \/ DateOf(p.at) # Date + 1
                             \/ isPlausibleShift(LastEvent.at, p.at)}
      [] type \in {"missing_arrival", "late_arrival"} -> Ins(Today)
      [] OTHER -> punches

ReviewEvidence(type) ==
    {<<p.at, p.type, p.source>> : p \in ReviewPunches(type)}
        \cup {<<0, assignment, "">>}

Exception(type, id, critical, sees, offer) ==
    [key |-> <<type, id>>, evidence |-> SourceEvidence, critical |-> critical,
     binds |-> ReviewEvidence(type), sees |-> sees, offer |-> offer]

ScheduleExceptions ==
    LET type == CASE assignment = "none" -> "unassigned_schedule"
                  [] assignment = "ambiguous" -> "ambiguous_schedule"
                  [] OTHER -> "unsupported_schedule"
    IN IF Supported THEN {} ELSE {Exception(type, 0, assignment # "none", Today, "review")}

ArrivalExceptions ==
    IF rosterMembership # "full" \/ ~Supported THEN {}
    ELSE IF Ins(Today) = {}
         THEN IF now > Start THEN {Exception("missing_arrival", 0, TRUE, {}, "add_in")}
              ELSE {}
         ELSE IF FirstIn.at > Start
              THEN {Exception("late_arrival", 0, FirstIn.at - Start >= VeryLate,
                              Ins(Today), "review")}
              ELSE {}

getClockInReach(in) ==
    LET worked == Max({End - Start, Standard})
    IN [afterScheduledEnd |-> in >= End,
        couldEndNextDate |-> in >= End \/ in + worked >= Midnight]

UnfinishedShift ==
    /\ Today # {}
    /\ LastEvent.type = "in"
    /\ LastEvent \notin PairedIns(punches)

MissingClockOut ==
    LET in == LastEvent.at
        competing == HasCounterpart(punches, LastEvent)
        reach == getClockInReach(in)
        inProgress == reach.couldEndNextDate /\ isPlausibleShift(in, now)
        offer == IF competing \/ inProgress \/ reach.afterScheduledEnd
                 THEN "review" ELSE "add_out"
        sees == {<<p.at, p.type>> : p \in Today}
                    \cup IF competing THEN {<<0, "competing">>} ELSE {}
    IN IF Supported /\ UnfinishedShift /\ now > End
       THEN {Exception("missing_clock_out", 0, FALSE, sees, offer)} ELSE {}

ScanSequence(p) ==
    LET earlier == Before(punches, p)
        orphan == Before(Today, p) = {} /\ p.type = "out" /\ p \notin PairedOuts(punches)
        repeated == p \in Repeated(punches)
        contested == HasCounterpart(punches, p)
        acrossMidnight == repeated /\ DateOf(Latest(earlier).at) # Date
        offer == IF p \in Overlong(punches) \/ contested \/ acrossMidnight
                    \/ p.source # "kiosk"
                 THEN "review" ELSE "void"
        shown == IF repeated THEN {p, Latest(earlier)}
                 ELSE {p} \cup IF Before(Today, p) = {} THEN {}
                               ELSE {Latest(Before(Today, p))}
        sees == {<<q.at, q.type>> : q \in shown}
                    \cup IF contested THEN {<<0, "contested">>} ELSE {}
    IN IF repeated \/ orphan \/ p \in Overlong(punches)
       THEN {Exception("scan_sequence", p.at, orphan \/ p \in Overlong(punches),
                       sees, offer)}
       ELSE {}

\* Each scan of a removed worker stands alone.
InactiveScan(p) ==
    IF p.source = "kiosk" /\ p.at >= deactivated
    THEN {[Exception("inactive_worker_scan", p.at, TRUE, {<<p.at, p.type>>}, "review")
            EXCEPT !.evidence = {<<p.at, p.type, p.source>>, <<deactivated, "removed", "">>},
                   !.binds = {<<p.at, p.type, p.source>>, <<deactivated, "removed", "">>}]}
    ELSE {}

buildShiftExceptions ==
    IF deactivated # Never THEN UNION {InactiveScan(p) : p \in Today}
    ELSE IF rosterMembership = "omit" THEN {}
    ELSE UNION ({ScheduleExceptions, ArrivalExceptions, MissingClockOut}
                  \cup {ScanSequence(p) : p \in Today})

\* A review counts for the evidence it was bound to, or for all of it.
Covers(r, e) == r.key = e.key /\ r.binds \in {e.binds, e.evidence}
Hidden(e) == \E r \in reviews : Covers(r, e) /\ r.status # "open"

-----------------------------------------------------------------------------
(* Evidence arrives and changes.                                           *)

Scan(slot, type) ==
    /\ Cardinality(punches) < MaxPunches
    /\ slot <= now
    /\ slot >= joined
    /\ slot \notin {p.at : p \in punches}
    /\ punches' = punches \cup {Punch(slot, type, "kiosk")}
    /\ UNCHANGED <<now, joined, deactivated, assignment, reviews, page, changes,
                   reviewed>>

\* Corrections that are made from the activity log: a void, the reversal of an
\* added punch, or an added punch.
CorrectDirectly(slot, type) ==
    /\ changes < MaxChanges
    /\ changes' = changes + 1
    /\ \/ punches' = {p \in punches : p.at # slot}
       \/ /\ slot \notin {p.at : p \in punches}
          /\ Cardinality(punches) < MaxPunches
          /\ slot <= now
          /\ punches' = punches \cup {Punch(slot, type, "correction")}
    /\ UNCHANGED <<now, joined, deactivated, assignment, reviews, page, reviewed>>

EditSchedule(a) ==
    /\ changes < MaxChanges
    /\ a # assignment
    /\ changes' = changes + 1
    /\ assignment' = a
    /\ UNCHANGED <<now, joined, deactivated, punches, reviews, page, reviewed>>

RemoveWorker ==
    /\ changes < MaxChanges
    /\ deactivated = Never
    /\ now >= joined
    /\ changes' = changes + 1
    /\ deactivated' = now
    /\ UNCHANGED <<now, joined, assignment, punches, reviews, page, reviewed>>

Tick ==
    /\ \E t \in Clock : t > now
    /\ now' = Min({t \in Clock : t > now})
    /\ UNCHANGED <<joined, deactivated, assignment, punches, reviews, page, changes,
                   reviewed>>

-----------------------------------------------------------------------------
(* A supervisor's page, and what is done from it.                          *)

LoadPage(e) ==
    /\ reviewed < MaxReviews
    /\ e \in buildShiftExceptions
    /\ page' = [key |-> e.key, evidence |-> e.evidence, offer |-> e.offer,
                sees |-> e.sees]
    /\ UNCHANGED <<now, joined, deactivated, assignment, punches, reviews, changes,
                   reviewed>>

\* A slip: the exception is found again by its key alone.
KeyMatches(e) == e.key = page.key

SourceMatches(e) == e.key = page.key /\ e.evidence = page.evidence

review(status) ==
    /\ \E e \in buildShiftExceptions :
          /\ SourceMatches(e)
          /\ reviews' = {r \in reviews : r.key # e.key}
                          \cup {[key |-> e.key, binds |-> e.binds,
                                 status |-> status, seen |-> page.sees]}
    /\ reviewed' = reviewed + 1
    /\ page' = NoPage
    /\ UNCHANGED <<now, joined, deactivated, assignment, punches, changes>>

\* The one-tap correction; its form keeps the fingerprint of the page.
Corrected ==
    CASE page.offer = "void" -> {p \in punches : p.at # page.key[2]}
      [] page.offer = "add_in" ->
            punches \cup {Punch(Start, "in", "correction")}
      [] page.offer = "add_out" ->
            punches \cup {Punch(End, "out", "correction")}

ApplySuggestion ==
    /\ page.offer \in {"void", "add_in", "add_out"}
    /\ \E e \in buildShiftExceptions : SourceMatches(e)
    /\ page.offer = "add_in" => Start \notin {p.at : p \in punches}
    /\ page.offer = "add_out" => End \notin {p.at : p \in punches}
    /\ punches' = Corrected
    /\ reviewed' = reviewed + 1
    /\ page' = NoPage
    /\ UNCHANGED <<now, joined, deactivated, assignment, reviews, changes>>

Next ==
    \/ \E slot \in Slots, type \in {"in", "out"} :
          Scan(slot, type) \/ CorrectDirectly(slot, type)
    \/ \E a \in Assignments : EditSchedule(a)
    \/ RemoveWorker
    \/ Tick
    \/ \E e \in buildShiftExceptions : LoadPage(e)
    \/ \E status \in {"open", "reviewed"} : review(status)
    \/ ApplySuggestion

Spec == Init /\ [][Next]_vars

-----------------------------------------------------------------------------
(* Properties.                                                             *)

\* Whoever hides an exception by a review has seen it as it is now: no punch,
\* correction or change of the schedule that alters what is shown of an
\* exception leaves it hidden.
HiddenAsSeen ==
    reviews # {} =>
        \A e \in buildShiftExceptions, r \in reviews :
            Covers(r, e) /\ r.status # "open" => r.seen = e.sees

\* A review lasts while nothing that bears on it changes: an exit never reopens
\* a reviewed arrival, an entry or exit that comes too late to close the shift
\* never a reviewed missing exit, and no other scan that of a removed worker.
Irrelevant(e, p) ==
    CASE e.key[1] \in {"missing_arrival", "late_arrival"} -> p.type = "out"
      [] e.key[1] = "missing_clock_out" ->
            DateOf(p.at) > Date /\ p.at - LastEvent.at > MaxShift
      [] e.key[1] = "inactive_worker_scan" -> TRUE
      [] OTHER -> FALSE
Scanned == punches' # punches /\ UNCHANGED <<changes, reviewed>>
SettledStaysSettled ==
    [][Scanned /\ reviews # {} =>
          \A e \in buildShiftExceptions :
             /\ Hidden(e)
             /\ \A p \in punches' \ punches : Irrelevant(e, p)
             => \A f \in buildShiftExceptions' : f.key = e.key => Hidden(f)']_vars

\* A one-tap correction that goes through neither voids a punch that any
\* opposite punch could make a shift with, nor invents an exit where there is
\* a later one that could be it, nor one before the entry it is to close.
\* This is asked of the evidence at that time, not of the page.
SuggestionsAreSafe ==
    [][ApplySuggestion =>
          /\ \A p \in punches \ punches' :
                /\ p.type = "in" => \A q \in Outs(punches) : ~isPlausibleShift(p.at, q.at)
                /\ p.type = "out" => \A q \in Ins(punches) : ~isPlausibleShift(q.at, p.at)
                /\ PairedOuts(punches') = PairedOuts(punches)
                /\ PairedIns(punches') = PairedIns(punches)
          /\ \A p \in punches' \ punches : p.type = "out" =>
                /\ LastEvent.at < p.at
                /\ \A q \in Outs(punches) : ~isPlausibleShift(LastEvent.at, q.at)]_vars
=============================================================================

-------------------------- MODULE ShiftReports_proofs --------------------------
(***************************************************************************)
(* That a shift's exceptions, its reviews, the briefing and the hours      *)
(* agree, for any punches, corrections, schedules and clock, and any       *)
(* length of the date and of a plausible shift.                            *)
(***************************************************************************)
EXTENDS ShiftReports, FiniteSetTheorems, WellFoundedInduction, TLAPS

-----------------------------------------------------------------------------
(* Dates and punches.                                                      *)

PunchRow == [at : Nat, type : {"in", "out"}, source : {"kiosk", "correction"}]

\* One punch per slot, of the three dates.
WellFormed(P) ==
    /\ P \subseteq PunchRow
    /\ IsFiniteSet(P)
    /\ \A p, q \in P : p.at = q.at => p = q
    /\ \A p \in P : p.at < 3 * DayLen

LEMMA Constants ==
    /\ DayLen \in Nat /\ 5 < DayLen
    /\ Slots \subseteq Nat /\ \A s \in Slots : s < 3 * DayLen
    /\ Clock \subseteq Nat /\ Clock # {}
    /\ MaxShift \in Nat /\ Standard \in Nat /\ VeryLate \in Nat
<1>1. DayLen \in Nat /\ Slots \subseteq 0..(3 * DayLen - 1) /\ Clock \subseteq Nat /\ Clock # {}
  BY ShiftExceptionsAssumption
<1>2. MaxShift \in Nat /\ Standard \in Nat /\ VeryLate \in Nat
  BY ShiftExceptionsAssumption
<1>3. "long" \in DOMAIN Schedules /\ Schedules["long"].end = 5
  BY DEF Schedules
<1>4. 5 < DayLen
  BY <1>3, ShiftExceptionsAssumption
<1>5. Slots \subseteq Nat /\ \A s \in Slots : s < 3 * DayLen
  BY <1>1
<1> QED
  BY <1>1, <1>2, <1>4, <1>5

LEMMA Dates ==
    /\ \A s \in Nat : DateOf(s) \in Nat
    /\ \A s, t \in Nat : s <= t => DateOf(s) <= DateOf(t)
    /\ \A s, t \in Nat : DateOf(s) < DateOf(t) => s < t
    /\ \A s \in Nat, d \in Nat : DateOf(s) <= d => s < (d + 1) * DayLen
    /\ \A s \in Nat, d \in Nat : s < (d + 1) * DayLen => DateOf(s) <= d
<1>1. DayLen \in Nat /\ 0 < DayLen
  BY Constants
<1>2. \A s \in Nat : DateOf(s) \in Nat
  BY <1>1 DEF DateOf
<1>3. ASSUME NEW s \in Nat, NEW t \in Nat, s <= t
      PROVE  DateOf(s) <= DateOf(t)
  BY <1>1, <1>3 DEF DateOf
<1>4. ASSUME NEW s \in Nat, NEW t \in Nat, DateOf(s) < DateOf(t)
      PROVE  s < t
  <2> SUFFICES ASSUME t <= s
               PROVE  FALSE
    OBVIOUS
  <2>1. DateOf(t) <= DateOf(s)
    BY <1>3
  <2> QED
    BY <2>1, <1>2, <1>4
<1>5. ASSUME NEW s \in Nat, NEW d \in Nat, DateOf(s) <= d
      PROVE  s < (d + 1) * DayLen
  BY <1>1, <1>5 DEF DateOf
<1>6. ASSUME NEW s \in Nat, NEW d \in Nat, s < (d + 1) * DayLen
      PROVE  DateOf(s) <= d
  BY <1>1, <1>6 DEF DateOf
<1> QED
  BY <1>2, <1>3, <1>4, <1>5, <1>6

LEMMA WellFormedParts ==
    ASSUME NEW P, WellFormed(P), NEW Q \in SUBSET P
    PROVE  WellFormed(Q)
<1>1. IsFiniteSet(Q)
  BY FS_Subset DEF WellFormed
<1> QED
  BY <1>1 DEF WellFormed

LEMMA WellFormedAdd ==
    ASSUME NEW P, WellFormed(P), NEW x \in PunchRow, x.at \notin {p.at : p \in P},
           x.at < 3 * DayLen
    PROVE  WellFormed(P \cup {x})
<1>1. IsFiniteSet(P \cup {x})
  BY FS_AddElement DEF WellFormed
<1>2. P \cup {x} \subseteq PunchRow
  BY DEF WellFormed
<1>3. ASSUME NEW p \in P \cup {x}, NEW q \in P \cup {x}, p.at = q.at
      PROVE  p = q
  BY <1>3 DEF WellFormed
<1>4. \A p \in P \cup {x} : p.at < 3 * DayLen
  BY DEF WellFormed
<1> QED
  BY <1>1, <1>2, <1>3, <1>4 DEF WellFormed

\* A set of slots has a first and a last one.
LEMMA FirstSlot ==
    ASSUME NEW S \in SUBSET Nat, S # {}
    PROVE  \E m \in S : \A k \in S : m <= k
<1>1. PICK m \in S : \A k \in S : <<k, m>> \notin OpToRel(<, Nat)
  BY NatLessThanWellFounded, WFMin
<1>2. \A k \in S : ~(k < m)
  BY <1>1 DEF OpToRel
<1> QED
  BY <1>2

LEMMA LastSlot ==
    ASSUME NEW n \in Nat, NEW S \in SUBSET (0..n), S # {}
    PROVE  \E m \in S : \A k \in S : k <= m
<1> DEFINE D == {n - k : k \in S}
<1>1. D \in SUBSET Nat /\ D # {}
  <2>1. \A k \in S : n - k \in Nat
    <3>1. \A k \in S : k \in 0..n
      OBVIOUS
    <3> QED
      BY <3>1
  <2>2. PICK k \in S : TRUE
    OBVIOUS
  <2>3. n - k \in D
    OBVIOUS
  <2> QED
    BY <2>1, <2>3
<1>2. PICK d \in D : \A k \in D : d <= k
  <2> HIDE DEF D
  <2> QED
    BY <1>1, FirstSlot
<1>3. PICK m \in S : d = n - m
  OBVIOUS
<1>4. ASSUME NEW k \in S
      PROVE  k <= m
  <2>1. n - m <= n - k
    BY <1>2, <1>3
  <2> QED
    BY <2>1
<1> QED
  BY <1>4

LEMMA EarliestIs ==
    ASSUME NEW S \in SUBSET PunchRow, S # {}
    PROVE  Earliest(S) \in S /\ \A q \in S : Earliest(S).at <= q.at
<1> DEFINE T == {q.at : q \in S}
<1>1. T \in SUBSET Nat /\ T # {}
  BY DEF PunchRow
<1>2. PICK m \in T : \A k \in T : m <= k
  <2> HIDE DEF T
  <2> QED
    BY <1>1, FirstSlot
<1>3. PICK p \in S : m = p.at
  OBVIOUS
<1>4. \A q \in S : p.at <= q.at
  BY <1>2, <1>3
<1> QED
  BY <1>4 DEF Earliest

LEMMA LatestIs ==
    ASSUME NEW S \in SUBSET PunchRow, S # {}, NEW n \in Nat, \A q \in S : q.at <= n
    PROVE  Latest(S) \in S /\ \A q \in S : Latest(S).at >= q.at
<1> DEFINE T == {q.at : q \in S}
<1>1. T \in SUBSET (0..n) /\ T # {}
  <2>1. \A q \in S : q.at \in Nat /\ q.at <= n
    BY DEF PunchRow
  <2> QED
    BY <2>1
<1>2. PICK m \in T : \A k \in T : k <= m
  <2> HIDE DEF T
  <2> QED
    BY <1>1, LastSlot
<1>3. PICK p \in S : m = p.at
  OBVIOUS
<1>4. \A q \in S : p.at >= q.at
  <2>1. \A q \in S : q.at \in Nat
    BY DEF PunchRow
  <2>2. \A q \in S : q.at <= p.at
    BY <1>2, <1>3
  <2> QED
    BY <2>1, <2>2
<1> QED
  BY <1>4 DEF Latest

LEMMA LatestOf ==
    ASSUME NEW P, WellFormed(P), NEW S \in SUBSET P, S # {}
    PROVE  Latest(S) \in S /\ \A q \in S : Latest(S).at >= q.at
<1> DEFINE n == 3 * DayLen
<1>1. n \in Nat
  BY Constants
<1>2. \A q \in S : q.at \in Nat /\ q.at < n
  BY DEF WellFormed, PunchRow
<1> HIDE DEF n
<1>3. S \in SUBSET PunchRow /\ \A q \in S : q.at <= n
  BY <1>1, <1>2 DEF WellFormed
<1> QED
  BY <1>1, <1>3, LatestIs

LEMMA DatesOf ==
    ASSUME NEW P, WellFormed(P), NEW p \in P
    PROVE  p.at \in Nat /\ DateOf(p.at) \in 0..2
<1>1. p.at \in Nat /\ p.at < (2 + 1) * DayLen
  BY Constants DEF WellFormed, PunchRow
<1>2. DateOf(p.at) \in Nat /\ DateOf(p.at) <= 2
  BY <1>1, Dates
<1> QED
  BY <1>1, <1>2

-----------------------------------------------------------------------------
(* What every step keeps of the punches.                                   *)

PunchesOK ==
    /\ WellFormed(punches)
    /\ now \in Nat
    /\ assignment \in Assignments

LEMMA StartIs ==
    ASSUME assignment \in Assignments, Supported
    PROVE  /\ Start \in Nat /\ End \in Nat /\ Start < End
           /\ DateOf(Start) = Date /\ DateOf(End) = Date
           /\ Start < 3 * DayLen /\ End < 3 * DayLen
<1>1. assignment \in {"day", "long"}
  BY DEF Supported, Schedules
<1>2. DayLen \in Nat /\ 5 < DayLen
  BY Constants
<1>3. /\ Schedules["day"].start = 2 /\ Schedules["day"].end = 4
      /\ Schedules["long"].start = 1 /\ Schedules["long"].end = 5
  BY DEF Schedules
<1>4. /\ Schedules[assignment].start \in 1..2 /\ Schedules[assignment].end \in 4..5
  BY <1>1, <1>3
<1>5. \A k \in 1..5 : DateOf(Date * DayLen + k) = Date
  BY <1>2 DEF DateOf, Date
<1>6. /\ Start = Date * DayLen + Schedules[assignment].start
      /\ End = Date * DayLen + Schedules[assignment].end
  BY DEF Start, End
<1> QED
  BY <1>2, <1>4, <1>5, <1>6 DEF Date

LEMMA MinIs ==
    ASSUME NEW S \in SUBSET Nat, S # {}
    PROVE  Min(S) \in Nat
<1>1. \E m \in S : \A k \in S : m <= k
  BY FirstSlot
<1>2. Min(S) \in S
  BY <1>1 DEF Min
<1> QED
  BY <1>2

LEMMA PunchesInit ==
    ASSUME Init
    PROVE  PunchesOK
<1>1. WellFormed({})
  BY FS_EmptySet DEF WellFormed
<1>2. now \in Nat
  BY Constants, MinIs DEF Init
<1> QED
  BY <1>1, <1>2 DEF PunchesOK, Init

LEMMA OneAdded ==
    ASSUME NEW P, WellFormed(P), NEW slot \in Nat, NEW type \in {"in", "out"},
           NEW source \in {"kiosk", "correction"}, slot \notin {p.at : p \in P},
           slot < 3 * DayLen
    PROVE  WellFormed(P \cup {Punch(slot, type, source)})
<1>1. Punch(slot, type, source) \in PunchRow /\ Punch(slot, type, source).at = slot
  BY DEF Punch, PunchRow
<1> QED
  BY <1>1, WellFormedAdd

\* A one-tap correction is of the page it was offered on.
LEMMA PunchesNext ==
    ASSUME PunchesOK, [Next]_vars, ApplySuggestion => WellFormed(punches')
    PROVE  PunchesOK'
<1>1. ASSUME NEW slot \in Slots, NEW type \in {"in", "out"}, Scan(slot, type)
      PROVE  PunchesOK'
  <2>1. slot \in Nat /\ slot < 3 * DayLen
    BY Constants
  <2> QED
    BY <1>1, <2>1, OneAdded DEF Scan, PunchesOK
<1>2. ASSUME NEW slot \in Slots, NEW type \in {"in", "out"}, CorrectDirectly(slot, type)
      PROVE  PunchesOK'
  <2>1. slot \in Nat /\ slot < 3 * DayLen
    BY Constants
  <2>2. CASE punches' = {p \in punches : p.at # slot}
    <3>1. WellFormed(punches')
      BY <2>2, WellFormedParts DEF PunchesOK
    <3> QED
      BY <1>2, <3>1 DEF CorrectDirectly, PunchesOK
  <2>3. CASE /\ punches' = punches \cup {Punch(slot, type, "correction")}
             /\ slot \notin {p.at : p \in punches}
    <3>1. WellFormed(punches')
      BY <2>1, <2>3, OneAdded DEF PunchesOK
    <3> QED
      BY <1>2, <3>1 DEF CorrectDirectly, PunchesOK
  <2> QED
    BY <1>2, <2>2, <2>3 DEF CorrectDirectly
<1>3. ASSUME NEW a \in Assignments, EditSchedule(a)
      PROVE  PunchesOK'
  BY <1>3 DEF EditSchedule, PunchesOK
<1>4. CASE RemoveWorker
  BY <1>4 DEF RemoveWorker, PunchesOK
<1>5. CASE Tick
  <2>1. {t \in Clock : t > now} \in SUBSET Nat /\ {t \in Clock : t > now} # {}
    BY <1>5, Constants DEF Tick
  <2>2. now' \in Nat
    BY <1>5, <2>1, MinIs DEF Tick
  <2> QED
    BY <1>5, <2>2 DEF Tick, PunchesOK
<1>6. ASSUME NEW e, LoadPage(e)
      PROVE  PunchesOK'
  BY <1>6 DEF LoadPage, PunchesOK
<1>7. ASSUME NEW status, review(status)
      PROVE  PunchesOK'
  BY <1>7 DEF review, PunchesOK
<1>8. CASE ApplySuggestion
  BY <1>8 DEF ApplySuggestion, PunchesOK
<1>9. CASE UNCHANGED vars
  BY <1>9 DEF vars, PunchesOK
<1> QED
  BY <1>1, <1>2, <1>3, <1>4, <1>5, <1>6, <1>7, <1>8, <1>9 DEF Next

-----------------------------------------------------------------------------
(* Exceptions, and who is judged.                                          *)

\* What an exception says of the evidence.
IsException(e, type, id, sees, offer) ==
    /\ e.key = <<type, id>> /\ e.key[1] = type /\ e.key[2] = id
    /\ e.evidence = SourceEvidence /\ e.binds = ReviewEvidence(type)
    /\ e.sees = sees /\ e.offer = offer

LEMMA ExceptionIs ==
    ASSUME NEW type, NEW id, NEW critical, NEW sees, NEW offer
    PROVE  IsException(Exception(type, id, critical, sees, offer), type, id, sees, offer)
BY DEF Exception, IsException

LEMMA InactiveIs ==
    ASSUME NEW p, NEW e \in InactiveScan(p)
    PROVE  /\ e.key = <<"inactive_worker_scan", p.at>> /\ e.offer = "review"
           /\ e.key[1] = "inactive_worker_scan"
           /\ e.evidence = {<<p.at, p.type, p.source>>, <<deactivated, "removed", "">>}
           /\ e.binds = {<<p.at, p.type, p.source>>, <<deactivated, "removed", "">>}
           /\ e.sees = {<<p.at, p.type>>}
           /\ p.source = "kiosk"
<1> DEFINE plain == Exception("inactive_worker_scan", p.at, TRUE, {<<p.at, p.type>>}, "review")
           proof == {<<p.at, p.type, p.source>>, <<deactivated, "removed", "">>}
<1>1. p.source = "kiosk" /\ e = [plain EXCEPT !.evidence = proof, !.binds = proof]
  <2>1. p.source = "kiosk"
    BY DEF InactiveScan
  <2> QED
    BY <2>1 DEF InactiveScan
<1>2. e.evidence = proof /\ e.binds = proof
  BY <1>1 DEF Exception
<1>3. e.key = plain.key /\ e.offer = plain.offer /\ e.sees = plain.sees
  BY <1>1 DEF Exception
<1>4. /\ plain.key = <<"inactive_worker_scan", p.at>> /\ plain.offer = "review"
      /\ plain.sees = {<<p.at, p.type>>}
  BY DEF Exception
<1> HIDE DEF plain
<1> QED
  BY <1>1, <1>2, <1>3, <1>4

ScheduleTypes == {"unassigned_schedule", "ambiguous_schedule", "unsupported_schedule"}

LEMMA ScheduleIs ==
    ASSUME NEW e \in ScheduleExceptions
    PROVE  \E type \in ScheduleTypes : IsException(e, type, 0, Today, "review")
<1> DEFINE Raised(type) == Exception(type, 0, assignment # "none", Today, "review")
<1>1. CASE assignment = "none"
  <2>1. e = Raised("unassigned_schedule")
    BY <1>1 DEF ScheduleExceptions
  <2> QED
    BY <2>1, ExceptionIs DEF ScheduleTypes
<1>2. CASE assignment = "ambiguous"
  <2>1. e = Raised("ambiguous_schedule")
    BY <1>2 DEF ScheduleExceptions
  <2> QED
    BY <2>1, ExceptionIs DEF ScheduleTypes
<1>3. CASE assignment \notin {"none", "ambiguous"}
  <2>1. e = Raised("unsupported_schedule")
    BY <1>3 DEF ScheduleExceptions
  <2> QED
    BY <2>1, ExceptionIs DEF ScheduleTypes
<1> QED
  BY <1>1, <1>2, <1>3

LEMMA ArrivalIs ==
    ASSUME NEW e \in ArrivalExceptions
    PROVE  /\ rosterMembership = "full" /\ Supported
           /\ \/ /\ Ins(Today) = {} /\ now > Start
                 /\ IsException(e, "missing_arrival", 0, {}, "add_in")
              \/ /\ Ins(Today) # {} /\ FirstIn.at > Start
                 /\ IsException(e, "late_arrival", 0, Ins(Today), "review")
<1>1. rosterMembership = "full" /\ Supported
  BY DEF ArrivalExceptions
<1>2. CASE Ins(Today) = {}
  <2>1. now > Start /\ e = Exception("missing_arrival", 0, TRUE, {}, "add_in")
    BY <1>1, <1>2 DEF ArrivalExceptions
  <2> QED
    BY <1>1, <1>2, <2>1, ExceptionIs
<1>3. CASE Ins(Today) # {}
  <2>1. /\ FirstIn.at > Start
        /\ e = Exception("late_arrival", 0, FirstIn.at - Start >= VeryLate,
                         Ins(Today), "review")
    BY <1>1, <1>3 DEF ArrivalExceptions
  <2> QED
    BY <1>1, <1>3, <2>1, ExceptionIs
<1> QED
  BY <1>2, <1>3

\* What is shown of a missing exit.
MissingSees(P) ==
    {<<p.at, p.type>> : p \in On(P, Date)}
        \cup IF HasCounterpart(P, Latest(On(P, Date))) THEN {<<0, "competing">>} ELSE {}

LEMMA MissingIs ==
    ASSUME NEW e \in MissingClockOut
    PROVE  /\ Supported /\ UnfinishedShift /\ now > End
           /\ \E offer :
                 /\ IsException(e, "missing_clock_out", 0, MissingSees(punches), offer)
                 /\ offer \in {"review", "add_out"}
                 /\ offer = "add_out" =>
                       /\ ~HasCounterpart(punches, LastEvent)
                       /\ ~(LastEvent.at >= End)
<1>1. Supported /\ UnfinishedShift /\ now > End
  BY DEF MissingClockOut
<1> DEFINE competing == HasCounterpart(punches, LastEvent)
           inProgress == /\ getClockInReach(LastEvent.at).couldEndNextDate
                         /\ isPlausibleShift(LastEvent.at, now)
           after == getClockInReach(LastEvent.at).afterScheduledEnd
           offer == IF competing \/ inProgress \/ after THEN "review" ELSE "add_out"
<1>2. e = Exception("missing_clock_out", 0, FALSE, MissingSees(punches), offer)
  BY <1>1 DEF MissingClockOut, MissingSees, LastEvent, Today
<1>3. after = (LastEvent.at >= End)
  BY DEF getClockInReach
<1>4. IsException(e, "missing_clock_out", 0, MissingSees(punches), offer)
  BY <1>2, ExceptionIs
<1>5. offer \in {"review", "add_out"}
  OBVIOUS
<1>6. offer = "add_out" => ~HasCounterpart(punches, LastEvent) /\ ~(LastEvent.at >= End)
  BY <1>3
<1> HIDE DEF offer
<1> QED
  BY <1>1, <1>4, <1>5, <1>6

\* What is shown of a scan out of sequence.
ScanSees(P, p) ==
    LET shown == IF p \in Repeated(P) THEN {p, Latest(Before(P, p))}
                 ELSE {p} \cup IF Before(On(P, Date), p) = {} THEN {}
                               ELSE {Latest(Before(On(P, Date), p))}
    IN {<<q.at, q.type>> : q \in shown}
          \cup IF HasCounterpart(P, p) THEN {<<0, "contested">>} ELSE {}

LEMMA ScanIs ==
    ASSUME NEW p, NEW e \in ScanSequence(p)
    PROVE  /\ \/ p \in Repeated(punches)
              \/ Before(Today, p) = {} /\ p.type = "out" /\ p \notin PairedOuts(punches)
              \/ p \in Overlong(punches)
           /\ \E offer :
                 /\ IsException(e, "scan_sequence", p.at, ScanSees(punches, p), offer)
                 /\ offer \in {"review", "void"}
                 /\ offer = "void" =>
                       /\ p \notin Overlong(punches)
                       /\ ~HasCounterpart(punches, p)
                       /\ p \in Repeated(punches) => DateOf(Latest(Before(punches, p)).at) = Date
                       /\ p.source = "kiosk"
<1> DEFINE orphan == Before(Today, p) = {} /\ p.type = "out" /\ p \notin PairedOuts(punches)
           repeated == p \in Repeated(punches)
           contested == HasCounterpart(punches, p)
           across == repeated /\ DateOf(Latest(Before(punches, p)).at) # Date
           offer == IF p \in Overlong(punches) \/ contested \/ across \/ p.source # "kiosk"
                    THEN "review" ELSE "void"
<1>1. repeated \/ orphan \/ p \in Overlong(punches)
  BY DEF ScanSequence
<1>2. e = Exception("scan_sequence", p.at, orphan \/ p \in Overlong(punches),
                    ScanSees(punches, p), offer)
  BY <1>1 DEF ScanSequence, ScanSees, Today
<1>3. IsException(e, "scan_sequence", p.at, ScanSees(punches, p), offer)
  BY <1>2, ExceptionIs
<1> QED
  BY <1>1, <1>3

LEMMA ExceptionsAre ==
    ASSUME NEW e \in buildShiftExceptions
    PROVE  \/ deactivated # Never /\ \E p \in Today : e \in InactiveScan(p)
           \/ /\ deactivated = Never /\ rosterMembership # "omit"
              /\ \/ e \in ScheduleExceptions
                 \/ e \in ArrivalExceptions
                 \/ e \in MissingClockOut
                 \/ \E p \in Today : e \in ScanSequence(p)
BY DEF buildShiftExceptions

LEMMA ArrivalsAreRaised ==
    ASSUME deactivated = Never, rosterMembership # "omit", NEW e \in ArrivalExceptions
    PROVE  e \in buildShiftExceptions
BY DEF buildShiftExceptions

\* What is raised of an arrival.
LEMMA ArrivalsRaised ==
    ASSUME PunchesOK,
           NEW raised, raised = {e.key[1] : e \in buildShiftExceptions}
    PROVE  /\ "missing_arrival" \in raised <=>
                 Expected /\ arrivalChecks /\ Ins(Today) = {} /\ now > Start
           /\ "late_arrival" \in raised <=>
                 Expected /\ arrivalChecks /\ Ins(Today) # {} /\ FirstIn.at > Start
<1>1. ASSUME NEW e \in buildShiftExceptions, e.key[1] \in {"missing_arrival", "late_arrival"}
      PROVE  deactivated = Never /\ rosterMembership # "omit" /\ e \in ArrivalExceptions
  <2>1. CASE \E p \in Today : e \in InactiveScan(p)
    BY <1>1, <2>1, InactiveIs
  <2>2. CASE e \in ScheduleExceptions
    BY <1>1, <2>2, ScheduleIs DEF IsException, ScheduleTypes
  <2>3. CASE e \in MissingClockOut
    BY <1>1, <2>3, MissingIs DEF IsException
  <2>4. CASE \E p \in Today : e \in ScanSequence(p)
    BY <1>1, <2>4, ScanIs DEF IsException
  <2> QED
    BY <2>1, <2>2, <2>3, <2>4, ExceptionsAre
<1>2. ASSUME "missing_arrival" \in raised
      PROVE  Expected /\ arrivalChecks /\ Ins(Today) = {} /\ now > Start
  <2>1. PICK e \in buildShiftExceptions : e.key[1] = "missing_arrival"
    BY <1>2
  <2>2. deactivated = Never /\ rosterMembership # "omit" /\ e \in ArrivalExceptions
    BY <1>1, <2>1
  <2>3. rosterMembership = "full" /\ Supported /\ Ins(Today) = {} /\ now > Start
    BY <2>1, <2>2, ArrivalIs DEF IsException
  <2> QED
    BY <2>2, <2>3 DEF Expected, OnRoster, Active, arrivalChecks
<1>3. ASSUME "late_arrival" \in raised
      PROVE  Expected /\ arrivalChecks /\ Ins(Today) # {} /\ FirstIn.at > Start
  <2>1. PICK e \in buildShiftExceptions : e.key[1] = "late_arrival"
    BY <1>3
  <2>2. deactivated = Never /\ rosterMembership # "omit" /\ e \in ArrivalExceptions
    BY <1>1, <2>1
  <2>3. rosterMembership = "full" /\ Supported /\ Ins(Today) # {} /\ FirstIn.at > Start
    BY <2>1, <2>2, ArrivalIs DEF IsException
  <2> QED
    BY <2>2, <2>3 DEF Expected, OnRoster, Active, arrivalChecks
<1>4. ASSUME Expected, arrivalChecks, Ins(Today) = {}, now > Start
      PROVE  "missing_arrival" \in raised
  <2> DEFINE e == Exception("missing_arrival", 0, TRUE, {}, "add_in")
  <2>1. e \in ArrivalExceptions
    BY <1>4 DEF ArrivalExceptions, Expected, arrivalChecks
  <2>2. e \in buildShiftExceptions
    BY <1>4, <2>1, ArrivalsAreRaised DEF Expected, OnRoster, Active
  <2>3. e.key[1] = "missing_arrival"
    BY DEF Exception
  <2> HIDE DEF e
  <2> QED
    BY <2>2, <2>3
<1>5. ASSUME Expected, arrivalChecks, Ins(Today) # {}, FirstIn.at > Start
      PROVE  "late_arrival" \in raised
  <2> DEFINE e == Exception("late_arrival", 0, FirstIn.at - Start >= VeryLate,
                            Ins(Today), "review")
  <2>1. e \in ArrivalExceptions
    BY <1>5 DEF ArrivalExceptions, Expected, arrivalChecks
  <2>2. e \in buildShiftExceptions
    BY <1>5, <2>1, ArrivalsAreRaised DEF Expected, OnRoster, Active
  <2>3. e.key[1] = "late_arrival"
    BY DEF Exception
  <2> HIDE DEF e
  <2> QED
    BY <2>2, <2>3
<1> QED
  BY <1>2, <1>3, <1>4, <1>5

-----------------------------------------------------------------------------
(* The briefing.                                                           *)

LEMMA DayIs ==
    /\ summary.onRoster = OnRoster
    /\ summary.noSchedule = (assignment = "none")
    /\ summary.unavailable = (OnRoster /\ ~Supported)
    /\ summary.present = (Expected /\ Ins(Today) # {})
    /\ summary.late = (Expected /\ ArrivalStatus = "late")
    /\ summary.lateNow = (Expected /\ getWorkerStatus = "late")
    /\ summary.missing = (Expected /\ getWorkerStatus = "missing")
    /\ summary.notYetDue = (Expected /\ getWorkerStatus = "not_yet_due")
    /\ summary.department = IF Expected THEN departmentStatus ELSE "unscheduled"
    /\ summary.open = {e \in buildShiftExceptions : ~Hidden(e)}
    /\ \A f \in {"present", "missing", "notYetDue"} :
          summary[f] = CASE f = "present" -> summary.present
                         [] f = "missing" -> summary.missing
                         [] OTHER -> summary.notYetDue
BY DEF summary

LEMMA StatusIs ==
    /\ ~arrivalChecks => ArrivalStatus = "present"
    /\ arrivalChecks /\ Ins(Today) = {} =>
          ArrivalStatus = IF now > Start THEN "missing" ELSE "not_yet_due"
    /\ arrivalChecks /\ Ins(Today) # {} =>
          ArrivalStatus = IF FirstIn.at > Start THEN "late" ELSE "present"
    /\ ArrivalStatus \in {"missing", "not_yet_due"} => getWorkerStatus = ArrivalStatus
    /\ ArrivalStatus \in {"present", "late"} =>
          getWorkerStatus \in {"clocked_out", ArrivalStatus}
BY DEF ArrivalStatus, getWorkerStatus

LEMMA DepartmentIs ==
    /\ getWorkerStatus = "missing" => departmentStatus = "critical"
    /\ departmentStatus = "critical" =>
          getWorkerStatus = "missing" \/ (getWorkerStatus = "clocked_out" /\ ~(now > End))
BY DEF departmentStatus

LEMMA ArrivalsAlwaysAgree ==
    ASSUME PunchesOK, NEW raised, raised = {e.key[1] : e \in buildShiftExceptions}
    PROVE  ArrivalsAgree(summary, raised)
<1>1. ASSUME Expected
      PROVE  /\ summary.missing <=> "missing_arrival" \in raised
             /\ summary.late <=> "late_arrival" \in raised
             /\ summary.missing => summary.department = "critical"
  <2>1. summary.missing <=> arrivalChecks /\ Ins(Today) = {} /\ now > Start
    BY <1>1, DayIs, StatusIs
  <2>2. summary.late <=> arrivalChecks /\ Ins(Today) # {} /\ FirstIn.at > Start
    BY <1>1, DayIs, StatusIs
  <2> QED
    BY <1>1, <2>1, <2>2, ArrivalsRaised, DayIs, DepartmentIs
<1>2. ASSUME Expected, arrivalChecks \/ Ins(Today) # {}
      PROVE  Cardinality({f \in {"present", "missing", "notYetDue"} : summary[f]}) = 1
  <2> DEFINE Figures == {f \in {"present", "missing", "notYetDue"} : summary[f]}
  <2>0. /\ summary["present"] = summary.present /\ summary["missing"] = summary.missing
        /\ summary["notYetDue"] = summary.notYetDue
    OBVIOUS
  <2>1. CASE Ins(Today) # {}
    <3>1. getWorkerStatus \notin {"missing", "not_yet_due"}
      BY <2>1, StatusIs
    <3>2. Figures = {"present"}
      BY <1>2, <2>0, <2>1, <3>1, DayIs
    <3> QED
      BY <3>2, FS_Singleton
  <2>2. CASE Ins(Today) = {} /\ now > Start
    <3>1. Figures = {"missing"}
      BY <1>2, <2>0, <2>2, DayIs, StatusIs
    <3> QED
      BY <3>1, FS_Singleton
  <2>3. CASE Ins(Today) = {} /\ ~(now > Start)
    <3>1. Figures = {"notYetDue"}
      BY <1>2, <2>0, <2>3, DayIs, StatusIs
    <3> QED
      BY <3>1, FS_Singleton
  <2> QED
    BY <2>1, <2>2, <2>3
<1>3. ~Expected => {"missing_arrival", "late_arrival"} \cap raised = {}
  BY ArrivalsRaised
<1> QED
  BY <1>1, <1>2, <1>3 DEF ArrivalsAgree

KioskStatus == {"online", "stale", "offline", "never_synced"}
Levels == {"none", "info", "warning"}

LEMMA TriedAre ==
    ASSUME NEW g \in Tried
    PROVE  g.kiosk.status \in KioskStatus /\ g.recognition \in Levels
BY DEF Tried, Good, GoodKiosk, KioskStatus, Levels

LEMMA ItemsAre ==
    ASSUME NEW g, NEW day, NEW a
    PROVE  a \in actionItems(g, day) <=>
             \/ day.unavailable /\ a = [id |-> "schedules:unavailable",
                                        priority |-> CoveragePriority(day)]
             \/ /\ day.department \in {"critical", "short"}
                /\ a = [id |-> "coverage",
                        priority |-> IF day.department = "critical" THEN "critical"
                                     ELSE "warning"]
             \/ g.recognition # "none" /\ a = [id |-> "recognition:trust-review",
                                               priority |-> g.recognition]
             \/ /\ g.kiosk.status # "online"
                /\ a = [id |-> "kiosk",
                        priority |-> IF g.kiosk.status = "stale" THEN "warning"
                                     ELSE "critical"]
             \/ /\ hasScanBlockingDeviceFault(g.kiosk)
                /\ a = [id |-> "kiosk-device", priority |-> "critical"]
             \/ /\ HoldsAttendance(g.kiosk)
                /\ a = [id |-> "kiosk-queue", priority |-> "warning"]
             \/ day.noSchedule /\ a = [id |-> "schedules:none-today", priority |-> "warning"]
             \/ \E e \in day.open :
                   a = [id |-> e.key[1],
                        priority |-> IF e.critical THEN "critical" ELSE "warning"]
BY DEF actionItems, Found

LEMMA BlockersAre ==
    ASSUME NEW g, NEW day, NEW b
    PROVE  b \in readinessBlockers(g, day) <=>
             \/ day.noSchedule /\ b = [id |-> "schedule:none-today", priority |-> "warning"]
             \/ day.unavailable /\ b = [id |-> "schedule:unavailable",
                                        priority |-> CoveragePriority(day)]
             \/ day.missing /\ b = [id |-> "attendance:missing-arrivals",
                                    priority |-> "critical"]
             \/ Silent(g.kiosk) /\ b = [id |-> "kiosk:offline", priority |-> "critical"]
             \/ /\ hasScanBlockingDeviceFault(g.kiosk)
                /\ b = [id |-> "kiosk:device-fault", priority |-> "critical"]
             \/ /\ HoldsAttendance(g.kiosk)
                /\ b = [id |-> "kiosk:attendance-queue", priority |-> "warning"]
             \/ /\ day.onRoster /\ g.face = "invalid"
                /\ b = [id |-> "enrollment:invalid-face-data", priority |-> "critical"]
             \/ /\ Critical(day.open) # {}
                /\ b = [id |-> "exception:critical", priority |-> "critical"]
BY DEF readinessBlockers, Found

\* The most urgent actions are first.
LEMMA FirstAre ==
    ASSUME NEW g, NEW day, g.recognition \in Levels
    PROVE  /\ \A a \in primaryAction(g, day) : a \in actionItems(g, day)
           /\ \A a \in actionItems(g, day) :
                 a.priority = "critical" => a \in primaryAction(g, day)
<1> DEFINE rank == [critical |-> 0, warning |-> 1, info |-> 2]
<1>1. \A a \in actionItems(g, day) : a.priority \in {"critical", "warning", "info"}
  BY ItemsAre DEF CoveragePriority, Levels
<1>2. /\ rank["critical"] = 0 /\ rank["warning"] = 1 /\ rank["info"] = 2
  OBVIOUS
<1>3. \A a \in actionItems(g, day) : 0 <= rank[a.priority]
  <2> HIDE DEF rank
  <2> QED
    BY <1>1, <1>2
<1> QED
  BY <1>2, <1>3 DEF primaryAction

LEMMA DayIsDay ==
    ASSUME PunchesOK
    PROVE  /\ summary.missing => summary.department = "critical"
           /\ summary.department = "critical" =>
                 \/ summary.missing
                 \/ Expected /\ getWorkerStatus = "clocked_out" /\ now <= End
<1>1. summary.missing => summary.department = "critical"
  BY DayIs, DepartmentIs
<1>2. ASSUME summary.department = "critical", ~summary.missing
      PROVE  Expected /\ getWorkerStatus = "clocked_out" /\ now <= End
  <2>1. Expected /\ departmentStatus = "critical"
    BY <1>2, DayIs
  <2>2. getWorkerStatus = "clocked_out" /\ ~(now > End)
    BY <1>2, <2>1, DayIs, DepartmentIs
  <2>3. now \in Nat /\ End \in Nat
    BY <2>1, StartIs DEF PunchesOK, Expected
  <2> QED
    BY <2>1, <2>2, <2>3
<1> QED
  BY <1>1, <1>2

LEMMA FirstThingsAreFirst ==
    ASSUME PunchesOK, NEW g \in Tried
    PROVE  FirstThingsFirst(g, summary)
<1> DEFINE day == summary
           blocked == {b.id : b \in {c \in readinessBlockers(g, day) : c.priority = "critical"}}
<1>1. g.kiosk.status \in KioskStatus /\ g.recognition \in Levels
  BY TriedAre
<1>2. /\ day.missing => day.department = "critical"
      /\ day.department = "critical" =>
            \/ day.missing
            \/ Expected /\ getWorkerStatus = "clocked_out" /\ now <= End
  BY DayIsDay
<1> HIDE DEF day
<1>3. ASSUME NEW b \in readinessBlockers(g, day), b.priority = "critical",
             b.id # "enrollment:invalid-face-data"
      PROVE  \E a \in actionItems(g, day) : a.priority = "critical"
  <2>1. CASE day.unavailable /\ b = [id |-> "schedule:unavailable",
                                     priority |-> CoveragePriority(day)]
    <3> DEFINE a == [id |-> "schedules:unavailable", priority |-> CoveragePriority(day)]
    <3>1. a \in actionItems(g, day)
      BY <2>1, ItemsAre
    <3>2. a.priority = "critical"
      BY <1>3, <2>1
    <3> QED
      BY <3>1, <3>2
  <2>2. CASE day.missing
    <3> DEFINE a == [id |-> "coverage",
                     priority |-> IF day.department = "critical" THEN "critical"
                                  ELSE "warning"]
    <3>1. a \in actionItems(g, day) /\ a.priority = "critical"
      BY <1>2, <2>2, ItemsAre
    <3> QED
      BY <3>1
  <2>3. CASE Silent(g.kiosk)
    <3> DEFINE a == [id |-> "kiosk",
                     priority |-> IF g.kiosk.status = "stale" THEN "warning" ELSE "critical"]
    <3>1. g.kiosk.status \in {"offline", "never_synced"}
      BY <2>3 DEF Silent
    <3>2. a \in actionItems(g, day) /\ a.priority = "critical"
      BY <3>1, ItemsAre
    <3> QED
      BY <3>2
  <2>4. CASE hasScanBlockingDeviceFault(g.kiosk)
    <3> DEFINE a == [id |-> "kiosk-device", priority |-> "critical"]
    <3>1. a \in actionItems(g, day) /\ a.priority = "critical"
      BY <2>4, ItemsAre
    <3> QED
      BY <3>1
  <2>5. CASE Critical(day.open) # {}
    <3>1. PICK e \in day.open : e.critical
      BY <2>5 DEF Critical
    <3> DEFINE a == [id |-> e.key[1],
                     priority |-> IF e.critical THEN "critical" ELSE "warning"]
    <3>2. a \in actionItems(g, day) /\ a.priority = "critical"
      BY <3>1, ItemsAre
    <3> QED
      BY <3>2
  <2> QED
    BY <1>3, <2>1, <2>2, <2>3, <2>4, <2>5, BlockersAre
<1>4. ASSUME NEW a \in actionItems(g, day), a.priority = "critical"
      PROVE  \/ \E b \in readinessBlockers(g, day) : b.priority = "critical"
             \/ Expected /\ getWorkerStatus = "clocked_out" /\ now <= End
  <2>1. CASE day.unavailable /\ a = [id |-> "schedules:unavailable",
                                     priority |-> CoveragePriority(day)]
    <3> DEFINE b == [id |-> "schedule:unavailable", priority |-> CoveragePriority(day)]
    <3>1. b \in readinessBlockers(g, day)
      BY <2>1, BlockersAre
    <3>2. b.priority = "critical"
      BY <1>4, <2>1
    <3> QED
      BY <3>1, <3>2
  <2>2. CASE day.department = "critical"
    <3> DEFINE b == [id |-> "attendance:missing-arrivals", priority |-> "critical"]
    <3>1. day.missing => b \in readinessBlockers(g, day) /\ b.priority = "critical"
      BY BlockersAre
    <3> QED
      BY <1>2, <2>2, <3>1
  <2>3. CASE g.kiosk.status \in {"offline", "never_synced"}
    <3> DEFINE b == [id |-> "kiosk:offline", priority |-> "critical"]
    <3>1. b \in readinessBlockers(g, day) /\ b.priority = "critical"
      BY <2>3, BlockersAre DEF Silent
    <3> QED
      BY <3>1
  <2>4. CASE hasScanBlockingDeviceFault(g.kiosk)
    <3> DEFINE b == [id |-> "kiosk:device-fault", priority |-> "critical"]
    <3>1. b \in readinessBlockers(g, day) /\ b.priority = "critical"
      BY <2>4, BlockersAre
    <3> QED
      BY <3>1
  <2>5. CASE \E e \in day.open : e.critical
    <3> DEFINE b == [id |-> "exception:critical", priority |-> "critical"]
    <3>1. Critical(day.open) # {}
      BY <2>5 DEF Critical
    <3>2. b \in readinessBlockers(g, day) /\ b.priority = "critical"
      BY <3>1, BlockersAre
    <3> QED
      BY <3>2
  <2>6. \/ day.unavailable /\ a = [id |-> "schedules:unavailable",
                                   priority |-> CoveragePriority(day)]
        \/ day.department = "critical"
        \/ g.kiosk.status \notin {"online", "stale"}
        \/ hasScanBlockingDeviceFault(g.kiosk)
        \/ \E e \in day.open : e.critical
    BY <1>1, <1>4, ItemsAre DEF Levels
  <2> QED
    BY <1>1, <2>1, <2>2, <2>3, <2>4, <2>5, <2>6 DEF KioskStatus
<1>5. blocked \ {"enrollment:invalid-face-data"} # {} =>
         \E a \in primaryAction(g, day) : a.priority = "critical"
  <2> SUFFICES ASSUME blocked \ {"enrollment:invalid-face-data"} # {}
               PROVE  \E a \in primaryAction(g, day) : a.priority = "critical"
    OBVIOUS
  <2>1. PICK b \in readinessBlockers(g, day) :
          b.priority = "critical" /\ b.id # "enrollment:invalid-face-data"
    OBVIOUS
  <2>2. PICK a \in actionItems(g, day) : a.priority = "critical"
    BY <1>3, <2>1
  <2> QED
    BY <1>1, <2>2, FirstAre
<1>6. \A a \in primaryAction(g, day) : a.priority = "critical" =>
         \/ blocked # {}
         \/ Expected /\ getWorkerStatus = "clocked_out" /\ now <= End
  BY <1>1, <1>4, FirstAre
<1> QED
  BY <1>5, <1>6 DEF FirstThingsFirst, day

LEMMA RisksAre ==
    ASSUME NEW g, NEW day, NEW r
    PROVE  r \in closeoutRisks(g, day) <=>
             \/ /\ MissingClockOuts(day.open) # {}
                /\ r = [id |-> "closeout:missing-clock-outs", priority |-> "warning"]
             \/ /\ g.recognition # "none"
                /\ r = [id |-> "closeout:recognition-reviews", priority |-> g.recognition]
             \/ /\ getKioskWarningReasons(g.kiosk) # {}
                /\ r = [id |-> "closeout:kiosk-warnings",
                        priority |-> IF \/ Silent(g.kiosk)
                                        \/ hasScanBlockingDeviceFault(g.kiosk)
                                     THEN "critical" ELSE "warning"]
             \/ /\ day.open # {} \/ g.recognition # "none"
                /\ r = [id |-> "closeout:open-exceptions",
                        priority |-> IF Critical(day.open) # {} THEN "critical"
                                     ELSE "warning"]
             \/ g.corrected /\ r = [id |-> "closeout:attendance-corrections",
                                    priority |-> "info"]
             \/ /\ day.onRoster /\ g.face = "missing"
                /\ r = [id |-> "closeout:missing-face-data", priority |-> "warning"]
BY DEF closeoutRisks, Found

LEMMA ChecklistIs ==
    ASSUME NEW g, NEW day, NEW x
    PROVE  x \in buildChecklist(g, day, FALSE) <=>
             \/ day.unavailable /\ x = "schedule_coverage"
             \/ day.notYetDue /\ x = "not_yet_due"
             \/ Critical(day.open) # {} /\ x = "critical_exceptions"
             \/ MissingClockOuts(day.open) # {} /\ x = "missing_clock_outs"
             \/ getKioskWarningReasons(g.kiosk) # {} /\ x = "kiosk_warnings"
             \/ g.recognition # "none" /\ x = "recognition_reviews"
<1> DEFINE Blocker(b) ==
      \/ day.unavailable /\ b = [id |-> "schedule_coverage", priority |-> "blocked"]
      \/ day.notYetDue /\ b = [id |-> "not_yet_due", priority |-> "blocked"]
      \/ Critical(day.open) # {} /\ b = [id |-> "critical_exceptions", priority |-> "blocked"]
      \/ /\ MissingClockOuts(day.open) # {}
         /\ b = [id |-> "missing_clock_outs", priority |-> "blocked"]
      \/ /\ getKioskWarningReasons(g.kiosk) # {}
         /\ b = [id |-> "kiosk_warnings", priority |-> "blocked"]
      \/ g.recognition # "none" /\ b = [id |-> "recognition_reviews", priority |-> "blocked"]
<1>1. \A b : b \in sourceBlockers(g, day) <=> Blocker(b)
  BY DEF sourceBlockers, Found
<1>2. x \in buildChecklist(g, day, FALSE) <=> \E b \in sourceBlockers(g, day) : x = b.id
  BY DEF buildChecklist
<1>3. x \in buildChecklist(g, day, FALSE) <=> \E b : Blocker(b) /\ x = b.id
  BY <1>1, <1>2
<1> DEFINE Listed == \/ day.unavailable /\ x = "schedule_coverage"
                     \/ day.notYetDue /\ x = "not_yet_due"
                     \/ Critical(day.open) # {} /\ x = "critical_exceptions"
                     \/ MissingClockOuts(day.open) # {} /\ x = "missing_clock_outs"
                     \/ getKioskWarningReasons(g.kiosk) # {} /\ x = "kiosk_warnings"
                     \/ g.recognition # "none" /\ x = "recognition_reviews"
           row == [id |-> x, priority |-> "blocked"]
<1>4. ASSUME NEW b, Blocker(b), x = b.id
      PROVE  Listed
  BY <1>4
<1>5. ASSUME Listed
      PROVE  Blocker(row) /\ x = row.id
  BY <1>5
<1> HIDE DEF Blocker, Listed
<1>6. x \in buildChecklist(g, day, FALSE) <=> Listed
  BY <1>3, <1>4, <1>5
<1> QED
  BY <1>6 DEF Listed

\* What is found of a kiosk.
LEMMA WarningsAre ==
    ASSUME NEW kiosk
    PROVE  getKioskWarningReasons(kiosk) # {} <=>
             \/ kiosk.status # "online"
             \/ hasScanBlockingDeviceFault(kiosk)
             \/ HoldsAttendance(kiosk)
<1>1. \A x : x \in getKioskWarningReasons(kiosk) <=>
         \/ x = kiosk.status /\ x # "online"
         \/ hasScanBlockingDeviceFault(kiosk) /\ x = "device_fault"
         \/ HoldsAttendance(kiosk) /\ x = "attendance_queue"
  BY DEF getKioskWarningReasons
<1> QED
  BY <1>1

LEMMA SignoffsAgree ==
    ASSUME NEW g \in Tried
    PROVE  SignoffAgrees(g, summary)
<1> DEFINE day == summary
<1> HIDE DEF day
<1>1. hasSourceBlockers(g, day) <=> buildChecklist(g, day, FALSE) # {}
  <2>1. buildChecklist(g, day, FALSE) # {} <=> \E x : x \in buildChecklist(g, day, FALSE)
    OBVIOUS
  <2> QED
    BY <2>1, ChecklistIs DEF hasSourceBlockers
<1>2. ASSUME SignedQueue(g.kiosk).affected
      PROVE  SignedQueue(g.kiosk).listed /\ hasSourceBlockers(g, day)
  <2>1. HoldsAttendance(g.kiosk)
    BY <1>2 DEF SignedQueue
  <2>2. SignedQueue(g.kiosk).listed
    BY <2>1 DEF SignedQueue, HoldsAttendance
  <2>3. getKioskWarningReasons(g.kiosk) # {}
    BY <2>1, WarningsAre
  <2> QED
    BY <2>2, <2>3 DEF hasSourceBlockers
<1>3. ASSUME readinessStatus(g, day) = "ready"
      PROVE  /\ day.open = {}
             /\ g.kiosk.status = "online"
             /\ buildChecklist(g, day, FALSE) \subseteq {"not_yet_due"}
  <2>1. /\ readinessBlockers(g, day) = {}
        /\ \A r \in closeoutRisks(g, day) : r.priority = "info"
    BY <1>3 DEF readinessStatus
  <2>2. day.open = {} /\ g.recognition \in {"none", "info"}
    <3> DEFINE r == [id |-> "closeout:open-exceptions",
                     priority |-> IF Critical(day.open) # {} THEN "critical"
                                  ELSE "warning"]
    <3>1. r.priority # "info"
      OBVIOUS
    <3>2. r \notin closeoutRisks(g, day)
      BY <2>1, <3>1
    <3> HIDE DEF r
    <3>3. day.open # {} \/ g.recognition # "none" => r \in closeoutRisks(g, day)
      BY RisksAre DEF r
    <3> QED
      BY <3>2, <3>3
  <2>3. getKioskWarningReasons(g.kiosk) = {}
    <3> DEFINE r == [id |-> "closeout:kiosk-warnings",
                     priority |-> IF \/ Silent(g.kiosk)
                                     \/ hasScanBlockingDeviceFault(g.kiosk)
                                  THEN "critical" ELSE "warning"]
    <3>1. r.priority # "info"
      OBVIOUS
    <3>2. r \notin closeoutRisks(g, day)
      BY <2>1, <3>1
    <3> HIDE DEF r
    <3>3. getKioskWarningReasons(g.kiosk) # {} => r \in closeoutRisks(g, day)
      BY RisksAre DEF r
    <3> QED
      BY <3>2, <3>3
  <2>4. g.recognition = "none"
    <3> DEFINE r == [id |-> "closeout:open-exceptions",
                     priority |-> IF Critical(day.open) # {} THEN "critical"
                                  ELSE "warning"]
    <3>1. r.priority # "info"
      OBVIOUS
    <3>2. r \notin closeoutRisks(g, day)
      BY <2>1, <3>1
    <3> HIDE DEF r
    <3>3. g.recognition # "none" => r \in closeoutRisks(g, day)
      BY RisksAre DEF r
    <3> QED
      BY <3>2, <3>3
  <2>5. ~day.unavailable
    <3> DEFINE b == [id |-> "schedule:unavailable", priority |-> CoveragePriority(day)]
    <3>1. day.unavailable => b \in readinessBlockers(g, day)
      BY BlockersAre
    <3> QED
      BY <2>1, <3>1
  <2>6. Critical(day.open) = {} /\ MissingClockOuts(day.open) = {}
    BY <2>2 DEF Critical, MissingClockOuts
  <2>7. buildChecklist(g, day, FALSE) \subseteq {"not_yet_due"}
    BY <2>3, <2>4, <2>5, <2>6, ChecklistIs
  <2> QED
    BY <2>2, <2>3, <2>7, WarningsAre
<1> QED
  BY <1>1, <1>2, <1>3 DEF SignoffAgrees, day

LEMMA BriefingIsOfTheDay ==
    ASSUME PunchesOK
    PROVE  BriefingAgrees
<1> DEFINE raised == {e.key[1] : e \in buildShiftExceptions}
<1>1. ArrivalsAgree(summary, raised)
  BY ArrivalsAlwaysAgree
<1>2. ASSUME "missing_arrival" \in raised
      PROVE  readinessStatus(Good, summary) = "blocked"
  <2>1. summary.missing
    BY <1>1, <1>2 DEF ArrivalsAgree
  <2> DEFINE b == [id |-> "attendance:missing-arrivals", priority |-> "critical"]
             day == summary
  <2>2. b \in readinessBlockers(Good, day) /\ b.priority = "critical"
    BY <2>1, BlockersAre
  <2> HIDE DEF day
  <2>3. /\ \E c \in readinessBlockers(Good, day) : c.priority = "critical"
        /\ ~\A c \in readinessBlockers(Good, day) : c.priority # "critical"
    BY <2>2
  <2> QED
    BY <2>3 DEF readinessStatus, day
<1> HIDE DEF raised
<1>3. \A g \in Tried : FirstThingsFirst(g, summary) /\ SignoffAgrees(g, summary)
  BY FirstThingsAreFirst, SignoffsAgree
<1> QED
  BY <1>1, <1>2, <1>3 DEF BriefingAgrees, raised

-----------------------------------------------------------------------------
(* The hours.                                                              *)

Known(d) == On(punches, d - 1) \cup On(punches, d)
OpenAt(d, slot) ==
    IF On(Since(Known(d), slot), d) # {} THEN On(Since(Known(d), slot), d)
    ELSE Since(Known(d), slot)
Carried(d) == On(Since(Known(d), (d + 1) * DayLen), d)
Closing(d) ==
    IF Carried(d) # {} /\ On(punches, d + 1) # {}
    THEN Outs({Earliest(On(punches, d + 1))}) ELSE {}
Exits(d) == Outs(On(punches, d)) \cup Closing(d)

LEMMA RowIs ==
    ASSUME NEW d
    PROVE  /\ HoursRow(d).paid = {<<Earliest(On(OpenAt(d, q.at), d)).at, q.at>> :
                                    q \in {x \in Exits(d) : On(OpenAt(d, x.at), d) # {}}}
           /\ HoursRow(d).ambiguous <=>
                 \/ \E p \in Ins(On(punches, d)) : Since(Known(d), p.at) # {}
                 \/ \E q \in Exits(d) : Cardinality(Since(Known(d), q.at)) > 1
                 \/ \E q \in Outs(On(punches, d)) : OpenAt(d, q.at) = {}
                 \/ \E q \in Exits(d) : /\ OpenAt(d, q.at) # {}
                                        /\ q.at - Earliest(OpenAt(d, q.at)).at > MaxShift
                 \/ Carried(d) # {} /\ Closing(d) = {}
BY DEF HoursRow, Known, OpenAt, Carried, Closing, Exits

LEMMA TwoAreMore ==
    ASSUME NEW S, IsFiniteSet(S), ~(Cardinality(S) > 1), NEW a \in S
    PROVE  S = {a}
<1> SUFFICES ASSUME NEW b \in S, b # a
             PROVE  FALSE
  OBVIOUS
<1>1. IsFiniteSet({a}) /\ Cardinality({a}) = 1
  BY FS_Singleton
<1>2. IsFiniteSet({a} \cup {b}) /\ Cardinality({a} \cup {b}) = 2
  BY <1>1, FS_AddElement
<1>3. Cardinality({a} \cup {b}) <= Cardinality(S)
  BY FS_Subset
<1>4. Cardinality(S) \in Nat
  BY FS_CardinalityType
<1> QED
  BY <1>2, <1>3, <1>4

\* The exits of a date, and the entries each of them may end.
LEMMA ExitsAre ==
    ASSUME PunchesOK, NEW d \in 0..2, NEW q \in Exits(d)
    PROVE  /\ q \in punches /\ q.type = "out" /\ q.at \in Nat
           /\ DateOf(q.at) \in {d, d + 1}
           /\ DateOf(q.at) = d => q \in Known(d)
           /\ DateOf(q.at) = d + 1 =>
                 \A p \in punches : DateOf(p.at) = d + 1 => q.at <= p.at
<1>1. punches \in SUBSET PunchRow
  BY DEF PunchesOK, WellFormed
<1>2. CASE q \in Outs(On(punches, d))
  <2>1. q \in punches /\ q.type = "out" /\ DateOf(q.at) = d
    BY <1>2 DEF Outs, On
  <2>2. q \in Known(d)
    BY <2>1 DEF Known, On
  <2>3. d # d + 1
    OBVIOUS
  <2> QED
    BY <1>1, <2>1, <2>2, <2>3 DEF PunchRow
<1>3. CASE q \in Closing(d)
  <2> DEFINE next == On(punches, d + 1)
  <2>1. next # {} /\ q = Earliest(next) /\ q.type = "out"
    BY <1>3 DEF Closing, Outs
  <2>2. next \in SUBSET PunchRow
    BY <1>1 DEF On
  <2>3. q \in next /\ \A p \in next : q.at <= p.at
    <3> HIDE DEF next
    <3> QED
      BY <2>1, <2>2, EarliestIs
  <2>4. q \in punches /\ DateOf(q.at) = d + 1
    BY <2>3 DEF On
  <2>5. \A p \in punches : DateOf(p.at) = d + 1 => q.at <= p.at
    BY <2>3 DEF On
  <2>6. d # d + 1
    OBVIOUS
  <2> QED
    BY <1>1, <2>1, <2>4, <2>5, <2>6 DEF PunchRow
<1> QED
  BY <1>2, <1>3 DEF Exits

LEMMA SinceIs ==
    ASSUME NEW P, NEW slot, NEW i
    PROVE  i \in Since(P, slot) <=>
             /\ i \in P /\ i.type = "in" /\ i.at < slot
             /\ \A q \in P : q.type = "out" => ~(i.at < q.at /\ q.at < slot)
BY DEF Since, Ins, Outs

\* An interval is known to be paid by its entry and exit.
PaidFor(d, i, q) ==
    /\ q \in Exits(d)
    /\ i \in punches /\ i.type = "in" /\ DateOf(i.at) = d
    /\ i.at \in Nat /\ q.at \in Nat /\ i.at < q.at
    /\ Since(Known(d), q.at) = {i}
    /\ q.at - i.at <= MaxShift

\* What one exit ends, in a row that is not withheld.
LEMMA ExitEnds ==
    ASSUME PunchesOK, NEW d \in 0..2, ~HoursRow(d).ambiguous, NEW q \in Exits(d),
           NEW i \in Since(Known(d), q.at)
    PROVE  /\ Since(Known(d), q.at) = {i} /\ OpenAt(d, q.at) = {i}
           /\ i \in punches /\ i.type = "in" /\ i.at \in Nat /\ q.at \in Nat
           /\ i.at < q.at /\ q.at - i.at <= MaxShift
<1> DEFINE S == Since(Known(d), q.at)
<1>1. Known(d) \subseteq punches /\ IsFiniteSet(punches) /\ punches \in SUBSET PunchRow
  BY DEF Known, On, PunchesOK, WellFormed
<1>2. i \in Known(d) /\ i.type = "in" /\ i.at < q.at
  BY SinceIs
<1>3. S \subseteq Known(d)
  BY DEF Since, Ins
<1>4. IsFiniteSet(S)
  BY <1>1, <1>3, FS_Subset
<1>5. ~(Cardinality(S) > 1)
  BY RowIs
<1>6. S = {i}
  <2> HIDE DEF S
  <2>1. i \in S
    BY DEF S
  <2> QED
    BY <1>4, <1>5, <2>1, TwoAreMore
<1>7. OpenAt(d, q.at) = {i}
  <2>1. On({i}, d) # {} => On({i}, d) = {i}
    BY DEF On
  <2> QED
    BY <1>6, <2>1 DEF OpenAt
<1>8. i \in PunchRow /\ i \in punches
  BY <1>1, <1>2
<1>9. Earliest({i}) = i
  BY <1>8, EarliestIs
<1>10. i.at \in Nat /\ q.at \in Nat
  BY <1>8, ExitsAre DEF PunchRow
<1>11. ~(q.at - Earliest(OpenAt(d, q.at)).at > MaxShift)
  BY <1>7, RowIs
<1>12. q.at - i.at <= MaxShift
  BY <1>7, <1>9, <1>10, <1>11, Constants
<1> QED
  BY <1>2, <1>6, <1>7, <1>8, <1>10, <1>12

LEMMA PaidIs ==
    ASSUME PunchesOK, NEW d \in 0..2, NEW x \in Paid(d)
    PROVE  \E i \in punches, q \in Exits(d) : PaidFor(d, i, q) /\ x = <<i.at, q.at>>
<1>1. ~HoursRow(d).ambiguous /\ x \in HoursRow(d).paid
  BY DEF Paid
<1>2. PICK q \in Exits(d) : /\ On(OpenAt(d, q.at), d) # {}
                            /\ x = <<Earliest(On(OpenAt(d, q.at), d)).at, q.at>>
  <2> DEFINE f(q) == <<Earliest(On(OpenAt(d, q.at), d)).at, q.at>>
             g(q) == On(OpenAt(d, q.at), d) # {}
  <2>1. HoursRow(d).paid = {f(q) : q \in {y \in Exits(d) : g(y)}}
    BY RowIs
  <2> HIDE DEF f, g
  <2>2. \E q \in Exits(d) : g(q) /\ x = f(q)
    BY <1>1, <2>1
  <2> QED
    BY <2>2 DEF f, g
<1>3. PICK i \in On(OpenAt(d, q.at), d) : TRUE
  BY <1>2
<1>4. i \in Since(Known(d), q.at) /\ DateOf(i.at) = d
  BY <1>3 DEF OpenAt, On
<1>5. /\ Since(Known(d), q.at) = {i} /\ OpenAt(d, q.at) = {i}
      /\ i \in punches /\ i.type = "in" /\ i.at \in Nat /\ q.at \in Nat
      /\ i.at < q.at /\ q.at - i.at <= MaxShift
  BY <1>1, <1>4, ExitEnds
<1>6. On(OpenAt(d, q.at), d) = {i}
  BY <1>4, <1>5 DEF On
<1>7. Earliest({i}) = i
  <2>1. i \in PunchRow
    BY <1>5 DEF PunchesOK, WellFormed
  <2> QED
    BY <2>1, EarliestIs
<1>8. PaidFor(d, i, q)
  BY <1>4, <1>5 DEF PaidFor
<1>9. x = <<i.at, q.at>>
  BY <1>2, <1>6, <1>7
<1> QED
  BY <1>5, <1>8, <1>9

\* No two intervals of a date overlap, nor of two dates.
LEMMA PaidOfADate ==
    ASSUME PunchesOK, NEW d \in 0..2, NEW i \in punches, NEW q \in punches,
           NEW j \in punches, NEW r \in punches,
           PaidFor(d, i, q), PaidFor(d, j, r), q.at < r.at
    PROVE  q.at < j.at
<1>1. /\ q.type = "out" /\ j.type = "in" /\ q.at \in Nat /\ r.at \in Nat /\ j.at \in Nat
      /\ j.at < r.at
  BY ExitsAre DEF PaidFor
<1>2. q.at # j.at
  BY <1>1 DEF PunchesOK, WellFormed
<1>3. q \in Known(d)
  <2>1. SUFFICES ASSUME DateOf(q.at) = d + 1
                 PROVE  FALSE
    BY <2>1, ExitsAre DEF PaidFor
  <2>2. CASE DateOf(r.at) = d
    <3>1. DateOf(r.at) < DateOf(q.at)
      BY <2>1, <2>2
    <3>2. r.at < q.at
      BY <1>1, <3>1, Dates
    <3> QED
      BY <1>1, <3>2
  <2>3. CASE DateOf(r.at) = d + 1
    <3>1. r.at <= q.at
      BY <2>1, <2>3, ExitsAre DEF PaidFor
    <3> QED
      BY <1>1, <3>1
  <2> QED
    BY <2>2, <2>3, ExitsAre DEF PaidFor
<1>4. j \in Since(Known(d), r.at)
  BY DEF PaidFor
<1>5. ~(j.at < q.at /\ q.at < r.at)
  BY <1>1, <1>3, <1>4, SinceIs
<1> QED
  BY <1>1, <1>2, <1>5

LEMMA PaidOfTwoDates ==
    ASSUME PunchesOK, NEW d \in 0..2, NEW e \in 0..2, d < e,
           NEW i \in punches, NEW q \in punches, NEW j \in punches, NEW r \in punches,
           PaidFor(d, i, q), PaidFor(e, j, r)
    PROVE  q.at < j.at
<1>1. /\ q.type = "out" /\ j.type = "in" /\ q.at \in Nat /\ j.at \in Nat
      /\ DateOf(j.at) = e
  BY ExitsAre DEF PaidFor
<1>2. q.at # j.at
  BY <1>1 DEF PunchesOK, WellFormed
<1>3. CASE DateOf(q.at) < e
  BY <1>1, <1>3, Dates
<1>4. CASE ~(DateOf(q.at) < e)
  <2>1. DateOf(q.at) = d + 1 /\ e = d + 1
    BY <1>4, ExitsAre DEF PaidFor
  <2>2. q.at <= j.at
    BY <1>1, <2>1, ExitsAre DEF PaidFor
  <2> QED
    BY <1>1, <1>2, <2>2
<1> QED
  BY <1>3, <1>4

\* The entries since the last exit.
SinceExit(P, out) ==
    {p \in Ins(Before(P, out)) : \A q \in Outs(Before(P, out)) : q.at < p.at}

LEMMA OpenInsAre ==
    ASSUME NEW P, NEW out
    PROVE  OpenIns(P, out) = {p \in SinceExit(P, out) :
                                DateOf(p.at) = DateOf(Latest(SinceExit(P, out)).at)}
BY DEF OpenIns, SinceExit

LEMMA SinceExitIs ==
    ASSUME NEW P, NEW out, NEW i
    PROVE  i \in SinceExit(P, out) <=>
             /\ i \in P /\ i.type = "in" /\ i.at < out.at
             /\ \A q \in P : q.type = "out" /\ q.at < out.at => q.at < i.at
BY DEF SinceExit, Ins, Outs, Before

\* The hours and the exceptions pair alike what the hours do not withhold.
LEMMA ExitPairs ==
    ASSUME PunchesOK, ~HoursRow(Date).ambiguous, NEW q \in Exits(Date),
           NEW i \in Since(Known(Date), q.at)
    PROVE  /\ OpenIns(punches, q) = {i} /\ Earliest({i}) = i
           /\ q \in PairedOuts(punches)
<1> DEFINE K == Known(Date)
<1>1. /\ Since(K, q.at) = {i}
      /\ i \in punches /\ i.type = "in" /\ i.at \in Nat /\ q.at \in Nat
      /\ i.at < q.at /\ q.at - i.at <= MaxShift
  BY ExitEnds DEF Date
<1>2. /\ q \in punches /\ q.type = "out" /\ DateOf(q.at) \in {1, 2}
      /\ DateOf(q.at) = 2 => \A p \in punches : DateOf(p.at) = 2 => q.at <= p.at
  BY ExitsAre DEF Date
<1>3. WellFormed(punches)
  BY DEF PunchesOK
<1>4. \A p \in punches : p.at \in Nat /\ p.type \in {"in", "out"}
  BY <1>3 DEF WellFormed, PunchRow
\* Whatever came before the exit was known.
<1>5. ASSUME NEW p \in punches, p.at < q.at
      PROVE  p \in K
  <2>1. DateOf(p.at) \in 0..2
    BY <1>3, DatesOf
  <2>2. DateOf(p.at) # 2
    <3> SUFFICES ASSUME DateOf(p.at) = 2
                 PROVE  FALSE
      OBVIOUS
    <3>1. DateOf(p.at) <= DateOf(q.at)
      BY <1>1, <1>4, <1>5, Dates
    <3>2. DateOf(q.at) = 2
      BY <1>2, <3>1
    <3>3. q.at <= p.at
      BY <1>2, <3>2
    <3> QED
      BY <1>1, <1>4, <1>5, <3>3
  <2>3. DateOf(p.at) \in {0, 1}
    BY <2>1, <2>2
  <2> QED
    BY <2>3 DEF Known, On, Date
<1>6. K \subseteq punches
  BY DEF Known, On
<1>7. SinceExit(punches, q) = {i}
  <2> HIDE DEF K
  <2>1. i \in SinceExit(punches, q)
    <3> SUFFICES ASSUME NEW r \in punches, r.type = "out", r.at < q.at
                 PROVE  r.at < i.at
      BY <1>1, SinceExitIs
    <3>1. r \in K
      BY <1>5
    <3>2. ~(i.at < r.at /\ r.at < q.at)
      BY <1>1, <3>1, SinceIs
    <3>3. r.at # i.at
      BY <1>1, <1>3 DEF WellFormed
    <3> QED
      BY <1>1, <1>4, <3>2, <3>3
  <2>2. ASSUME NEW p \in SinceExit(punches, q)
        PROVE  p = i
    <3>1. /\ p \in punches /\ p.type = "in" /\ p.at < q.at
          /\ \A r \in punches : r.type = "out" /\ r.at < q.at => r.at < p.at
      BY <2>2, SinceExitIs
    <3>2. \A r \in K : r.type = "out" => ~(p.at < r.at /\ r.at < q.at)
      BY <1>4, <1>6, <3>1
    <3>3. p \in Since(K, q.at)
      BY <1>5, <3>1, <3>2, SinceIs
    <3> QED
      BY <1>1, <3>3
  <2> QED
    BY <2>1, <2>2
<1>8. i \in PunchRow
  BY <1>1, <1>3 DEF WellFormed
<1>9. Latest({i}) = i /\ Earliest({i}) = i
  BY <1>1, <1>3, <1>8, LatestOf, EarliestIs
<1>10. OpenIns(punches, q) = {i}
  BY <1>7, <1>9, OpenInsAre
<1>11. isPlausibleShift(i.at, q.at)
  BY <1>1, Constants DEF isPlausibleShift
<1> QED
  BY <1>2, <1>9, <1>10, <1>11 DEF PairedOuts, Closes, Outs

LEMMA PaidIsPaired ==
    ASSUME PunchesOK, NEW x \in Paid(Date)
    PROVE  \E q \in PairedOuts(punches) :
              x = <<Earliest(OpenIns(punches, q)).at, q.at>>
<1>1. Date \in 0..2 /\ ~HoursRow(Date).ambiguous
  BY DEF Paid, Date
<1>2. PICK i \in punches, q \in Exits(Date) : PaidFor(Date, i, q) /\ x = <<i.at, q.at>>
  BY <1>1, PaidIs
<1>3. i \in Since(Known(Date), q.at)
  BY <1>2 DEF PaidFor
<1> QED
  BY <1>1, <1>2, <1>3, ExitPairs

\* What was before a punch of the date is known to its row.
LEMMA BeforeIsKnown ==
    ASSUME PunchesOK, NEW p \in Today, NEW r \in Before(punches, p)
    PROVE  r \in Known(Date) /\ r.at \in Nat /\ p.at \in Nat /\ r.at < p.at
<1>1. p \in punches /\ r \in punches /\ r.at < p.at /\ DateOf(p.at) = 1
  BY DEF Today, On, Before, Date
<1>2. p.at \in Nat /\ r.at \in Nat /\ DateOf(r.at) \in 0..2
  BY <1>1, DatesOf DEF PunchesOK
<1>3. DateOf(r.at) <= DateOf(p.at)
  BY <1>1, <1>2, Dates
<1>4. DateOf(r.at) \in {0, 1}
  BY <1>1, <1>2, <1>3
<1> QED
  BY <1>1, <1>2, <1>4 DEF Known, On, Date

\* Every exit of the date ends a shift when the hours are not withheld.
LEMMA TodaysExitsPair ==
    ASSUME PunchesOK, ~HoursRow(Date).ambiguous, NEW p \in Today, p.type = "out"
    PROVE  /\ \E i : i \in Since(Known(Date), p.at)
           /\ p \in PairedOuts(punches)
<1>1. p \in Outs(On(punches, Date)) /\ p \in Exits(Date)
  BY DEF Outs, Today, Exits
<1>2. OpenAt(Date, p.at) # {}
  BY <1>1, RowIs
<1>3. Since(Known(Date), p.at) # {}
  BY <1>2 DEF OpenAt, On
<1>4. PICK i : i \in Since(Known(Date), p.at)
  BY <1>3
<1> QED
  BY <1>1, <1>4, ExitPairs

LEMMA NoneOutOfSequence ==
    ASSUME PunchesOK, ~HoursRow(Date).ambiguous, NEW p \in Today, NEW e \in ScanSequence(p)
    PROVE  FALSE
<1>1. p \in punches /\ p.type \in {"in", "out"}
  BY DEF Today, On, PunchesOK, WellFormed, PunchRow
<1>2. CASE p \in Repeated(punches)
  <2> DEFINE r == Latest(Before(punches, p))
  <2>1. Before(punches, p) # {} /\ r.type = p.type
    BY <1>2 DEF Repeated
  <2>2. Before(punches, p) \in SUBSET punches
    BY DEF Before
  <2>3. r \in Before(punches, p) /\ \A q \in Before(punches, p) : r.at >= q.at
    BY <2>1, <2>2, LatestOf DEF PunchesOK
  <2>4. r \in Known(Date) /\ r.at \in Nat /\ p.at \in Nat /\ r.at < p.at
    BY <2>3, BeforeIsKnown
  <2> HIDE DEF r
  <2>5. CASE p.type = "in"
    <3>1. \A q \in Known(Date) : q.at < p.at => r.at >= q.at
      BY <2>3 DEF Known, On, Before
    <3>2. \A q \in Known(Date) : q.at \in Nat
      BY DEF Known, On, PunchesOK, WellFormed, PunchRow
    <3>3. r \in Since(Known(Date), p.at)
      BY <2>1, <2>4, <2>5, <3>1, <3>2, SinceIs
    <3>4. p \in Ins(On(punches, Date))
      BY <2>5 DEF Ins, Today
    <3> QED
      BY <3>3, <3>4, RowIs
  <2>6. CASE p.type = "out"
    <3>1. PICK i : i \in Since(Known(Date), p.at)
      BY <2>6, TodaysExitsPair
    <3>2. /\ i \in Known(Date) /\ i.type = "in" /\ i.at < p.at
          /\ ~(i.at < r.at /\ r.at < p.at)
      BY <2>1, <2>4, <2>6, <3>1, SinceIs
    <3>3. i \in punches /\ i \in Before(punches, p)
      BY <3>2 DEF Known, On, Before
    <3>4. i.at \in Nat /\ r.at >= i.at
      BY <2>3, <3>3, BeforeIsKnown
    <3>5. r.at # i.at
      <4>1. r \in punches
        BY <2>3, <2>2
      <4> QED
        BY <2>1, <2>6, <3>2, <3>3, <4>1 DEF PunchesOK, WellFormed
    <3> QED
      BY <2>4, <3>2, <3>4, <3>5
  <2> QED
    BY <1>1, <2>5, <2>6
<1>3. CASE p.type = "out" /\ p \notin PairedOuts(punches)
  BY <1>3, TodaysExitsPair
<1>4. CASE p \in Overlong(punches)
  <2>1. p.type = "out" /\ ~Closes(punches, p)
    BY <1>4 DEF Overlong, Outs
  <2>2. p \in PairedOuts(punches)
    BY <2>1, TodaysExitsPair
  <2> QED
    BY <2>1, <2>2 DEF PairedOuts
<1> QED
  BY <1>2, <1>3, <1>4, ScanIs

LEMMA NoneUnfinished ==
    ASSUME PunchesOK, ~HoursRow(Date).ambiguous, UnfinishedShift
    PROVE  FALSE
<1> DEFINE L == LastEvent
<1>1. Today # {} /\ L.type = "in" /\ L \notin PairedIns(punches)
  BY DEF UnfinishedShift
<1>2. Today \in SUBSET punches
  BY DEF Today, On
<1>3. L \in Today /\ \A q \in Today : L.at >= q.at
  BY <1>1, <1>2, LatestOf DEF LastEvent, PunchesOK
<1> HIDE DEF L
<1>4. L \in punches /\ DateOf(L.at) = 1 /\ L.at \in Nat
  BY <1>3 DEF Today, On, Date, PunchesOK, WellFormed, PunchRow
<1>5. \A q \in Known(Date) : q.at \in Nat /\ (q \in Today \/ DateOf(q.at) = 0)
  BY DEF Known, On, Date, Today, PunchesOK, WellFormed, PunchRow
<1>6. \A q \in Known(Date) : L.at >= q.at
  <2> TAKE q \in Known(Date)
  <2>1. CASE DateOf(q.at) = 0
    <3>1. q.at < L.at
      BY <1>4, <1>5, <2>1, Dates
    <3> QED
      BY <1>4, <1>5, <3>1
  <2> QED
    BY <1>3, <1>5, <2>1
<1>7. L \in Known(Date)
  BY <1>3 DEF Known, Today
<1>8. ASSUME NEW slot \in Nat, L.at < slot
      PROVE  L \in Since(Known(Date), slot)
  BY <1>1, <1>4, <1>5, <1>6, <1>7, <1>8, SinceIs
<1>9. L.at < (Date + 1) * DayLen /\ (Date + 1) * DayLen \in Nat
  <2>1. L.at < (1 + 1) * DayLen
    BY <1>4, Dates
  <2> QED
    BY <2>1, Constants DEF Date
<1>10. Carried(Date) # {}
  <2>1. L \in Carried(Date)
    BY <1>4, <1>8, <1>9 DEF Carried, On, Date
  <2> QED
    BY <2>1
<1>11. Closing(Date) # {}
  BY <1>10, RowIs
<1>12. PICK q \in Closing(Date) : TRUE
  BY <1>11
<1>13. q \in Exits(Date) /\ q.at \in Nat
  <2>1. q \in Exits(Date)
    BY <1>12 DEF Exits
  <2> QED
    BY <2>1, ExitsAre DEF Date
<1>14. DateOf(q.at) = 2
  <2> DEFINE next == On(punches, Date + 1)
  <2>1. next # {} /\ q = Earliest(next)
    BY <1>12 DEF Closing, Outs
  <2>2. next \in SUBSET PunchRow
    BY DEF On, PunchesOK, WellFormed
  <2>3. q \in next
    <3> HIDE DEF next
    <3> QED
      BY <2>1, <2>2, EarliestIs
  <2> QED
    BY <2>3 DEF On, Date
<1>15. L \in Since(Known(Date), q.at)
  <2>1. L.at < q.at
    BY <1>4, <1>13, <1>14, Dates
  <2> QED
    BY <1>8, <1>13, <2>1
<1>16. q \in PairedOuts(punches) /\ OpenIns(punches, q) = {L}
  BY <1>13, <1>15, ExitPairs
<1>17. L \in PairedIns(punches)
  BY <1>16 DEF PairedIns
<1> QED
  BY <1>1, <1>17

LEMMA HoursAreOfTheEvidence ==
    ASSUME PunchesOK
    PROVE  HoursAgree
<1> DEFINE paid == [d \in 0..2 |-> Paid(d)]
<1>1. ASSUME NEW d \in 0..2, NEW e \in 0..2, NEW x \in paid[d], NEW y \in paid[e],
             <<d, x>> # <<e, y>>
      PROVE  x[2] < y[1] \/ y[2] < x[1]
  <2>1. PICK i \in punches, q \in Exits(d) : PaidFor(d, i, q) /\ x = <<i.at, q.at>>
    BY PaidIs
  <2>2. PICK j \in punches, r \in Exits(e) : PaidFor(e, j, r) /\ y = <<j.at, r.at>>
    BY PaidIs
  <2>3. x[1] = i.at /\ x[2] = q.at /\ y[1] = j.at /\ y[2] = r.at
    BY <2>1, <2>2
  <2>4. q \in punches /\ r \in punches /\ q.at \in Nat /\ r.at \in Nat
    BY ExitsAre
  <2>5. CASE d < e
    BY <2>1, <2>2, <2>3, <2>4, <2>5, PaidOfTwoDates
  <2>6. CASE e < d
    BY <2>1, <2>2, <2>3, <2>4, <2>6, PaidOfTwoDates
  <2>7. CASE d = e
    <3>1. CASE q.at < r.at
      BY <2>1, <2>2, <2>3, <2>4, <2>7, <3>1, PaidOfADate
    <3>2. CASE r.at < q.at
      BY <2>1, <2>2, <2>3, <2>4, <2>7, <3>2, PaidOfADate
    <3>3. CASE q.at = r.at
      <4>1. q = r
        BY <2>4, <3>3 DEF PunchesOK, WellFormed
      <4>2. i = j
        BY <2>1, <2>2, <2>7, <4>1 DEF PaidFor
      <4> QED
        BY <1>1, <2>1, <2>2, <2>7, <4>1, <4>2
    <3> QED
      BY <2>4, <3>1, <3>2, <3>3
  <2>8. d \in Int /\ e \in Int
    OBVIOUS
  <2> QED
    BY <2>5, <2>6, <2>7, <2>8
<1>2. \A x \in paid[Date] : \E q \in PairedOuts(punches) :
         x = <<Earliest(OpenIns(punches, q)).at, q.at>>
  <2>1. paid[Date] = Paid(Date)
    BY DEF Date
  <2> QED
    BY <2>1, PaidIsPaired
<1>3. ASSUME ~HoursRow(Date).ambiguous, Active, NEW e \in buildShiftExceptions
      PROVE  e.key[1] \notin {"scan_sequence", "missing_clock_out"}
  <2>1. deactivated = Never
    BY <1>3 DEF Active
  <2>2. CASE e \in ScheduleExceptions
    BY <2>2, ScheduleIs DEF IsException, ScheduleTypes
  <2>3. CASE e \in ArrivalExceptions
    BY <2>3, ArrivalIs DEF IsException
  <2>4. CASE e \in MissingClockOut
    BY <1>3, <2>4, MissingIs, NoneUnfinished
  <2>5. CASE \E p \in Today : e \in ScanSequence(p)
    BY <1>3, <2>5, NoneOutOfSequence
  <2> QED
    BY <2>1, <2>2, <2>3, <2>4, <2>5, ExceptionsAre
<1> QED
  BY <1>1, <1>2, <1>3 DEF HoursAgree

-----------------------------------------------------------------------------
(* What a page and a review were made of: the punches and the assignment   *)
(* of that time, or one scan of a removed worker.                          *)

Enc(P, a) == {<<p.at, p.type, p.source>> : p \in P} \cup {<<0, a, "">>}
Alone(p, d) == {<<p.at, p.type, p.source>>, <<d, "removed", "">>}

Rev(type, P) ==
    CASE type = "missing_clock_out" ->
            {p \in P : \/ DateOf(p.at) # Date + 1
                       \/ isPlausibleShift(Latest(On(P, Date)).at, p.at)}
      [] type \in {"missing_arrival", "late_arrival"} -> Ins(On(P, Date))
      [] OTHER -> P

EndOf(a) == Date * DayLen + Schedules[a].end

\* A scan that may be voided by one tap.
Voidable(P, p) ==
    /\ p \notin Overlong(P)
    /\ ~HasCounterpart(P, p)
    /\ p \in Repeated(P) => DateOf(Latest(Before(P, p)).at) = Date
    /\ p.type = "in" => p \in Repeated(P)

Tells(key, sees, offer, P, a) ==
    \/ key[1] \in ScheduleTypes /\ sees = On(P, Date) /\ offer = "review"
    \/ /\ key[1] = "missing_arrival" /\ sees = {} /\ offer = "add_in"
       /\ a \in DOMAIN Schedules
    \/ key[1] = "late_arrival" /\ sees = Ins(On(P, Date)) /\ offer = "review"
    \/ /\ key[1] = "missing_clock_out" /\ sees = MissingSees(P)
       /\ offer \in {"review", "add_out"}
       /\ On(P, Date) # {} /\ Latest(On(P, Date)).type = "in"
       /\ offer = "add_out" =>
             /\ a \in DOMAIN Schedules
             /\ ~HasCounterpart(P, Latest(On(P, Date)))
             /\ ~(Latest(On(P, Date)).at >= EndOf(a))
    \/ /\ key[1] = "scan_sequence" /\ offer \in {"review", "void"}
       /\ \E p \in On(P, Date) : /\ key[2] = p.at /\ sees = ScanSees(P, p)
                                 /\ offer = "void" => Voidable(P, p)

TellsAlone(key, sees, offer, evidence, d) ==
    \E p \in PunchRow :
       /\ key = <<"inactive_worker_scan", p.at>> /\ sees = {<<p.at, p.type>>}
       /\ offer = "review" /\ evidence = Alone(p, d)

Raised(e) ==
    \/ /\ deactivated = Never
       /\ e.evidence = Enc(punches, assignment)
       /\ e.binds = Enc(Rev(e.key[1], punches), assignment)
       /\ Tells(e.key, e.sees, e.offer, punches, assignment)
    \/ /\ deactivated # Never
       /\ e.binds = e.evidence
       /\ TellsAlone(e.key, e.sees, e.offer, e.evidence, deactivated)
       /\ \E p \in punches : e.key[2] = p.at /\ e.evidence = Alone(p, deactivated)

LEMMA EvidenceIs ==
    ASSUME NEW type
    PROVE  /\ SourceEvidence = Enc(punches, assignment)
           /\ ReviewEvidence(type) = Enc(Rev(type, punches), assignment)
<1>1. ReviewPunches(type) = Rev(type, punches)
  BY DEF ReviewPunches, Rev, LastEvent, Today
<1>2. SourceEvidence = Enc(punches, assignment)
  BY DEF SourceEvidence, Enc
<1>3. ReviewEvidence(type) = Enc(ReviewPunches(type), assignment)
  BY DEF ReviewEvidence, Enc
<1> QED
  BY <1>1, <1>2, <1>3

\* An exception says what it is bound to.
LEMMA ExceptionsTell ==
    PunchesOK => \A e \in buildShiftExceptions : Raised(e)
<1> SUFFICES ASSUME PunchesOK, NEW e \in buildShiftExceptions
             PROVE  Raised(e)
  OBVIOUS
<1> DEFINE Told(type, id, sees, offer) ==
      /\ e.key[1] = type /\ e.key[2] = id /\ e.sees = sees /\ e.offer = offer
<1>1. CASE deactivated # Never
  <2>1. PICK p \in Today : e \in InactiveScan(p)
    BY <1>1, ExceptionsAre
  <2>2. p \in punches /\ p \in PunchRow
    BY DEF Today, On, PunchesOK, WellFormed
  <2>3. /\ e.key = <<"inactive_worker_scan", p.at>> /\ e.offer = "review"
        /\ e.evidence = Alone(p, deactivated) /\ e.binds = Alone(p, deactivated)
        /\ e.sees = {<<p.at, p.type>>}
    BY <2>1, InactiveIs DEF Alone
  <2>4. e.key[2] = p.at
    BY <2>3
  <2> QED
    BY <1>1, <2>2, <2>3, <2>4 DEF Raised, TellsAlone
<1>2. CASE deactivated = Never
  <2>1. ASSUME NEW type, NEW id, NEW sees, NEW offer, IsException(e, type, id, sees, offer)
        PROVE  /\ e.evidence = Enc(punches, assignment)
               /\ e.binds = Enc(Rev(e.key[1], punches), assignment)
               /\ Told(type, id, sees, offer)
    BY <2>1, EvidenceIs DEF IsException
  <2> DEFINE Made == /\ e.evidence = Enc(punches, assignment)
                     /\ e.binds = Enc(Rev(e.key[1], punches), assignment)
  <2>2. CASE e \in ScheduleExceptions
    <3>1. PICK type \in ScheduleTypes : IsException(e, type, 0, Today, "review")
      BY <2>2, ScheduleIs
    <3>2. Made /\ Told(type, 0, Today, "review")
      BY <2>1, <3>1
    <3> QED
      BY <1>2, <3>2 DEF Raised, Tells, Today
  <2>3. CASE e \in ArrivalExceptions
    <3>1. Supported
      BY <2>3, ArrivalIs
    <3>2. CASE IsException(e, "missing_arrival", 0, {}, "add_in")
      <4>1. Made /\ Told("missing_arrival", 0, {}, "add_in")
        BY <2>1, <3>2
      <4> QED
        BY <1>2, <3>1, <4>1 DEF Raised, Tells, Supported
    <3>3. CASE IsException(e, "late_arrival", 0, Ins(Today), "review")
      <4>1. Made /\ Told("late_arrival", 0, Ins(Today), "review")
        BY <2>1, <3>3
      <4> QED
        BY <1>2, <4>1 DEF Raised, Tells, Today
    <3> QED
      BY <2>3, <3>2, <3>3, ArrivalIs
  <2>4. CASE e \in MissingClockOut
    <3>1. Supported /\ UnfinishedShift
      BY <2>4, MissingIs
    <3>2. PICK offer :
            /\ IsException(e, "missing_clock_out", 0, MissingSees(punches), offer)
            /\ offer \in {"review", "add_out"}
            /\ offer = "add_out" =>
                  ~HasCounterpart(punches, LastEvent) /\ ~(LastEvent.at >= End)
      BY <2>4, MissingIs
    <3>3. Made /\ Told("missing_clock_out", 0, MissingSees(punches), offer)
      BY <2>1, <3>2
    <3>4. LastEvent = Latest(On(punches, Date)) /\ End = EndOf(assignment)
      BY DEF LastEvent, Today, End, EndOf
    <3>5. On(punches, Date) # {} /\ LastEvent.type = "in"
      BY <3>1 DEF UnfinishedShift, Today
    <3>6. assignment \in DOMAIN Schedules
      BY <3>1 DEF Supported
    <3> QED
      BY <1>2, <3>2, <3>3, <3>4, <3>5, <3>6 DEF Raised, Tells
  <2>5. CASE \E p \in Today : e \in ScanSequence(p)
    <3>1. PICK p \in Today : e \in ScanSequence(p)
      BY <2>5
    <3>2. PICK offer :
            /\ IsException(e, "scan_sequence", p.at, ScanSees(punches, p), offer)
            /\ offer \in {"review", "void"}
            /\ offer = "void" =>
                  /\ p \notin Overlong(punches)
                  /\ ~HasCounterpart(punches, p)
                  /\ p \in Repeated(punches) => DateOf(Latest(Before(punches, p)).at) = Date
      BY <3>1, ScanIs
    <3>3. Made /\ Told("scan_sequence", p.at, ScanSees(punches, p), offer)
      BY <2>1, <3>2
    <3>4. p.type = "in" /\ p \notin Overlong(punches) => p \in Repeated(punches)
      BY <3>1, ScanIs
    <3>5. offer = "void" => Voidable(punches, p)
      BY <3>2, <3>4 DEF Voidable
    <3>6. p \in On(punches, Date)
      BY DEF Today
    <3> QED
      BY <1>2, <3>2, <3>3, <3>5, <3>6 DEF Raised, Tells
  <2> QED
    BY <1>2, <2>2, <2>3, <2>4, <2>5, ExceptionsAre
<1> QED
  BY <1>1, <1>2

LEMMA ExceptionsTellNext ==
    PunchesOK' => \A e \in buildShiftExceptions' : Raised(e)'
<1>1. (PunchesOK => \A e \in buildShiftExceptions : Raised(e))'
  BY ExceptionsTell, PTL
<1> QED
  BY <1>1

PageOK ==
    \/ page = NoPage
    \/ \E P, a : /\ WellFormed(P) /\ a \in Assignments
                 /\ page.evidence = Enc(P, a)
                 /\ Tells(page.key, page.sees, page.offer, P, a)
    \/ \E d : TellsAlone(page.key, page.sees, page.offer, page.evidence, d)

ReviewOK(r) ==
    \/ \E P, a, offer : /\ WellFormed(P) /\ a \in Assignments
                        /\ r.binds = Enc(Rev(r.key[1], P), a)
                        /\ Tells(r.key, r.seen, offer, P, a)
    \/ \E d, offer : TellsAlone(r.key, r.seen, offer, r.binds, d)

ReportsInv ==
    /\ PunchesOK
    /\ changes \in Nat /\ reviewed \in Nat
    /\ PageOK
    /\ \A r \in reviews : ReviewOK(r)

LEMMA AssignmentsAre ==
    ASSUME NEW a \in Assignments
    PROVE  a \notin {"in", "out"}
BY DEF Assignments, Schedules, Unsupported, Unassigned

LEMMA EncIs ==
    ASSUME NEW P \in SUBSET PunchRow, NEW a \in Assignments
    PROVE  /\ \A p \in PunchRow : p \in P <=> <<p.at, p.type, p.source>> \in Enc(P, a)
           /\ \A b \in Assignments : <<0, b, "">> \in Enc(P, a) <=> b = a
<1>1. ASSUME NEW p \in PunchRow, <<p.at, p.type, p.source>> \in Enc(P, a)
      PROVE  p \in P
  <2>1. p.type \in {"in", "out"}
    BY DEF PunchRow
  <2>2. <<p.at, p.type, p.source>> # <<0, a, "">>
    BY <2>1, AssignmentsAre
  <2>3. PICK q \in P : <<p.at, p.type, p.source>> = <<q.at, q.type, q.source>>
    BY <1>1, <2>2 DEF Enc
  <2>4. p.at = q.at /\ p.type = q.type /\ p.source = q.source
    BY <2>3
  <2>5. p = q
    BY <2>4 DEF PunchRow
  <2> QED
    BY <2>5
<1>2. ASSUME NEW b \in Assignments, <<0, b, "">> \in Enc(P, a)
      PROVE  b = a
  <2> SUFFICES ASSUME NEW q \in P, <<0, b, "">> = <<q.at, q.type, q.source>>
               PROVE  FALSE
    BY <1>2 DEF Enc
  <2>1. b = q.type /\ q.type \in {"in", "out"}
    BY DEF PunchRow
  <2> QED
    BY <2>1, AssignmentsAre
<1> QED
  BY <1>1, <1>2 DEF Enc

LEMMA EncIsOne ==
    ASSUME NEW P \in SUBSET PunchRow, NEW Q \in SUBSET PunchRow,
           NEW a \in Assignments, NEW b \in Assignments, Enc(P, a) = Enc(Q, b)
    PROVE  P = Q /\ a = b
<1>1. \A p \in PunchRow : p \in P <=> p \in Q
  <2> TAKE p \in PunchRow
  <2>1. p \in P <=> <<p.at, p.type, p.source>> \in Enc(P, a)
    BY EncIs
  <2>2. p \in Q <=> <<p.at, p.type, p.source>> \in Enc(Q, b)
    BY EncIs
  <2> QED
    BY <2>1, <2>2
<1>2. <<0, a, "">> \in Enc(P, a)
  BY EncIs
<1>3. <<0, a, "">> \in Enc(Q, b)
  BY <1>2
<1>4. a = b
  BY <1>3, EncIs
<1> QED
  BY <1>1, <1>4

LEMMA AloneIsOne ==
    ASSUME NEW p \in PunchRow, NEW q \in PunchRow, NEW c, NEW d, Alone(p, c) = Alone(q, d)
    PROVE  p.at = q.at /\ p.type = q.type /\ p = q
<1>1. p.type \in {"in", "out"} /\ q.type \in {"in", "out"}
  BY DEF PunchRow
<1>2. <<p.at, p.type, p.source>> \in Alone(q, d)
  BY DEF Alone
<1>3. <<p.at, p.type, p.source>> # <<d, "removed", "">>
  BY <1>1
<1>4. <<p.at, p.type, p.source>> = <<q.at, q.type, q.source>>
  BY <1>2, <1>3 DEF Alone
<1> QED
  BY <1>4 DEF PunchRow

\* What a supervisor sees of an exception is told by its key and the evidence.
LEMMA SeesAgree ==
    ASSUME NEW P, WellFormed(P), NEW a, NEW key, NEW s1, NEW o1, NEW s2, NEW o2,
           Tells(key, s1, o1, P, a), Tells(key, s2, o2, P, a)
    PROVE  s1 = s2
<1>1. CASE key[1] = "scan_sequence"
  <2>1. PICK p \in On(P, Date) : key[2] = p.at /\ s1 = ScanSees(P, p)
    BY <1>1 DEF Tells, ScheduleTypes
  <2>2. PICK q \in On(P, Date) : key[2] = q.at /\ s2 = ScanSees(P, q)
    BY <1>1 DEF Tells, ScheduleTypes
  <2>3. p = q
    BY <2>1, <2>2 DEF On, WellFormed
  <2> QED
    BY <2>1, <2>2, <2>3
<1>2. CASE key[1] # "scan_sequence"
  BY <1>2 DEF Tells, ScheduleTypes
<1> QED
  BY <1>1, <1>2

LEMMA RevIs ==
    ASSUME NEW P
    PROVE  /\ \A type \in {"missing_arrival", "late_arrival"} :
                 Rev(type, P) = Ins(On(P, Date))
           /\ \A type \in ScheduleTypes \cup {"scan_sequence"} : Rev(type, P) = P
           /\ Rev("missing_clock_out", P) =
                 {p \in P : \/ DateOf(p.at) # Date + 1
                            \/ isPlausibleShift(Latest(On(P, Date)).at, p.at)}
<1>1. \A type \in {"missing_arrival", "late_arrival"} :
         Rev(type, P) = Ins(On(P, Date))
  BY DEF Rev
<1>2. \A type \in ScheduleTypes \cup {"scan_sequence"} : Rev(type, P) = P
  BY DEF Rev, ScheduleTypes
<1>3. Rev("missing_clock_out", P) =
         {p \in P : \/ DateOf(p.at) # Date + 1
                    \/ isPlausibleShift(Latest(On(P, Date)).at, p.at)}
  BY DEF Rev
<1> QED
  BY <1>1, <1>2, <1>3

Types == ScheduleTypes \cup {"missing_arrival", "late_arrival", "scan_sequence",
                             "missing_clock_out"}

LEMMA TellsType ==
    ASSUME NEW key, NEW s, NEW o, NEW P, NEW a, Tells(key, s, o, P, a)
    PROVE  key[1] \in Types
BY DEF Tells, Types

LEMMA UnfinishedRev ==
    ASSUME NEW P
    PROVE  LET R == Rev("missing_clock_out", P)
           IN On(R, Date) = On(P, Date) /\ Rev("missing_clock_out", R) = R /\ R \subseteq P
<1> DEFINE R == Rev("missing_clock_out", P)
<1>1. R = {p \in P : \/ DateOf(p.at) # Date + 1
                     \/ isPlausibleShift(Latest(On(P, Date)).at, p.at)}
  BY RevIs
<1> HIDE DEF R
<1>2. On(R, Date) = On(P, Date)
  <2>1. Date # Date + 1
    BY DEF Date
  <2> QED
    BY <1>1, <2>1 DEF On
<1>3. Rev("missing_clock_out", R) =
         {p \in R : \/ DateOf(p.at) # Date + 1
                    \/ isPlausibleShift(Latest(On(R, Date)).at, p.at)}
  BY RevIs
<1>4. Rev("missing_clock_out", R) = R
  BY <1>1, <1>2, <1>3
<1> QED
  BY <1>1, <1>2, <1>4 DEF R

\* A review lasts as evidence of itself.
LEMMA RevOfRev ==
    ASSUME NEW type \in Types, NEW P
    PROVE  Rev(type, Rev(type, P)) = Rev(type, P) /\ Rev(type, P) \subseteq P
<1>1. CASE type \in {"missing_arrival", "late_arrival"}
  <2> DEFINE R == Ins(On(P, Date))
  <2>1. Rev(type, P) = R /\ Rev(type, R) = Ins(On(R, Date))
    BY <1>1, RevIs
  <2>2. Ins(On(R, Date)) = R /\ R \subseteq P
    BY DEF Ins, On
  <2> HIDE DEF R
  <2> QED
    BY <2>1, <2>2
<1>2. CASE type \in ScheduleTypes \cup {"scan_sequence"}
  BY <1>2, RevIs
<1>3. CASE type = "missing_clock_out"
  BY <1>3, UnfinishedRev
<1> QED
  BY <1>1, <1>2, <1>3 DEF Types

\* What a review is bound to decides what is seen of the exception.
LEMMA SeesOfRev ==
    ASSUME NEW P, WellFormed(P), NEW Q, WellFormed(Q), NEW a, NEW key,
           NEW s1, NEW o1, NEW s2, NEW o2,
           Tells(key, s1, o1, P, a), Tells(key, s2, o2, Q, a),
           Rev(key[1], P) = Rev(key[1], Q)
    PROVE  s1 = s2
<1>1. CASE key[1] \in ScheduleTypes \cup {"scan_sequence"}
  <2>1. Rev(key[1], P) = P /\ Rev(key[1], Q) = Q
    BY <1>1, RevIs
  <2>2. P = Q
    BY <2>1
  <2> QED
    BY <2>2, SeesAgree
<1>2. CASE key[1] = "missing_arrival"
  BY <1>2 DEF Tells, ScheduleTypes
<1>3. CASE key[1] = "late_arrival"
  <2>1. Ins(On(P, Date)) = Ins(On(Q, Date))
    BY <1>3, RevIs
  <2> QED
    BY <1>3, <2>1 DEF Tells, ScheduleTypes
<1>4. CASE key[1] = "missing_clock_out"
  <2>1. On(P, Date) = On(Q, Date)
    BY <1>4, UnfinishedRev
  <2> DEFINE L == Latest(On(P, Date))
  <2>2. /\ s1 = MissingSees(P) /\ s2 = MissingSees(Q) /\ L.type = "in"
    BY <1>4 DEF Tells, ScheduleTypes
  <2>3. L = Latest(On(Q, Date))
    BY <2>1
  <2>4. /\ Rev("missing_clock_out", P) =
              {p \in P : DateOf(p.at) # Date + 1 \/ isPlausibleShift(L.at, p.at)}
        /\ Rev("missing_clock_out", Q) =
              {p \in Q : DateOf(p.at) # Date + 1 \/ isPlausibleShift(L.at, p.at)}
    BY <2>3, RevIs
  <2> HIDE DEF L
  <2>5. HasCounterpart(P, L) <=> HasCounterpart(Q, L)
    <3>1. \A q : isPlausibleShift(L.at, q.at) => (q \in P <=> q \in Q)
      BY <1>4, <2>4
    <3> QED
      BY <2>2, <3>1 DEF HasCounterpart
  <2>6. MissingSees(P) = MissingSees(Q)
    BY <2>1, <2>3, <2>5 DEF MissingSees, L
  <2> QED
    BY <2>2, <2>6
<1>5. key[1] \in Types
  BY TellsType
<1> QED
  BY <1>1, <1>2, <1>3, <1>4, <1>5 DEF Types

\* A review that covers an exception is bound to what the exception binds.
LEMMA CoversIs ==
    ASSUME ReportsInv, NEW r \in reviews, NEW e \in buildShiftExceptions, Covers(r, e)
    PROVE  r.binds = e.binds /\ r.seen = e.sees
<1>1. Raised(e) /\ ReviewOK(r) /\ r.key = e.key /\ r.binds \in {e.binds, e.evidence}
  BY ExceptionsTell DEF ReportsInv, Covers
<1>2. WellFormed(punches) /\ assignment \in Assignments
  BY DEF ReportsInv, PunchesOK
<1>3. "inactive_worker_scan" \notin Types
  BY DEF Types, ScheduleTypes
<1>4. CASE deactivated = Never
  <2>1. /\ e.evidence = Enc(punches, assignment)
        /\ e.binds = Enc(Rev(e.key[1], punches), assignment)
        /\ Tells(e.key, e.sees, e.offer, punches, assignment)
    BY <1>1, <1>4 DEF Raised
  <2>2. e.key[1] \in Types
    BY <2>1, TellsType
  <2>3. ~\E d, o : TellsAlone(r.key, r.seen, o, r.binds, d)
    BY <1>1, <1>3, <2>2 DEF TellsAlone
  <2>4. PICK P, a, o : /\ WellFormed(P) /\ a \in Assignments
                       /\ r.binds = Enc(Rev(r.key[1], P), a)
                       /\ Tells(r.key, r.seen, o, P, a)
    BY <1>1, <2>3 DEF ReviewOK
  <2> DEFINE type == e.key[1]
             R == Rev(type, P)
             T == Rev(type, punches)
  <2>5. /\ R \subseteq P /\ T \subseteq punches
        /\ Rev(type, R) = R /\ Rev(type, T) = T
    BY <2>2, RevOfRev
  <2>6. R \in SUBSET PunchRow /\ T \in SUBSET PunchRow /\ punches \in SUBSET PunchRow
    BY <1>2, <2>4, <2>5 DEF WellFormed
  <2>7. Enc(R, a) \in {Enc(T, assignment), Enc(punches, assignment)}
    BY <1>1, <2>1, <2>4
  <2> HIDE DEF R, T
  <2>8. a = assignment /\ (R = T \/ R = punches)
    BY <1>2, <2>4, <2>6, <2>7, EncIsOne
  <2>9. R = T
    BY <2>5, <2>8 DEF T
  <2>10. r.binds = e.binds
    BY <1>1, <2>1, <2>4, <2>8, <2>9 DEF R, T
  <2>11. r.seen = e.sees
    BY <1>1, <1>2, <2>1, <2>4, <2>8, <2>9, SeesOfRev DEF R, T
  <2> QED
    BY <2>10, <2>11
<1>5. CASE deactivated # Never
  <2>1. /\ e.binds = e.evidence
        /\ TellsAlone(e.key, e.sees, e.offer, e.evidence, deactivated)
    BY <1>1, <1>5 DEF Raised
  <2>2. PICK p \in PunchRow :
          /\ e.key = <<"inactive_worker_scan", p.at>> /\ e.sees = {<<p.at, p.type>>}
          /\ e.evidence = Alone(p, deactivated)
    BY <2>1 DEF TellsAlone
  <2>3. r.key[1] \notin Types
    BY <1>1, <1>3, <2>2
  <2>4. PICK d, o : TellsAlone(r.key, r.seen, o, r.binds, d)
    BY <1>1, <2>3, TellsType DEF ReviewOK
  <2>5. PICK q \in PunchRow : r.seen = {<<q.at, q.type>>} /\ r.binds = Alone(q, d)
    BY <2>4 DEF TellsAlone
  <2>6. r.binds = e.binds /\ Alone(p, deactivated) = Alone(q, d)
    BY <1>1, <2>1, <2>2, <2>5
  <2>7. p.at = q.at /\ p.type = q.type
    BY <2>1, <2>2, <2>5, <2>6, AloneIsOne
  <2> QED
    BY <2>2, <2>5, <2>6, <2>7
<1> QED
  BY <1>4, <1>5

LEMMA HiddenIsSeen ==
    ASSUME ReportsInv
    PROVE  HiddenAsSeen
BY CoversIs DEF HiddenAsSeen

-----------------------------------------------------------------------------
(* What a one-tap correction does to the pairs.                            *)

LEMMA LatestIsOnly ==
    ASSUME NEW P, WellFormed(P), NEW S \in SUBSET P, NEW p \in S,
           \A q \in S : p.at >= q.at
    PROVE  Latest(S) = p
<1>1. Latest(S) \in S /\ Latest(S).at >= p.at
  BY LatestOf
<1>2. p.at >= Latest(S).at
  BY <1>1
<1>3. p.at \in Nat /\ Latest(S).at \in Nat
  BY <1>1 DEF WellFormed, PunchRow
<1>4. p.at = Latest(S).at
  BY <1>1, <1>2, <1>3
<1> QED
  BY <1>1, <1>4 DEF WellFormed

LEMMA EarliestIsOnly ==
    ASSUME NEW P, WellFormed(P), NEW S \in SUBSET P, NEW p \in S,
           \A q \in S : p.at <= q.at
    PROVE  Earliest(S) = p
<1>1. Earliest(S) \in S /\ Earliest(S).at <= p.at
  <2>1. S \in SUBSET PunchRow
    BY DEF WellFormed
  <2> QED
    BY <2>1, EarliestIs
<1>2. p.at <= Earliest(S).at
  BY <1>1
<1>3. p.at \in Nat /\ Earliest(S).at \in Nat
  BY <1>1 DEF WellFormed, PunchRow
<1>4. p.at = Earliest(S).at
  BY <1>1, <1>2, <1>3
<1> QED
  BY <1>1, <1>4 DEF WellFormed

LEMMA OpenHas ==
    ASSUME NEW P, WellFormed(P), NEW q
    PROVE  /\ SinceExit(P, q) \subseteq P /\ OpenIns(P, q) \subseteq SinceExit(P, q)
           /\ SinceExit(P, q) # {} => OpenIns(P, q) # {}
<1>1. SinceExit(P, q) \in SUBSET P
  BY DEF SinceExit, Ins, Before
<1>2. ASSUME SinceExit(P, q) # {}
      PROVE  OpenIns(P, q) # {}
  <2>1. Latest(SinceExit(P, q)) \in SinceExit(P, q)
    BY <1>1, <1>2, LatestOf
  <2>2. Latest(SinceExit(P, q)) \in OpenIns(P, q)
    BY <2>1, OpenInsAre
  <2> QED
    BY <2>2
<1> QED
  BY <1>1, <1>2, OpenInsAre

\* An exit that closes nothing stands for nothing to the later ones.
LEMMA VoidedExit ==
    ASSUME NEW P, WellFormed(P), NEW p \in P, p.type = "out",
           p \notin Overlong(P), ~HasCounterpart(P, p)
    PROVE  /\ p \notin PairedOuts(P)
           /\ \A q \in Outs(P \ {p}) : OpenIns(P \ {p}, q) = OpenIns(P, q)
<1>1. ASSUME Closes(P, p)
      PROVE  FALSE
  <2> DEFINE E == Earliest(OpenIns(P, p))
  <2>1. OpenIns(P, p) # {} /\ isPlausibleShift(E.at, p.at)
    BY <1>1 DEF Closes
  <2>2. OpenIns(P, p) \in SUBSET PunchRow
    BY OpenHas DEF WellFormed
  <2>3. E \in OpenIns(P, p)
    BY <2>1, <2>2, EarliestIs
  <2>4. E \in P /\ E.type = "in"
    BY <2>3, OpenHas, SinceExitIs
  <2> QED
    BY <2>1, <2>4 DEF HasCounterpart
<1>2. OpenIns(P, p) = {}
  BY <1>1 DEF Overlong, Outs
<1>3. SinceExit(P, p) = {}
  BY <1>2, OpenHas
<1>4. ASSUME NEW q \in Outs(P \ {p})
      PROVE  SinceExit(P \ {p}, q) = SinceExit(P, q)
  <2>1. ASSUME NEW i \in SinceExit(P, q)
        PROVE  i \in SinceExit(P \ {p}, q)
    BY <2>1, SinceExitIs
  <2>2. ASSUME NEW i \in SinceExit(P \ {p}, q)
        PROVE  i \in SinceExit(P, q)
    <3>1. /\ i \in P /\ i.type = "in" /\ i.at < q.at
          /\ \A x \in P \ {p} : x.type = "out" /\ x.at < q.at => x.at < i.at
      BY <2>2, SinceExitIs
    <3> SUFFICES ASSUME p.at < q.at, ~(p.at < i.at)
                 PROVE  FALSE
      BY <3>1, SinceExitIs
    <3>2. \A x \in P : x.at \in Nat
      BY DEF WellFormed, PunchRow
    <3>3. p.at # i.at
      BY <3>1 DEF WellFormed
    <3>4. i.at < p.at
      BY <3>1, <3>2, <3>3
    <3>5. q \in P
      BY DEF Outs
    <3>6. \A x \in P : x.type = "out" /\ x.at < p.at => x.at < i.at
      BY <3>1, <3>2, <3>5
    <3>7. i \in SinceExit(P, p)
      BY <3>1, <3>4, <3>6, SinceExitIs
    <3> QED
      BY <1>3, <3>7
  <2> QED
    BY <2>1, <2>2
<1> QED
  BY <1>1, <1>4, OpenInsAre DEF PairedOuts

\* A repeated entry that no exit contests opens no shift.
LEMMA VoidedEntry ==
    ASSUME NEW P, WellFormed(P), NEW p \in On(P, Date), p.type = "in",
           p \in Repeated(P), DateOf(Latest(Before(P, p)).at) = Date,
           ~HasCounterpart(P, p), NEW q \in Outs(P)
    PROVE  /\ Closes(P \ {p}, q) <=> Closes(P, q)
           /\ Closes(P, q) => OpenIns(P \ {p}, q) = OpenIns(P, q)
<1> DEFINE R == P \ {p}
           r == Latest(Before(P, p))
           S == SinceExit(P, q)
           T == SinceExit(R, q)
<1>0. p \in P /\ q \in P /\ q.type = "out" /\ DateOf(p.at) = Date
  BY DEF On, Outs
<1>1. \A x \in P : x.at \in Nat
  BY DEF WellFormed, PunchRow
<1>2. r \in P /\ r.at < p.at /\ r.type = "in" /\ \A x \in P : x.at < p.at => x.at <= r.at
  <2>1. Before(P, p) # {} /\ r.type = p.type /\ Before(P, p) \in SUBSET P
    BY DEF Repeated, Before
  <2>2. r \in Before(P, p) /\ \A x \in Before(P, p) : r.at >= x.at
    BY <2>1, LatestOf
  <2>3. \A x \in P : x.at < p.at => r.at >= x.at
    BY <2>2 DEF Before
  <2>4. r \in P /\ r.at < p.at
    BY <2>2 DEF Before
  <2>5. \A x \in P : x.at < p.at => x.at <= r.at
    BY <1>1, <2>3, <2>4
  <2> QED
    BY <2>1, <2>4, <2>5
<1>3. DateOf(r.at) = DateOf(p.at)
  BY <1>0
<1>4. WellFormed(R) /\ R \subseteq P
  BY WellFormedParts
<1> HIDE DEF r
<1>5. T = S \ {p}
  <2>1. ASSUME NEW i
        PROVE  i \in T <=> i \in S /\ i # p
    <3>1. (\A x \in R : x.type = "out" /\ x.at < q.at => x.at < i.at)
            <=> (\A x \in P : x.type = "out" /\ x.at < q.at => x.at < i.at)
      OBVIOUS
    <3>2. i \in T <=> /\ i \in R /\ i.type = "in" /\ i.at < q.at
                      /\ \A x \in R : x.type = "out" /\ x.at < q.at => x.at < i.at
      BY SinceExitIs
    <3>3. i \in S <=> /\ i \in P /\ i.type = "in" /\ i.at < q.at
                      /\ \A x \in P : x.type = "out" /\ x.at < q.at => x.at < i.at
      BY SinceExitIs
    <3> QED
      BY <3>1, <3>2, <3>3
  <2> HIDE DEF T, S
  <2> QED
    BY <2>1
<1>6. S \subseteq P /\ T \subseteq R
  BY <1>4, OpenHas
<1>7. /\ OpenIns(P, q) = {x \in S : DateOf(x.at) = DateOf(Latest(S).at)}
      /\ OpenIns(R, q) = {x \in T : DateOf(x.at) = DateOf(Latest(T).at)}
  BY OpenInsAre
<1>8. ASSUME OpenIns(R, q) = OpenIns(P, q)
      PROVE  Closes(R, q) <=> Closes(P, q)
  BY <1>8 DEF Closes
<1>9. CASE p \notin S
  <2>1. T = S
    BY <1>5, <1>9
  <2>2. OpenIns(R, q) = OpenIns(P, q)
    BY <1>7, <2>1
  <2> QED
    BY <1>8, <2>2
<1>10. CASE p \in S
  <2>1. p.at < q.at /\ \A x \in P : x.type = "out" /\ x.at < q.at => x.at < p.at
    BY <1>10, SinceExitIs
  <2>2. r \in S
    <3>1. r.at < q.at
      BY <1>0, <1>1, <1>2, <2>1
    <3>2. \A x \in P : x.type = "out" /\ x.at < q.at => x.at < r.at
      <4> TAKE x \in P
      <4> HAVE x.type = "out" /\ x.at < q.at
      <4>1. x.at <= r.at
        BY <1>2, <2>1
      <4>2. x.at # r.at
        BY <1>2 DEF WellFormed
      <4> QED
        BY <1>1, <1>2, <4>1, <4>2
    <3> QED
      BY <1>2, <3>1, <3>2, SinceExitIs
  <2>3. r # p /\ r \in T
    <3>1. r # p
      BY <1>0, <1>1, <1>2
    <3> HIDE DEF S, T
    <3> QED
      BY <1>5, <2>2, <3>1
  <2>4. DateOf(Latest(S).at) = DateOf(Latest(T).at)
    <3>1. Latest(S) \in S /\ \A x \in S : Latest(S).at >= x.at
      BY <1>6, <1>10, LatestOf
    <3>2. CASE Latest(S) # p
      <4>1. Latest(S) \in T
        BY <1>5, <3>1, <3>2
      <4>2. \A x \in T : Latest(S).at >= x.at
        BY <1>5, <3>1
      <4>3. Latest(T) = Latest(S)
        BY <1>4, <1>6, <4>1, <4>2, LatestIsOnly
      <4> QED
        BY <4>3
    <3>3. CASE Latest(S) = p
      <4>1. \A x \in T : r.at >= x.at
        <5> TAKE x \in T
        <5>1. x \in P /\ x # p /\ p.at >= x.at
          BY <1>5, <1>6, <3>1, <3>3
        <5>2. x.at # p.at
          BY <1>0, <5>1 DEF WellFormed
        <5>3. x.at <= r.at
          BY <1>0, <1>1, <1>2, <5>1, <5>2
        <5> QED
          BY <1>1, <1>2, <5>1, <5>3
      <4>2. Latest(T) = r
        BY <1>4, <1>6, <2>3, <4>1, LatestIsOnly
      <4> QED
        BY <1>3, <3>3, <4>2
    <3> QED
      BY <3>2, <3>3
  <2>5. OpenIns(R, q) = OpenIns(P, q) \ {p}
    <3> HIDE DEF S, T, R
    <3> QED
      BY <1>5, <1>7, <2>4
  <2>6. CASE p \notin OpenIns(P, q)
    <3>1. OpenIns(R, q) = OpenIns(P, q)
      BY <2>5, <2>6
    <3> QED
      BY <1>8, <3>1
  <2>7. CASE p \in OpenIns(P, q)
    <3> DEFINE O == OpenIns(P, q)
               E == Earliest(O)
    <3>1. r \in O
      BY <1>3, <1>7, <2>2, <2>7
    <3>2. O \subseteq P /\ O \in SUBSET PunchRow
      BY OpenHas DEF WellFormed
    <3>3. E \in O /\ \A x \in O : E.at <= x.at
      BY <3>1, <3>2, EarliestIs
    <3> HIDE DEF O, E
    <3>4. E.at < p.at /\ E.at \in Nat
      BY <1>0, <1>1, <1>2, <3>1, <3>2, <3>3
    <3>5. E # p /\ E \in OpenIns(R, q)
      <4>1. E # p
        <5>1. ~(p.at < p.at)
          BY <1>0, <1>1
        <5> QED
          BY <3>4, <5>1
      <4>2. OpenIns(R, q) = O \ {p}
        BY <2>5 DEF O
      <4> QED
        BY <3>3, <4>1, <4>2
    <3>6. OpenIns(R, q) \in SUBSET R
      BY <1>4, OpenHas
    <3>7. \A x \in OpenIns(R, q) : E.at <= x.at
      BY <2>5, <3>3 DEF O
    <3>8. Earliest(OpenIns(R, q)) = E
      BY <1>4, <3>5, <3>6, <3>7, EarliestIsOnly
    <3>9. Closes(R, q) <=> Closes(P, q)
      BY <3>3, <3>5, <3>8 DEF Closes, O, E
    <3>10. ~Closes(P, q)
      <4> SUFFICES ASSUME Closes(P, q)
                   PROVE  FALSE
        OBVIOUS
      <4>1. q.at - E.at \in 0..MaxShift
        BY DEF Closes, isPlausibleShift, O, E
      <4>2. q.at - p.at \in 0..MaxShift
        BY <1>0, <1>1, <2>1, <3>4, <4>1, Constants
      <4> QED
        BY <1>0, <4>2 DEF HasCounterpart, isPlausibleShift
    <3> QED
      BY <3>9, <3>10
  <2> QED
    BY <2>6, <2>7
<1> QED
  BY <1>9, <1>10

LEMMA VoidChangesNoPair ==
    ASSUME NEW P, WellFormed(P), NEW p \in On(P, Date), Voidable(P, p)
    PROVE  PairedOuts(P \ {p}) = PairedOuts(P) /\ PairedIns(P \ {p}) = PairedIns(P)
<1> DEFINE R == P \ {p}
<1>1. p \in P /\ p.type \in {"in", "out"}
  BY DEF On, WellFormed, PunchRow
<1>2. /\ \A q \in PairedOuts(P) : q # p
      /\ \A q \in Outs(R) : /\ Closes(R, q) <=> Closes(P, q)
                            /\ Closes(P, q) => OpenIns(R, q) = OpenIns(P, q)
  <2>1. CASE p.type = "out"
    <3>1. p \notin PairedOuts(P) /\ \A q \in Outs(R) : OpenIns(R, q) = OpenIns(P, q)
      BY <1>1, <2>1, VoidedExit DEF Voidable
    <3> QED
      BY <3>1 DEF Closes
  <2>2. CASE p.type = "in"
    <3>1. p \in Repeated(P) /\ DateOf(Latest(Before(P, p)).at) = Date /\ ~HasCounterpart(P, p)
      BY <2>2 DEF Voidable
    <3>2. \A q \in Outs(P) : /\ Closes(R, q) <=> Closes(P, q)
                             /\ Closes(P, q) => OpenIns(R, q) = OpenIns(P, q)
      BY <2>2, <3>1, VoidedEntry
    <3>3. Outs(R) \subseteq Outs(P)
      BY DEF Outs
    <3>4. \A q \in PairedOuts(P) : q # p
      BY <2>2 DEF PairedOuts, Outs
    <3> QED
      BY <3>2, <3>3, <3>4
  <2> QED
    BY <1>1, <2>1, <2>2
<1>3. PairedOuts(R) = PairedOuts(P)
  <2>1. PairedOuts(R) = {q \in Outs(R) : Closes(R, q)}
    BY DEF PairedOuts
  <2>2. \A q : q \in Outs(R) <=> q \in Outs(P) /\ q # p
    BY DEF Outs
  <2>3. PairedOuts(P) = {q \in Outs(P) : Closes(P, q)}
    BY DEF PairedOuts
  <2> HIDE DEF R
  <2> QED
    BY <1>2, <2>1, <2>2, <2>3
<1>4. \A q \in PairedOuts(P) : OpenIns(R, q) = OpenIns(P, q)
  BY <1>2, <1>3 DEF PairedOuts
<1>5. PairedIns(R) = PairedIns(P)
  <2> HIDE DEF R
  <2> QED
    BY <1>3, <1>4 DEF PairedIns
<1> QED
  BY <1>3, <1>5

-----------------------------------------------------------------------------
(* What is done from a page.                                               *)

\* A page that still has the evidence tells what is so now.
LEMMA PageMatches ==
    ASSUME ReportsInv, NEW e \in buildShiftExceptions, SourceMatches(e)
    PROVE  /\ page.sees = e.sees
           /\ \/ page.offer = "review"
              \/ /\ deactivated = Never
                 /\ Tells(page.key, page.sees, page.offer, punches, assignment)
<1>1. Raised(e) /\ PageOK /\ e.key = page.key /\ e.evidence = page.evidence
  BY ExceptionsTell DEF ReportsInv, SourceMatches
<1>2. WellFormed(punches) /\ assignment \in Assignments
  BY DEF ReportsInv, PunchesOK
<1>3. "inactive_worker_scan" \notin Types /\ "none" \notin Types
  BY DEF Types, ScheduleTypes
<1>4. page = NoPage => page.key[1] = "none"
  BY DEF NoPage
<1>5. CASE deactivated = Never
  <2>1. /\ e.evidence = Enc(punches, assignment)
        /\ Tells(e.key, e.sees, e.offer, punches, assignment)
    BY <1>1, <1>5 DEF Raised
  <2>2. page.key[1] \in Types
    BY <1>1, <2>1, TellsType
  <2>3. page # NoPage
    BY <1>3, <1>4, <2>2
  <2>4. ~\E d : TellsAlone(page.key, page.sees, page.offer, page.evidence, d)
    BY <1>3, <2>2 DEF TellsAlone
  <2>5. PICK P, a : /\ WellFormed(P) /\ a \in Assignments
                    /\ page.evidence = Enc(P, a)
                    /\ Tells(page.key, page.sees, page.offer, P, a)
    BY <1>1, <2>3, <2>4 DEF PageOK
  <2>6. P \in SUBSET PunchRow /\ punches \in SUBSET PunchRow
    BY <1>2, <2>5 DEF WellFormed
  <2>7. P = punches /\ a = assignment
    <3>1. Enc(P, a) = Enc(punches, assignment)
      BY <1>1, <2>1, <2>5
    <3> QED
      BY <1>2, <2>5, <2>6, <3>1, EncIsOne
  <2>8. Tells(page.key, page.sees, page.offer, punches, assignment)
    BY <2>5, <2>7
  <2>9. page.sees = e.sees
    BY <1>1, <1>2, <2>1, <2>8, SeesAgree
  <2> QED
    BY <1>5, <2>8, <2>9
<1>6. CASE deactivated # Never
  <2>1. TellsAlone(e.key, e.sees, e.offer, e.evidence, deactivated)
    BY <1>1, <1>6 DEF Raised
  <2>2. PICK p \in PunchRow :
          /\ e.key = <<"inactive_worker_scan", p.at>> /\ e.sees = {<<p.at, p.type>>}
          /\ e.evidence = Alone(p, deactivated)
    BY <2>1 DEF TellsAlone
  <2>3. page.key[1] = "inactive_worker_scan"
    BY <1>1, <2>2
  <2>4. page # NoPage
    BY <1>4, <2>3
  <2>5. PICK d : TellsAlone(page.key, page.sees, page.offer, page.evidence, d)
    BY <1>1, <1>3, <2>3, <2>4, TellsType DEF PageOK
  <2>6. PICK q \in PunchRow : /\ page.sees = {<<q.at, q.type>>} /\ page.offer = "review"
                              /\ page.evidence = Alone(q, d)
    BY <2>5 DEF TellsAlone
  <2>7. Alone(p, deactivated) = Alone(q, d)
    BY <1>1, <2>2, <2>6
  <2>8. p.at = q.at /\ p.type = q.type
    BY <2>7, AloneIsOne
  <2> QED
    BY <2>2, <2>6, <2>8
<1> QED
  BY <1>5, <1>6

\* What one tap may do.
Tapped(next) ==
    \/ \E p \in On(punches, Date) : Voidable(punches, p) /\ next = punches \ {p}
    \/ /\ Supported /\ Start \notin {p.at : p \in punches}
       /\ next = punches \cup {Punch(Start, "in", "correction")}
    \/ /\ Supported /\ End \notin {p.at : p \in punches}
       /\ LastEvent \in punches /\ LastEvent.type = "in"
       /\ ~HasCounterpart(punches, LastEvent) /\ ~(LastEvent.at >= End)
       /\ next = punches \cup {Punch(End, "out", "correction")}

LEMMA TapsAre ==
    ASSUME ReportsInv, ApplySuggestion
    PROVE  Tapped(punches')
<1>1. /\ page.offer \in {"void", "add_in", "add_out"}
      /\ page.offer = "add_in" => Start \notin {p.at : p \in punches}
      /\ page.offer = "add_out" => End \notin {p.at : p \in punches}
      /\ punches' = Corrected
  BY DEF ApplySuggestion
<1>2. PICK e \in buildShiftExceptions : SourceMatches(e)
  BY DEF ApplySuggestion
<1>3. Tells(page.key, page.sees, page.offer, punches, assignment)
  BY <1>1, <1>2, PageMatches
<1>4. WellFormed(punches)
  BY DEF ReportsInv, PunchesOK
<1>5. CASE page.offer = "void"
  <2>1. PICK p \in On(punches, Date) : page.key[2] = p.at /\ Voidable(punches, p)
    BY <1>3, <1>5 DEF Tells
  <2>2. punches' = {q \in punches : q.at # p.at}
    BY <1>1, <1>5, <2>1 DEF Corrected
  <2>3. p \in punches
    BY DEF On
  <2>4. punches' = punches \ {p}
    BY <1>4, <2>2, <2>3 DEF WellFormed
  <2> QED
    BY <2>1, <2>4 DEF Tapped
<1>6. CASE page.offer = "add_in"
  <2>1. Supported
    BY <1>3, <1>6 DEF Tells, Supported
  <2>2. punches' = punches \cup {Punch(Start, "in", "correction")}
    BY <1>1, <1>6 DEF Corrected
  <2> QED
    BY <1>1, <1>6, <2>1, <2>2 DEF Tapped
<1>7. CASE page.offer = "add_out"
  <2> DEFINE L == Latest(On(punches, Date))
  <2>1. /\ assignment \in DOMAIN Schedules
        /\ ~HasCounterpart(punches, L) /\ ~(L.at >= EndOf(assignment))
        /\ On(punches, Date) # {} /\ L.type = "in"
    BY <1>3, <1>7 DEF Tells
  <2>2. On(punches, Date) \in SUBSET punches
    BY DEF On
  <2>3. L \in punches
    BY <1>4, <2>1, <2>2, LatestOf
  <2>4. L = LastEvent /\ EndOf(assignment) = End
    BY DEF LastEvent, Today, End, EndOf
  <2>5. punches' = punches \cup {Punch(End, "out", "correction")}
    BY <1>1, <1>7 DEF Corrected
  <2> QED
    BY <1>1, <1>7, <2>1, <2>3, <2>4, <2>5 DEF Tapped, Supported
<1> QED
  BY <1>1, <1>5, <1>6, <1>7

LEMMA TapsKeepPunches ==
    ASSUME ReportsInv, ApplySuggestion
    PROVE  WellFormed(punches')
<1>1. WellFormed(punches) /\ assignment \in Assignments
  BY DEF ReportsInv, PunchesOK
<1>2. Tapped(punches')
  BY TapsAre
<1>3. CASE punches' \subseteq punches
  BY <1>1, <1>3, WellFormedParts
<1>4. CASE /\ Supported /\ Start \notin {p.at : p \in punches}
           /\ punches' = punches \cup {Punch(Start, "in", "correction")}
  BY <1>1, <1>4, StartIs, OneAdded
<1>5. CASE /\ Supported /\ End \notin {p.at : p \in punches}
           /\ punches' = punches \cup {Punch(End, "out", "correction")}
  BY <1>1, <1>5, StartIs, OneAdded
<1> QED
  BY <1>2, <1>3, <1>4, <1>5 DEF Tapped

SafeSuggestion ==
    /\ \A p \in punches \ punches' :
          /\ p.type = "in" => \A q \in Outs(punches) : ~isPlausibleShift(p.at, q.at)
          /\ p.type = "out" => \A q \in Ins(punches) : ~isPlausibleShift(q.at, p.at)
          /\ PairedOuts(punches') = PairedOuts(punches)
          /\ PairedIns(punches') = PairedIns(punches)
    /\ \A p \in punches' \ punches : p.type = "out" =>
          /\ LastEvent.at < p.at
          /\ \A q \in Outs(punches) : ~isPlausibleShift(LastEvent.at, q.at)

LEMMA TapsAreSafe ==
    ASSUME ReportsInv, ApplySuggestion
    PROVE  SafeSuggestion
<1>1. WellFormed(punches) /\ assignment \in Assignments
  BY DEF ReportsInv, PunchesOK
<1>2. CASE \E p \in On(punches, Date) : Voidable(punches, p) /\ punches' = punches \ {p}
  <2>1. PICK p \in On(punches, Date) : Voidable(punches, p) /\ punches' = punches \ {p}
    BY <1>2
  <2>2. PairedOuts(punches') = PairedOuts(punches) /\ PairedIns(punches') = PairedIns(punches)
    BY <1>1, <2>1, VoidChangesNoPair
  <2>3. /\ p.type = "in" => \A q \in Outs(punches) : ~isPlausibleShift(p.at, q.at)
        /\ p.type = "out" => \A q \in Ins(punches) : ~isPlausibleShift(q.at, p.at)
    BY <2>1 DEF Voidable, HasCounterpart, Outs, Ins
  <2>4. punches \ punches' \subseteq {p} /\ punches' \ punches = {}
    BY <2>1
  <2> QED
    BY <2>2, <2>3, <2>4 DEF SafeSuggestion
<1>3. CASE punches' = punches \cup {Punch(Start, "in", "correction")}
  <2>1. Punch(Start, "in", "correction").type = "in"
    BY DEF Punch
  <2> QED
    BY <1>3, <2>1 DEF SafeSuggestion
<1>4. CASE /\ Supported /\ LastEvent \in punches /\ LastEvent.type = "in"
           /\ ~HasCounterpart(punches, LastEvent) /\ ~(LastEvent.at >= End)
           /\ punches' = punches \cup {Punch(End, "out", "correction")}
  <2>1. Punch(End, "out", "correction").at = End
    BY DEF Punch
  <2>2. LastEvent.at \in Nat /\ End \in Nat
    BY <1>1, <1>4, StartIs DEF WellFormed, PunchRow
  <2>3. LastEvent.at < End
    BY <1>4, <2>2
  <2>4. \A q \in Outs(punches) : ~isPlausibleShift(LastEvent.at, q.at)
    BY <1>4 DEF HasCounterpart, Outs
  <2> QED
    BY <1>4, <2>1, <2>3, <2>4 DEF SafeSuggestion
<1> QED
  BY <1>2, <1>3, <1>4, TapsAre DEF Tapped

-----------------------------------------------------------------------------
(* The invariant.                                                          *)

LEMMA ReportsInit ==
    ASSUME Init
    PROVE  ReportsInv
BY PunchesInit DEF Init, ReportsInv, PageOK

\* An exception is what its page tells of it.
LEMMA PageLoaded ==
    ASSUME ReportsInv, NEW e \in buildShiftExceptions, LoadPage(e)
    PROVE  PageOK'
<1>1. Raised(e) /\ WellFormed(punches) /\ assignment \in Assignments
  BY ExceptionsTell DEF ReportsInv, PunchesOK
<1>2. /\ page'.key = e.key /\ page'.evidence = e.evidence
      /\ page'.offer = e.offer /\ page'.sees = e.sees
  BY DEF LoadPage
<1>3. CASE deactivated = Never
  <2>1. /\ page'.evidence = Enc(punches, assignment)
        /\ Tells(page'.key, page'.sees, page'.offer, punches, assignment)
    BY <1>1, <1>2, <1>3 DEF Raised
  <2> QED
    BY <1>1, <2>1 DEF PageOK
<1>4. CASE deactivated # Never
  <2>1. TellsAlone(page'.key, page'.sees, page'.offer, page'.evidence, deactivated)
    BY <1>1, <1>2, <1>4 DEF Raised
  <2> QED
    BY <2>1 DEF PageOK
<1> QED
  BY <1>3, <1>4

LEMMA ReviewMade ==
    ASSUME ReportsInv, NEW e \in buildShiftExceptions, SourceMatches(e), NEW status
    PROVE  ReviewOK([key |-> e.key, binds |-> e.binds, status |-> status,
                     seen |-> page.sees])
<1> DEFINE r == [key |-> e.key, binds |-> e.binds, status |-> status, seen |-> page.sees]
<1>1. Raised(e) /\ WellFormed(punches) /\ assignment \in Assignments
  BY ExceptionsTell DEF ReportsInv, PunchesOK
<1>2. r.key = e.key /\ r.binds = e.binds /\ r.seen = e.sees
  BY PageMatches
<1> HIDE DEF r
<1>3. CASE deactivated = Never
  <2>1. /\ r.binds = Enc(Rev(r.key[1], punches), assignment)
        /\ Tells(r.key, r.seen, e.offer, punches, assignment)
    BY <1>1, <1>2, <1>3 DEF Raised
  <2>2. ReviewOK(r)
    BY <1>1, <2>1 DEF ReviewOK
  <2> QED
    BY <2>2 DEF r
<1>4. CASE deactivated # Never
  <2>1. TellsAlone(r.key, r.seen, e.offer, r.binds, deactivated)
    BY <1>1, <1>2, <1>4 DEF Raised
  <2>2. ReviewOK(r)
    BY <2>1 DEF ReviewOK
  <2> QED
    BY <2>2 DEF r
<1> QED
  BY <1>3, <1>4

LEMMA ReportsNext ==
    ASSUME ReportsInv, [Next]_vars
    PROVE  ReportsInv'
<1>1. PunchesOK'
  BY PunchesNext, TapsKeepPunches DEF ReportsInv
<1>2. changes' \in Nat /\ reviewed' \in Nat
  BY DEF ReportsInv, Next, vars, Scan, CorrectDirectly, EditSchedule, RemoveWorker, Tick,
         LoadPage, review, ApplySuggestion
<1>3. PageOK'
  <2>1. CASE page' = page
    BY <2>1 DEF ReportsInv, PageOK
  <2>2. CASE page' = NoPage
    BY <2>2 DEF PageOK
  <2>3. ASSUME NEW e \in buildShiftExceptions, LoadPage(e)
        PROVE  PageOK'
    BY <2>3, PageLoaded
  <2> QED
    BY <2>1, <2>2, <2>3 DEF Next, vars, Scan, CorrectDirectly, EditSchedule, RemoveWorker,
       Tick, review, ApplySuggestion
<1>4. \A r \in reviews' : ReviewOK(r)
  <2>1. CASE reviews' = reviews
    BY <2>1 DEF ReportsInv
  <2>2. ASSUME NEW status \in {"open", "reviewed"}, review(status)
        PROVE  \A r \in reviews' : ReviewOK(r)
    <3>1. PICK e \in buildShiftExceptions :
            /\ SourceMatches(e)
            /\ reviews' = {r \in reviews : r.key # e.key}
                            \cup {[key |-> e.key, binds |-> e.binds,
                                   status |-> status, seen |-> page.sees]}
      BY <2>2 DEF review
    <3>2. ReviewOK([key |-> e.key, binds |-> e.binds, status |-> status,
                    seen |-> page.sees])
      BY <3>1, ReviewMade
    <3> QED
      BY <3>1, <3>2 DEF ReportsInv
  <2> QED
    BY <2>1, <2>2 DEF Next, vars, Scan, CorrectDirectly, EditSchedule, RemoveWorker,
       Tick, LoadPage, ApplySuggestion
<1>5. (\A r \in reviews : ReviewOK(r))'
  BY <1>4 DEF ReviewOK
<1> QED
  BY <1>1, <1>2, <1>3, <1>5 DEF ReportsInv

-----------------------------------------------------------------------------
(* Settled exceptions.                                                     *)

LEMMA OnlyScans ==
    ASSUME ReportsInv, [Next]_vars, Scanned
    PROVE  \E slot \in Slots, type \in {"in", "out"} : Scan(slot, type)
<1>1. changes' = changes /\ reviewed' = reviewed /\ punches' # punches
  BY DEF Scanned
<1>2. changes' # changes + 1 /\ reviewed' # reviewed + 1
  BY <1>1 DEF ReportsInv
<1> QED
  BY <1>1, <1>2 DEF Next, vars, CorrectDirectly, EditSchedule, RemoveWorker, Tick,
     LoadPage, review, ApplySuggestion

\* A scan that says nothing of an exception leaves what binds its review.
LEMMA RevKept ==
    ASSUME NEW P, WellFormed(P), NEW n, WellFormed(P \cup {n}), NEW type,
           \/ type \in {"missing_arrival", "late_arrival"} /\ n.type = "out"
           \/ /\ type = "missing_clock_out"
              /\ DateOf(n.at) > Date /\ n.at - Latest(On(P, Date)).at > MaxShift
              /\ On(P, Date) # {}
    PROVE  Rev(type, P \cup {n}) = Rev(type, P)
<1> DEFINE Q == P \cup {n}
<1>1. CASE type \in {"missing_arrival", "late_arrival"} /\ n.type = "out"
  <2>1. Rev(type, P) = Ins(On(P, Date)) /\ Rev(type, Q) = Ins(On(Q, Date))
    BY <1>1, RevIs
  <2>2. Ins(On(Q, Date)) = Ins(On(P, Date))
    BY <1>1 DEF Ins, On
  <2> QED
    BY <2>1, <2>2
<1>2. CASE /\ type = "missing_clock_out"
           /\ DateOf(n.at) > Date /\ n.at - Latest(On(P, Date)).at > MaxShift
           /\ On(P, Date) # {}
  <2> DEFINE L == Latest(On(P, Date))
  <2>1. DateOf(n.at) = 2 /\ n.at \in Nat
    <3>1. n.at \in Nat /\ DateOf(n.at) \in 0..2
      BY DatesOf
    <3> QED
      BY <1>2, <3>1 DEF Date
  <2>2. On(Q, Date) = On(P, Date)
    BY <2>1 DEF On, Date
  <2>3. /\ Rev(type, P) = {p \in P : DateOf(p.at) # Date + 1 \/ isPlausibleShift(L.at, p.at)}
        /\ Rev(type, Q) = {p \in Q : DateOf(p.at) # Date + 1 \/ isPlausibleShift(L.at, p.at)}
    BY <1>2, <2>2, RevIs
  <2>4. L.at \in Nat
    <3>1. On(P, Date) \in SUBSET P
      BY DEF On
    <3>2. L \in P
      BY <1>2, <3>1, LatestOf
    <3> QED
      BY <3>2 DEF WellFormed, PunchRow
  <2> HIDE DEF L
  <2>5. ~isPlausibleShift(L.at, n.at)
    BY <1>2, <2>1, <2>4, Constants DEF isPlausibleShift, L
  <2>6. ~(DateOf(n.at) # Date + 1)
    BY <2>1 DEF Date
  <2> QED
    BY <2>3, <2>5, <2>6
<1> QED
  BY <1>1, <1>2

LEMMA SettledIsKept ==
    ASSUME ReportsInv, PunchesOK', [Next]_vars, Scanned,
           NEW e \in buildShiftExceptions, Hidden(e),
           \A p \in punches' \ punches : Irrelevant(e, p),
           NEW f \in buildShiftExceptions', f.key = e.key
    PROVE  Hidden(f)'
<1>1. PICK slot \in Slots, type \in {"in", "out"} : Scan(slot, type)
  BY OnlyScans
<1> DEFINE n == Punch(slot, type, "kiosk")
<1>2. /\ punches' = punches \cup {n} /\ n \notin punches
      /\ UNCHANGED <<assignment, deactivated, reviews>>
  <2>1. n.at = slot
    BY DEF Punch
  <2> QED
    BY <1>1, <2>1 DEF Scan
<1>3. WellFormed(punches) /\ WellFormed(punches \cup {n}) /\ assignment \in Assignments
  BY <1>2 DEF ReportsInv, PunchesOK
<1> HIDE DEF n
<1>4. Irrelevant(e, n)
  BY <1>2
<1>5. PICK r \in reviews : Covers(r, e) /\ r.status # "open"
  BY DEF Hidden
<1>6. r.binds = e.binds /\ r.key = f.key
  BY <1>5, CoversIs DEF Covers
<1>7. Raised(e)
  BY ExceptionsTell DEF ReportsInv
<1>8. Raised(f)'
  BY ExceptionsTellNext
<1>9. f.binds = e.binds
  <2>1. CASE deactivated = Never
    <3>1. /\ e.binds = Enc(Rev(e.key[1], punches), assignment)
          /\ Tells(e.key, e.sees, e.offer, punches, assignment)
      BY <1>7, <2>1 DEF Raised
    <3>2. f.binds = Enc(Rev(e.key[1], punches \cup {n}), assignment)
      BY <1>2, <1>8, <2>1 DEF Raised
    <3>3. e.key[1] # "inactive_worker_scan"
      BY <3>1, TellsType DEF Types, ScheduleTypes
    <3>4. CASE e.key[1] \in {"missing_arrival", "late_arrival"}
      <4>1. n.type = "out"
        BY <1>4, <3>4 DEF Irrelevant
      <4>2. Rev(e.key[1], punches \cup {n}) = Rev(e.key[1], punches)
        BY <1>3, <3>4, <4>1, RevKept
      <4> QED
        BY <3>1, <3>2, <4>2
    <3>5. CASE e.key[1] = "missing_clock_out"
      <4>1. DateOf(n.at) > Date /\ n.at - Latest(On(punches, Date)).at > MaxShift
        BY <1>4, <3>5 DEF Irrelevant, LastEvent, Today
      <4>2. On(punches, Date) # {}
        BY <3>1, <3>5 DEF Tells, ScheduleTypes
      <4>3. Rev(e.key[1], punches \cup {n}) = Rev(e.key[1], punches)
        BY <1>3, <3>5, <4>1, <4>2, RevKept
      <4> QED
        BY <3>1, <3>2, <4>3
    <3> QED
      BY <1>4, <3>3, <3>4, <3>5 DEF Irrelevant
  <2>2. CASE deactivated # Never
    <3>1. /\ e.binds = e.evidence
          /\ \E p \in punches : e.key[2] = p.at /\ e.evidence = Alone(p, deactivated)
      BY <1>7, <2>2 DEF Raised
    <3>2. PICK p \in punches : e.key[2] = p.at /\ e.binds = Alone(p, deactivated)
      BY <3>1
    <3>3. /\ f.binds = f.evidence
          /\ \E q \in punches' : f.key[2] = q.at /\ f.evidence = Alone(q, deactivated)
      BY <1>2, <1>8, <2>2 DEF Raised
    <3>4. PICK q \in punches \cup {n} : f.key[2] = q.at /\ f.binds = Alone(q, deactivated)
      BY <1>2, <3>3
    <3>5. p = q
      BY <1>3, <3>2, <3>4 DEF WellFormed
    <3> QED
      BY <3>2, <3>4, <3>5
  <2> QED
    BY <2>1, <2>2
<1>10. Covers(r, f)
  BY <1>6, <1>9 DEF Covers
<1>11. \E x \in reviews' : Covers(x, f) /\ x.status # "open"
  BY <1>2, <1>5, <1>10
<1> QED
  BY <1>11 DEF Hidden, Covers

-----------------------------------------------------------------------------
(* The theorems.                                                           *)

LEMMA ReportsStay == Spec => []ReportsInv
<1>1. Init => ReportsInv
  BY ReportsInit
<1>2. ReportsInv /\ [Next]_vars => ReportsInv'
  BY ReportsNext
<1> QED
  BY <1>1, <1>2, PTL DEF Spec

\* Whoever hides an exception by a review has seen it as it is now, whatever
\* evidence came or was corrected since: getExceptionReviewEvidence keeps of the
\* pairing window all that decides what is shown.
THEOREM HiddenIsAsSeen == Spec => []HiddenAsSeen
<1>1. ReportsInv => HiddenAsSeen
  BY HiddenIsSeen
<1> QED
  BY <1>1, ReportsStay, PTL

\* The briefing tells of arrivals what the exceptions tell, a blocked day has a
\* critical action to begin with, and the closeout page lists as blocking what
\* the mutation wants acknowledged.
THEOREM BriefingAlwaysAgrees == Spec => []BriefingAgrees
<1>1. ReportsInv => BriefingAgrees
  BY BriefingIsOfTheDay DEF ReportsInv
<1> QED
  BY <1>1, ReportsStay, PTL

\* Hours are paid once, for shifts the exceptions pair too, and withheld from
\* a date with a scan out of sequence or an exit missing: the pairing of
\* hours.ts against that of shiftPairing.ts.
THEOREM HoursAlwaysAgree == Spec => []HoursAgree
<1>1. ReportsInv => HoursAgree
  BY HoursAreOfTheEvidence DEF ReportsInv
<1> QED
  BY <1>1, ReportsStay, PTL

\* A reviewed exception is not opened again by a scan that does not bear on it.
THEOREM SettledAlwaysStays == Spec => SettledStaysSettled
<1> DEFINE Kept ==
      Scanned /\ reviews # {} =>
          \A e \in buildShiftExceptions :
             /\ Hidden(e)
             /\ \A p \in punches' \ punches : Irrelevant(e, p)
             => \A f \in buildShiftExceptions' : f.key = e.key => Hidden(f)'
<1>1. ReportsInv /\ ReportsInv' /\ [Next]_vars => [Kept]_vars
  BY SettledIsKept DEF ReportsInv
<1>2. Spec => [][Kept]_vars
  BY <1>1, ReportsStay, PTL DEF Spec
<1> QED
  BY <1>2 DEF SettledStaysSettled

\* No one-tap correction changes which punches make a shift, or invents an
\* exit where there is one.
THEOREM SuggestionsAreAlwaysSafe == Spec => SuggestionsAreSafe
<1>1. ReportsInv /\ [Next]_vars => [ApplySuggestion => SafeSuggestion]_vars
  BY TapsAreSafe
<1>2. Spec => [][ApplySuggestion => SafeSuggestion]_vars
  BY <1>1, ReportsStay, PTL DEF Spec
<1> QED
  BY <1>2 DEF SuggestionsAreSafe, SafeSuggestion
=============================================================================

-------------------------- MODULE ProactiveActions --------------------------
(***************************************************************************)
(* The list of what needs a supervisor's attention, computed from the      *)
(* signals a page has read (src/src/lib/proactive-actions.ts): which       *)
(* actions there are, how they are ranked, where each role is sent, and    *)
(* the few that the Live Shift Sentinel shows, with what the supervisor    *)
(* has already seen.  Pure functions; Dashboard holds their inputs.        *)
(*                                                                         *)
(* A signal's data is abstracted to what the actions tell apart.  Texts,   *)
(* chips and labels are left out, and so are the count of exceptions by    *)
(* type for an answer without rows, which the portal does not send, and    *)
(* the action schedule-warning, a text of the figures.                     *)
(***************************************************************************)
EXTENDS Naturals, FiniteSets, Sequences

CONSTANT SentinelItems  \* how many items the Sentinel shows, 6 in the code

SentinelItemsAssumption == SentinelItems \in Nat \ {0}

Signals == {"stats", "workers", "attendance", "system-health",
            "shift-briefing", "shift-exceptions", "shift-closeout"}

None == "none"

PriorityRank == [critical |-> 0, warning |-> 1, closeout |-> 2, info |-> 3]

SourceRank == [service |-> 0, kiosk |-> 1, enrollment |-> 2, exceptions |-> 3,
               schedule |-> 4, signal |-> 5, closeout |-> 6, attendance |-> 7]

SignalPriority(s) == IF s \in {"system-health", "workers"}
                     THEN "critical" ELSE "warning"

SignalSource(s) == CASE s = "system-health" -> "service"
                     [] s = "workers" -> "enrollment"
                     [] s = "shift-exceptions" -> "exceptions"
                     [] s = "shift-closeout" -> "closeout"
                     [] s = "attendance" -> "attendance"
                     [] OTHER -> "signal"

SignalPage(s) == CASE s = "workers" -> "workers"
                   [] s = "system-health" -> "kiosks"
                   [] s = "shift-briefing" -> "briefing"
                   [] s = "shift-exceptions" -> "exceptions"
                   [] s = "shift-closeout" -> "closeout"
                   [] OTHER -> "log"

-----------------------------------------------------------------------------
(***************************************************************************)
(* The actions.  An input is a record: the day, failures (the signals      *)
(* whose last read failed), freshness (of each signal: "unknown" before    *)
(* its first read, then "fresh" or "stale"), and the data of the signals,  *)
(* which is empty as long as a signal was never read.                      *)
(***************************************************************************)
Action(key, priority, source, signal, page) ==
    [key |-> key, priority |-> priority, source |-> source, signal |-> signal,
     page |-> page, correct |-> FALSE, readiness |-> FALSE, blocks |-> FALSE,
     proof |-> {}, order |-> 0, evidence |-> <<>>]

\* Of a signal that was read: "stale" if its last read failed, or said that its
\* store is unavailable.
normalizeFreshness(failed) == IF failed THEN "stale" ELSE "fresh"

FailureActions(in) ==
    {[Action(<<"failure", s>>, SignalPriority(s), SignalSource(s), s,
             SignalPage(s))
        EXCEPT !.readiness = SignalPriority(s) = "critical",
               !.blocks = s \in {"shift-exceptions", "shift-closeout"},
               !.order = IF s = "shift-briefing" THEN 1 ELSE 0,
               !.evidence = <<s>>] : s \in in.failures}

\* A face is "valid", "missing" or "invalid"; an encoding of an older portal
\* without a status counts as missing or valid.
FaceActions(in) ==
    {[Action(<<face>>, IF face = "invalid" THEN "critical" ELSE "warning",
             "enrollment", "workers", "enroll")
        EXCEPT !.readiness = TRUE,
               !.order = 1,
               !.evidence = <<Cardinality({w \in DOMAIN in.workers :
                                             in.workers[w] = face})>>]
       : face \in {f \in {"missing", "invalid"} :
                     \E w \in DOMAIN in.workers : in.workers[w] = f}}

\* A health warning is a record of its text, whether the text says that
\* something is offline or unavailable, and whether it is the face service's.
HealthActions(in) ==
    {LET warning == in.health[i]
         source == IF warning.face THEN "service" ELSE "kiosk"
     IN [Action(<<"system-health", i>>,
                IF warning.critical THEN "critical" ELSE "warning", source,
                "system-health", IF warning.face THEN "enroll" ELSE "kiosks")
           EXCEPT !.readiness = TRUE,
                  !.blocks = ~warning.face,
                  !.order = i,
                  !.evidence = <<warning.text>>]
       : i \in DOMAIN in.health}

OpenOfType(in, type) == {r \in in.exceptions.open : r.type = type}
OpenCritical(in) == {r \in in.exceptions.open : r.critical}

\* The open exceptions of one type: a card of its own before the general one.
FocusedAction(in, type) ==
    {[Action(<<type>>, "warning", "exceptions", "shift-exceptions", "exceptions")
        EXCEPT !.correct = type = "missing_clock_out",
               !.blocks = TRUE,
               !.order = IF type = "missing_clock_out" THEN 1 ELSE 2,
               !.evidence = <<in.day, OpenOfType(in, type)>>] :
       r \in OpenOfType(in, type)}

\* The open exceptions, or that the store behind them is not deployed yet.
ExceptionActions(in) ==
    LET open == in.exceptions.open
        critical == OpenCritical(in)
    IN IF in.exceptions.unavailable
       THEN {[Action(<<"exceptions-unavailable">>, "warning", "exceptions",
                     "shift-exceptions", "exceptions")
                EXCEPT !.blocks = TRUE, !.order = 1]}
       ELSE UNION {FocusedAction(in, "missing_clock_out"),
                   FocusedAction(in, "recognition_review"),
                   {[Action(<<"exceptions">>,
                            IF critical # {} THEN "critical" ELSE "warning",
                            "exceptions", "shift-exceptions", "exceptions")
                       EXCEPT !.readiness = critical # {},
                              !.blocks = TRUE,
                              !.order = 3,
                              !.evidence = <<in.day, open, critical>>] : r \in open}}

\* The closeout: unavailable and pending are both said, completed is told
\* once.  A blocker is a record of its label and its proof: the page that shows
\* it, whether that shows the exact rows, whether it opens a correction, and
\* whether its link carries the day.
CloseoutActions(in) ==
    LET card == Action(<<"closeout">>, "closeout", "closeout",
                       "shift-closeout", "closeout")
        blockers == in.closeout.blockers
    IN IF in.closeout.completed
       THEN {[card EXCEPT !.key = <<"closeout-complete">>, !.priority = "info"]}
       ELSE {[card EXCEPT !.blocks = blockers # <<>>,
                          !.proof = IF blockers = <<>> THEN {}
                                    ELSE {Head(blockers)},
                          !.evidence = IF blockers = <<>> THEN <<0>>
                                       ELSE <<Len(blockers), Head(blockers),
                                              {d \in {in.day} :
                                                 Head(blockers).dated}>>]}
            \cup IF in.closeout.unavailable
                 THEN {[card EXCEPT !.key = <<"closeout-unavailable">>,
                                    !.priority = "warning", !.blocks = TRUE]}
                 ELSE {}

\* Who has not arrived: from the roster, or from the counts while no roster
\* was ever read.
ArrivalActions(in) ==
    LET absent == IF DOMAIN in.workers # {}
                  THEN Cardinality({w \in DOMAIN in.workers :
                                      w \notin in.arrived})
                  ELSE in.stats
    IN {[Action(<<"not-arrived">>, "info", "attendance", "attendance",
                "briefing") EXCEPT !.evidence = <<n>>] : n \in {absent} \ {0}}

buildProactiveActions(in) ==
    UNION {FailureActions(in), FaceActions(in), HealthActions(in),
           ExceptionActions(in), CloseoutActions(in), ArrivalActions(in)}

Rank(a) == <<PriorityRank[a.priority], SourceRank[a.source], a.order>>

Before(a, b) ==
    LET p == Rank(a)
        q == Rank(b)
    IN \/ p[1] < q[1]
       \/ p[1] = q[1] /\ p[2] < q[2]
       \/ p[1] = q[1] /\ p[2] = q[2] /\ p[3] < q[3]

-----------------------------------------------------------------------------
(***************************************************************************)
(* Where a role is sent.                                                   *)
(***************************************************************************)
canOperate(a, role) ==
    \/ role = "admin"
    \/ /\ role = "enrollment"
       /\ a.source \in {"enrollment", "exceptions", "closeout"}
       /\ a.source = "enrollment" => a.page = "enroll"

\* A reviewer gets the dated page that shows the matter, without the intent
\* to correct it.
reviewPage(a) ==
    IF a.source \in {"exceptions", "closeout", "attendance"} THEN a.page
    ELSE IF a.source \in {"schedule", "enrollment", "kiosk", "service"}
    THEN "briefing"
    ELSE IF a.page \in {"kiosks", "workers", "schedules"}
    THEN "briefing"
    ELSE a.page

\* A link without its intent.
stripHrefParams(link) == [link EXCEPT !.correct = FALSE]

applyRole(a, role) ==
    IF canOperate(a, role) THEN a
    ELSE stripHrefParams([a EXCEPT !.page = reviewPage(a)])

\* A slip: the link of a reviewer keeps its intent.
proofLinkAsIs(a, role) == {p \in a.proof : p.exact}

\* The second link of a closeout card: the exact source of its first blocker,
\* to a reviewer without the intent.
proofLink(a, role) ==
    {IF canOperate(a, role) THEN p ELSE stripHrefParams(p) :
       p \in {q \in a.proof : q.exact}}

-----------------------------------------------------------------------------
(***************************************************************************)
(* The Live Shift Sentinel.                                                *)
(***************************************************************************)
SentinelKind(a, freshness) ==
    IF a.key[1] \in {"failure", "exceptions-unavailable", "closeout-unavailable"}
    THEN "signal-unavailable"
    ELSE IF a.key[1] \in {"missing_clock_out", "recognition_review"} THEN a.key[1]
    ELSE IF a.source \in {"kiosk", "service"} THEN "kiosk-trust"
    ELSE IF a.source = "closeout" /\ a.blocks THEN "closeout-blocked"
    ELSE IF a.source = "exceptions" /\ (a.priority = "critical" \/ a.readiness)
    THEN "critical-exception"
    ELSE IF freshness[a.signal] = "stale" THEN "signal-unavailable"
    ELSE None

\* What a seen item is recognised by; the role changes nothing in it.
Signature(a, freshness) ==
    <<SentinelKind(a, freshness), a.key, a.priority, freshness[a.signal],
      a.evidence>>

\* The actions that are urgent, at most SentinelItems of them, best rank first.
buildSentinel(in) ==
    LET urgent == {a \in buildProactiveActions(in) :
                     SentinelKind(a, in.freshness) # None}
    IN {a \in urgent : Cardinality({b \in urgent : Before(b, a)})
                         < SentinelItems}

\* seen: what was marked, a function from keys to signatures.
SentinelStatus(a, freshness, seen, baseline) ==
    IF a.key \in DOMAIN seen
    THEN IF seen[a.key] = Signature(a, freshness) THEN "seen" ELSE "changed"
    ELSE IF baseline THEN "new" ELSE "current"
=============================================================================

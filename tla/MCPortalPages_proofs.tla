------------------------ MODULE MCPortalPages_proofs ------------------------
(***************************************************************************)
(* What a supervisor has open in the portal, for every value of the        *)
(* constants: the inductive invariant of each page and of the health that  *)
(* the portal keeps, and the properties of MCPortalPages that they imply.  *)
(***************************************************************************)
EXTENDS MCPortalPages, Integers, FiniteSetTheorems, WellFoundedInduction, TLAPS

-----------------------------------------------------------------------------
(* The dashboard                                                           *)



LEMMA LeastExists ==
    ASSUME NEW S \in SUBSET Nat, S # {}
    PROVE  \E i \in S : \A j \in S : i <= j
<1>1. PICK i \in S : \A j \in S : <<j, i>> \notin OpToRel(<, Nat)
  BY NatLessThanWellFounded, WFMin
<1>2. \A j \in S : ~(j < i)
  BY <1>1 DEF OpToRel
<1> QED
  BY <1>2

LEMMA HomeCardinality ==
    ASSUME NEW S
    PROVE  Home!Cardinality(S) = Cardinality(S)
BY DEF Home!Cardinality, Cardinality

Ranked(a) ==
    /\ a.priority \in {"critical", "warning", "closeout", "info"}
    /\ a.source \in {"service", "kiosk", "enrollment", "exceptions", "schedule",
                     "signal", "closeout", "attendance"}
    /\ a.order \in Nat

LEMMA RankedFacts ==
    ASSUME NEW a, Ranked(a)
    PROVE  /\ Home!Rank(a)[1] \in Nat /\ Home!Rank(a)[2] \in Nat
           /\ Home!Rank(a)[3] \in Nat
<1>1. Home!PriorityRank[a.priority] \in Nat
  BY DEF Ranked, Home!PriorityRank
<1>2. Home!SourceRank[a.source] \in Nat
  BY DEF Ranked, Home!SourceRank
<1> QED
  BY <1>1, <1>2 DEF Ranked, Home!Rank

\* Of ranked actions one is not after any other.
LEMMA FirstExists ==
    ASSUME NEW A, A # {}, \A a \in A : Ranked(a)
    PROVE  \E a \in A : \A b \in A : ~Home!Before(b, a)
<1> DEFINE rank(a, n) == Home!Rank(a)[n]
<1>1. \A a \in A : rank(a, 1) \in Nat /\ rank(a, 2) \in Nat /\ rank(a, 3) \in Nat
  BY RankedFacts
<1> HIDE DEF rank
<1>2. PICK p \in A : \A b \in A : rank(p, 1) <= rank(b, 1)
  <2> DEFINE R == {rank(a, 1) : a \in A}
  <2>1. R \in SUBSET Nat /\ R # {}
    BY <1>1
  <2> HIDE DEF R
  <2>2. PICK i \in R : \A j \in R : i <= j
    BY <2>1, LeastExists
  <2> QED
    BY <2>2 DEF R
<1> DEFINE B == {a \in A : rank(a, 1) = rank(p, 1)}
<1>3. PICK q \in B : \A b \in B : rank(q, 2) <= rank(b, 2)
  <2> DEFINE R == {rank(a, 2) : a \in B}
  <2>1. R \in SUBSET Nat /\ R # {}
    BY <1>1
  <2> HIDE DEF R
  <2>2. PICK i \in R : \A j \in R : i <= j
    BY <2>1, LeastExists
  <2> QED
    BY <2>2 DEF R
<1> DEFINE C == {a \in B : rank(a, 2) = rank(q, 2)}
<1>4. PICK r \in C : \A b \in C : rank(r, 3) <= rank(b, 3)
  <2> DEFINE R == {rank(a, 3) : a \in C}
  <2>1. R \in SUBSET Nat /\ R # {}
    BY <1>1, <1>3
  <2> HIDE DEF R
  <2>2. PICK i \in R : \A j \in R : i <= j
    BY <2>1, LeastExists
  <2> QED
    BY <2>2 DEF R
<1>5. ASSUME NEW b \in A
      PROVE  ~( \/ rank(b, 1) < rank(r, 1)
                \/ rank(b, 1) = rank(r, 1) /\ rank(b, 2) < rank(r, 2)
                \/ rank(b, 1) = rank(r, 1) /\ rank(b, 2) = rank(r, 2)
                     /\ rank(b, 3) < rank(r, 3))
  BY <1>1, <1>2, <1>3, <1>4
<1> QED
  BY <1>4, <1>5 DEF rank, Home!Before

Urgent(in) == {a \in Home!buildProactiveActions(in) :
                 Home!SentinelKind(a, in.freshness) # Home!None}

\* What is urgent crowds nothing out to the last: the Sentinel shows something.
LEMMA SentinelShows ==
    ASSUME NEW in, \A a \in Urgent(in) : Ranked(a), Home!buildSentinel(in) = {}
    PROVE  Urgent(in) = {}
<1>1. SUFFICES ASSUME Urgent(in) # {}
               PROVE  FALSE
  OBVIOUS
<1>2. PICK a \in Urgent(in) : \A b \in Urgent(in) : ~Home!Before(b, a)
  BY <1>1, FirstExists
<1>3. {b \in Urgent(in) : Home!Before(b, a)} = {}
  BY <1>2
<1>4. Home!Cardinality({b \in Urgent(in) : Home!Before(b, a)}) = 0
  BY <1>3, HomeCardinality, FS_EmptySet
<1>5. Home!buildSentinel(in) =
        {x \in Urgent(in) :
           Home!Cardinality({b \in Urgent(in) : Home!Before(b, x)}) < SentinelItems}
  BY DEF Home!buildSentinel, Urgent
<1>6. 0 < SentinelItems
  BY DashboardAssumption DEF Home!DashboardAssumption, Home!SentinelItemsAssumption
<1> QED
  BY <1>4, <1>5, <1>6

LEMMA ActionFields ==
    ASSUME NEW key, NEW priority, NEW source, NEW signal, NEW place
    PROVE  LET a == Home!Action(key, priority, source, signal, place)
           IN /\ a.key = key /\ a.priority = priority /\ a.source = source
              /\ a.signal = signal /\ a.order = 0 /\ ~a.blocks /\ ~a.readiness
BY DEF Home!Action

LEMMA FailureRanked ==
    ASSUME NEW in, in.failures \subseteq Home!Signals, NEW a \in Home!FailureActions(in)
    PROVE  Ranked(a)
<1>1. PICK s \in in.failures : 
         a = [Home!Action(<<"failure", s>>, Home!SignalPriority(s), Home!SignalSource(s),
                          s, Home!SignalPage(s))
                EXCEPT !.readiness = Home!SignalPriority(s) = "critical",
                       !.blocks = s \in {"shift-exceptions", "shift-closeout"},
                       !.order = IF s = "shift-briefing" THEN 1 ELSE 0,
                       !.evidence = <<s>>]
  BY DEF Home!FailureActions
<1>2. /\ a.priority = Home!SignalPriority(s) /\ a.source = Home!SignalSource(s)
      /\ a.order \in {0, 1} /\ a.key = <<"failure", s>>
  BY <1>1 DEF Home!Action
<1>3. Home!SignalPriority(s) \in {"critical", "warning"}
  BY DEF Home!SignalPriority
<1>4. Home!SignalSource(s) \in {"service", "enrollment", "exceptions", "closeout",
                                "attendance", "signal"}
  BY DEF Home!SignalSource, Home!Signals
<1> QED
  BY <1>2, <1>3, <1>4 DEF Ranked

LEMMA FaceRanked ==
    ASSUME NEW in, NEW a \in Home!FaceActions(in)
    PROVE  Ranked(a)
<1>1. PICK face \in {"missing", "invalid"} : \E signs :
         a = [Home!Action(<<face>>, IF face = "invalid" THEN "critical" ELSE "warning",
                          "enrollment", "workers", "enroll")
                EXCEPT !.readiness = TRUE, !.order = 1, !.evidence = signs]
  BY DEF Home!FaceActions
<1>2. PICK signs :
         a = [Home!Action(<<face>>, IF face = "invalid" THEN "critical" ELSE "warning",
                          "enrollment", "workers", "enroll")
                EXCEPT !.readiness = TRUE, !.order = 1, !.evidence = signs]
  BY <1>1
<1>3. /\ a.priority \in {"critical", "warning"} /\ a.source = "enrollment"
      /\ a.order = 1
  BY <1>2 DEF Home!Action
<1> QED
  BY <1>3 DEF Ranked

LEMMA HealthRanked ==
    ASSUME NEW in, NEW a \in Home!HealthActions(in), \A i \in DOMAIN in.health : i \in Nat
    PROVE  Ranked(a)
BY DEF Ranked, Home!HealthActions, Home!Action


FocusedCard(in, type) ==
    [Home!Action(<<type>>, "warning", "exceptions", "shift-exceptions", "exceptions")
        EXCEPT !.correct = type = "missing_clock_out",
               !.blocks = TRUE,
               !.order = IF type = "missing_clock_out" THEN 1 ELSE 2,
               !.evidence = <<in.day, Home!OpenOfType(in, type)>>]

OpenCard(in) ==
    [Home!Action(<<"exceptions">>,
                 IF Home!OpenCritical(in) # {} THEN "critical" ELSE "warning",
                 "exceptions", "shift-exceptions", "exceptions")
        EXCEPT !.readiness = Home!OpenCritical(in) # {},
               !.blocks = TRUE,
               !.order = 3,
               !.evidence = <<in.day, in.exceptions.open, Home!OpenCritical(in)>>]

UnavailableCard ==
    [Home!Action(<<"exceptions-unavailable">>, "warning", "exceptions",
                 "shift-exceptions", "exceptions")
        EXCEPT !.blocks = TRUE, !.order = 1]

LEMMA ExceptionCards ==
    ASSUME NEW in
    PROVE  /\ in.exceptions.unavailable => Home!ExceptionActions(in) = {UnavailableCard}
           /\ ~in.exceptions.unavailable => \A a : a \in Home!ExceptionActions(in) <=>
                \/ a = FocusedCard(in, "missing_clock_out")
                     /\ Home!OpenOfType(in, "missing_clock_out") # {}
                \/ a = FocusedCard(in, "recognition_review")
                     /\ Home!OpenOfType(in, "recognition_review") # {}
                \/ a = OpenCard(in) /\ in.exceptions.open # {}
<1>1. in.exceptions.unavailable => Home!ExceptionActions(in) = {UnavailableCard}
  BY DEF Home!ExceptionActions, UnavailableCard
<1>2. ASSUME NEW type, NEW a
      PROVE  a \in Home!FocusedAction(in, type) <=>
               a = FocusedCard(in, type) /\ Home!OpenOfType(in, type) # {}
  BY DEF Home!FocusedAction, FocusedCard
<1>3. ASSUME ~in.exceptions.unavailable, NEW a
      PROVE  a \in Home!ExceptionActions(in) <=>
               \/ a \in Home!FocusedAction(in, "missing_clock_out")
               \/ a \in Home!FocusedAction(in, "recognition_review")
               \/ a = OpenCard(in) /\ in.exceptions.open # {}
  BY <1>3 DEF Home!ExceptionActions, OpenCard
<1> QED
  BY <1>1, <1>2, <1>3

LEMMA ExceptionFields ==
    ASSUME NEW in
    PROVE  /\ Ranked(UnavailableCard) /\ Ranked(OpenCard(in))
           /\ Ranked(FocusedCard(in, "missing_clock_out"))
           /\ Ranked(FocusedCard(in, "recognition_review"))
           /\ UnavailableCard.key[1] = "exceptions-unavailable"
           /\ FocusedCard(in, "missing_clock_out").key[1] = "missing_clock_out"
           /\ FocusedCard(in, "recognition_review").key[1] = "recognition_review"
           /\ OpenCard(in).key[1] = "exceptions"
           /\ OpenCard(in).source = "exceptions"
           /\ Home!OpenCritical(in) # {} => OpenCard(in).priority = "critical"
<1>1. ASSUME NEW type
      PROVE  /\ Ranked(FocusedCard(in, type)) 
             /\ FocusedCard(in, type).key[1] = type
  BY DEF FocusedCard, Ranked, Home!Action
<1>2. Ranked(UnavailableCard) /\ UnavailableCard.key[1] = "exceptions-unavailable"
  BY DEF UnavailableCard, Ranked, Home!Action
<1>3. Ranked(OpenCard(in)) /\ OpenCard(in).key[1] = "exceptions"
      /\ OpenCard(in).source = "exceptions"
      /\ (Home!OpenCritical(in) # {} => OpenCard(in).priority = "critical")
  BY DEF OpenCard, Ranked, Home!Action
<1> QED
  BY <1>1, <1>2, <1>3

LEMMA ExceptionRanked ==
    ASSUME NEW in, NEW a \in Home!ExceptionActions(in)
    PROVE  Ranked(a)
BY ExceptionCards, ExceptionFields

CloseoutCard ==
    Home!Action(<<"closeout">>, "closeout", "closeout", "shift-closeout", "closeout")

BlockedCard(in) ==
    LET blockers == in.closeout.blockers
    IN [CloseoutCard EXCEPT
          !.blocks = blockers # <<>>,
          !.proof = IF blockers = <<>> THEN {} ELSE {Head(blockers)},
          !.evidence = IF blockers = <<>> THEN <<0>>
                       ELSE <<Len(blockers), Head(blockers),
                              {d \in {in.day} : Head(blockers).dated}>>]

NoCloseoutCard ==
    [CloseoutCard EXCEPT !.key = <<"closeout-unavailable">>,
                         !.priority = "warning", !.blocks = TRUE]

CompleteCard ==
    [CloseoutCard EXCEPT !.key = <<"closeout-complete">>, !.priority = "info"]

LEMMA CloseoutCards ==
    ASSUME NEW in
    PROVE  /\ in.closeout.completed => Home!CloseoutActions(in) = {CompleteCard}
           /\ ~in.closeout.completed => \A a : a \in Home!CloseoutActions(in) <=>
                 \/ a = BlockedCard(in)
                 \/ a = NoCloseoutCard /\ in.closeout.unavailable
<1>1. in.closeout.completed => Home!CloseoutActions(in) = {CompleteCard}
  BY DEF Home!CloseoutActions, CompleteCard, CloseoutCard
<1>2. ASSUME ~in.closeout.completed
      PROVE  Home!CloseoutActions(in) =
               {BlockedCard(in)} \cup
               IF in.closeout.unavailable THEN {NoCloseoutCard} ELSE {}
  BY <1>2 DEF Home!CloseoutActions, BlockedCard, NoCloseoutCard, CloseoutCard
<1>3. CASE in.closeout.unavailable
  BY <1>1, <1>2, <1>3
<1>4. CASE ~in.closeout.unavailable
  BY <1>1, <1>2, <1>4
<1> QED
  BY <1>3, <1>4

LEMMA CloseoutFields ==
    ASSUME NEW in
    PROVE  /\ Ranked(CompleteCard) /\ Ranked(NoCloseoutCard) /\ Ranked(BlockedCard(in))
           /\ NoCloseoutCard.key[1] = "closeout-unavailable"
           /\ BlockedCard(in).key[1] = "closeout"
           /\ BlockedCard(in).source = "closeout"
           /\ in.closeout.blockers # <<>> => BlockedCard(in).blocks
<1>1. Ranked(CompleteCard)
  BY DEF CompleteCard, CloseoutCard, Ranked, Home!Action
<1>2. Ranked(NoCloseoutCard) /\ NoCloseoutCard.key[1] = "closeout-unavailable"
  BY DEF NoCloseoutCard, CloseoutCard, Ranked, Home!Action
<1>4. PICK proof, signs :
         BlockedCard(in) = [CloseoutCard EXCEPT !.blocks = in.closeout.blockers # <<>>,
                              !.proof = proof, !.evidence = signs]
  BY DEF BlockedCard
<1>5. /\ Ranked(BlockedCard(in)) /\ BlockedCard(in).key[1] = "closeout"
      /\ BlockedCard(in).source = "closeout"
  BY <1>4 DEF CloseoutCard, Ranked, Home!Action
<1>6. in.closeout.blockers # <<>> => BlockedCard(in).blocks
  BY <1>4 DEF CloseoutCard, Home!Action
<1> QED
  BY <1>1, <1>2, <1>5, <1>6

LEMMA CloseoutRanked ==
    ASSUME NEW in, NEW a \in Home!CloseoutActions(in)
    PROVE  Ranked(a)
BY CloseoutCards, CloseoutFields

LEMMA ArrivalRanked ==
    ASSUME NEW in, NEW a \in Home!ArrivalActions(in)
    PROVE  Ranked(a)
<1>1. PICK n : a = [Home!Action(<<"not-arrived">>, "info", "attendance", "attendance",
                      "briefing") EXCEPT !.evidence = <<n>>]
  BY DEF Home!ArrivalActions
<1> QED
  BY <1>1 DEF Home!Action, Ranked

LEMMA AllRanked ==
    ASSUME NEW in, in.failures \subseteq Home!Signals, \A i \in DOMAIN in.health : i \in Nat,
           NEW a \in Home!buildProactiveActions(in)
    PROVE  Ranked(a)
BY FailureRanked, FaceRanked, HealthRanked, ExceptionRanked, CloseoutRanked, ArrivalRanked
   DEF Home!buildProactiveActions


\* What the portal answers about the kiosks and the closeout.
LEMMA ServedFacts ==
    /\ \A i \in 0..3 :
          /\ \A j \in DOMAIN Home!Value("system-health", i) : j \in Nat
          /\ Home!Value("system-health", i) # <<>> =>
                1 \in DOMAIN Home!Value("system-health", i)
    /\ \A i \in 0..2 : ~Home!Value("shift-closeout", i).unavailable
<1> DEFINE slow == [text |-> "latency", critical |-> FALSE, face |-> TRUE]
           down == [text |-> "down", critical |-> TRUE, face |-> FALSE]
<1>1. MCServed["system-health"] = <<<<>>, <<slow, down>>, <<down>>>>
  BY DEF MCServed
<1>7. \A i \in 1..2 : ~MCServed["shift-closeout"][i].unavailable
  <2>1. \E x, y : MCServed["shift-closeout"] =
           <<[unavailable |-> FALSE, completed |-> FALSE, blockers |-> x],
             [unavailable |-> FALSE, completed |-> FALSE, blockers |-> y]>>
    BY DEF MCServed
  <2> QED
    BY <2>1
<1>2. Home!Empty("system-health") = <<>> /\ ~Home!Empty("shift-closeout").unavailable
  BY DEF Home!Empty
<1> HIDE DEF slow, down
<1>3. /\ MCServed["system-health"][1] = <<>>
      /\ MCServed["system-health"][2] = <<slow, down>>
      /\ MCServed["system-health"][3] = <<down>>
  BY <1>1
<1>4. ASSUME NEW i \in 0..3
      PROVE  Home!Value("system-health", i) \in {<<>>, <<slow, down>>, <<down>>}
  <2>1. i = 0 \/ i = 1 \/ i = 2 \/ i = 3
    OBVIOUS
  <2> QED
    BY <1>2, <1>3, <2>1 DEF Home!Value
<1>5. ASSUME NEW v \in {<<>>, <<slow, down>>, <<down>>}
      PROVE  (\A j \in DOMAIN v : j \in Nat) /\ (v # <<>> => 1 \in DOMAIN v)
  <2>1. DOMAIN <<slow, down>> = 1..2 /\ DOMAIN <<down>> = 1..1
    OBVIOUS
  <2>2. v = <<>> => \A j \in DOMAIN v : j \in Nat
    OBVIOUS
  <2> QED
    BY <2>1, <2>2
<1>6. ASSUME NEW i \in 0..2
      PROVE  ~Home!Value("shift-closeout", i).unavailable
  BY <1>7, <1>2 DEF Home!Value
<1> QED
  BY <1>4, <1>5, <1>6

\* A card about a source that did not answer, and one that only a supervisor can
\* clear, is urgent.
LEMMA UrgentKinds ==
    ASSUME NEW a, NEW freshness,
           \/ a.key[1] \in {"failure", "exceptions-unavailable", "closeout-unavailable",
                            "missing_clock_out", "recognition_review"}
           \/ a.source \in {"kiosk", "service"}
           \/ a.source = "closeout" /\ a.blocks
           \/ a.source = "exceptions" /\ a.priority = "critical"
    PROVE  Home!SentinelKind(a, freshness) # Home!None
BY DEF Home!SentinelKind, Home!None

PageOK ==
    /\ page = [day |-> page.day, loading |-> page.loading, data |-> page.data,
               at |-> page.at, freshness |-> page.freshness]
    /\ page.loading \in BOOLEAN
    /\ page.data["system-health"] \in 0..3 /\ page.data["shift-closeout"] \in 0..2
    /\ ~page.loading =>
          /\ \A s \in Home!Signals : page.freshness[s] \in {"fresh", "stale"}
          /\ page.freshness["shift-briefing"] = "fresh" =>
                ~Home!Data(page, "shift-briefing").unavailable

LEMMA PageNoFalseClear ==
    ASSUME PageOK
    PROVE  Home!NoFalseClear
<1> SUFFICES ASSUME ~page.loading, Home!Sentinel(page) = {}
             PROVE  /\ \A s \in Home!Signals : page.freshness[s] = "fresh"
                    /\ ~Home!Data(page, "shift-briefing").unavailable
                    /\ ~Home!Data(page, "shift-exceptions").unavailable
                    /\ ~Home!Data(page, "shift-closeout").unavailable
                    /\ Home!Data(page, "system-health") = <<>>
                    /\ \A r \in Home!Data(page, "shift-exceptions").open :
                          ~r.critical /\ r.type \notin {"missing_clock_out", "recognition_review"}
                    /\ \/ Home!Data(page, "shift-closeout").completed
                       \/ Home!Data(page, "shift-closeout").blockers = <<>>
  BY DEF Home!NoFalseClear, Home!Showing
<1> DEFINE in == Home!Input(page)
<1>1. /\ in.failures = Home!Failures(page) /\ in.freshness = page.freshness
      /\ in.health = Home!Data(page, "system-health")
      /\ in.exceptions = Home!Data(page, "shift-exceptions")
      /\ in.closeout = Home!Data(page, "shift-closeout")
  BY DEF Home!Input
<1>2. in.failures \subseteq Home!Signals
  BY <1>1 DEF Home!Failures
<1>3. /\ \A j \in DOMAIN in.health : j \in Nat
      /\ in.health # <<>> => 1 \in DOMAIN in.health
      /\ ~in.closeout.unavailable
  BY <1>1, ServedFacts DEF PageOK, Home!Data
<1>4. Home!buildSentinel(in) = {}
  BY DEF Home!Sentinel
<1> HIDE DEF in
<1>5. \A a \in Urgent(in) : Ranked(a)
  BY <1>2, <1>3, AllRanked DEF Urgent
<1>6. ASSUME NEW a \in Home!buildProactiveActions(in)
      PROVE  Home!SentinelKind(a, in.freshness) = Home!None
  BY <1>4, <1>5, SentinelShows DEF Urgent
<1>7. ASSUME NEW s \in Home!Signals
      PROVE  page.freshness[s] = "fresh"
  <2> SUFFICES ASSUME page.freshness[s] = "stale"
               PROVE  FALSE
    BY DEF PageOK
  <2>1. s \in in.failures
    BY <1>1 DEF Home!Failures
  <2> DEFINE a == [Home!Action(<<"failure", s>>, Home!SignalPriority(s), Home!SignalSource(s),
                          s, Home!SignalPage(s))
                EXCEPT !.readiness = Home!SignalPriority(s) = "critical",
                       !.blocks = s \in {"shift-exceptions", "shift-closeout"},
                       !.order = IF s = "shift-briefing" THEN 1 ELSE 0,
                       !.evidence = <<s>>]
  <2>2. a \in Home!FailureActions(in)
    BY <2>1 DEF Home!FailureActions
  <2>3. a.key = <<"failure", s>>
    BY DEF Home!Action
  <2> HIDE DEF a
  <2>4. a.key[1] = "failure"
    BY <2>3
  <2>5. a \in Home!buildProactiveActions(in)
    BY <2>2 DEF Home!buildProactiveActions
  <2> QED
    BY <1>6, <2>4, <2>5, UrgentKinds
<1>8. Home!Data(page, "system-health") = <<>>
  <2> SUFFICES ASSUME in.health # <<>>
               PROVE  FALSE
    BY <1>1
  <2>1. PICK a \in Home!HealthActions(in) : TRUE
    BY <1>3 DEF Home!HealthActions
  <2>2. a.source \in {"kiosk", "service"}
    BY DEF Home!HealthActions, Home!Action
  <2>3. a \in Home!buildProactiveActions(in)
    BY DEF Home!buildProactiveActions
  <2> QED
    BY <1>6, <2>2, <2>3, UrgentKinds
<1>9. \A a \in Home!ExceptionActions(in) : Home!SentinelKind(a, in.freshness) = Home!None
  BY <1>6 DEF Home!buildProactiveActions
<1>10. ~in.exceptions.unavailable
  <2>1. Home!SentinelKind(UnavailableCard, in.freshness) # Home!None
    BY ExceptionFields, UrgentKinds
  <2> QED
    BY <1>9, <2>1, ExceptionCards
<1>11. ASSUME NEW r \in in.exceptions.open
       PROVE  ~r.critical /\ r.type \notin {"missing_clock_out", "recognition_review"}
  <2>1. CASE r.critical
    <3>1. Home!OpenCritical(in) # {} /\ in.exceptions.open # {}
      BY <2>1 DEF Home!OpenCritical
    <3>2. OpenCard(in) \in Home!ExceptionActions(in)
      BY <1>10, <3>1, ExceptionCards
    <3>3. Home!SentinelKind(OpenCard(in), in.freshness) # Home!None
      BY <3>1, ExceptionFields, UrgentKinds
    <3> QED
      BY <1>9, <3>2, <3>3
  <2>2. ASSUME NEW type \in {"missing_clock_out", "recognition_review"}, r.type = type
        PROVE  FALSE
    <3>1. Home!OpenOfType(in, type) # {}
      BY <2>2 DEF Home!OpenOfType
    <3>2. FocusedCard(in, type) \in Home!ExceptionActions(in)
      BY <1>10, <3>1, ExceptionCards
    <3>3. FocusedCard(in, type).key[1] = type
      BY ExceptionFields
    <3>4. Home!SentinelKind(FocusedCard(in, type), in.freshness) # Home!None
      BY <3>3, UrgentKinds
    <3> QED
      BY <1>9, <3>2, <3>4
  <2> QED
    BY <2>1, <2>2
<1>12. in.closeout.completed \/ in.closeout.blockers = <<>>
  <2> SUFFICES ASSUME ~in.closeout.completed, in.closeout.blockers # <<>>
               PROVE  FALSE
    OBVIOUS
  <2>1. BlockedCard(in) \in Home!CloseoutActions(in)
    BY CloseoutCards
  <2>2. BlockedCard(in) \in Home!buildProactiveActions(in)
    BY <2>1 DEF Home!buildProactiveActions
  <2> QED
    BY <1>6, <2>2, CloseoutFields, UrgentKinds
<1> QED
  BY <1>1, <1>3, <1>7, <1>8, <1>10, <1>11, <1>12 DEF PageOK, Home!Signals


InRange(s, i) ==
    /\ s = "system-health" => i \in 0..3
    /\ s = "shift-closeout" => i \in 0..2

\* Batches that were replaced, and at most one that counts, whose readings were
\* given after those the page holds.
BatchOK(b) ==
    /\ b = [day |-> b.day, active |-> b.active, got |-> b.got]
    /\ b.active \in BOOLEAN
    /\ \A c \in batch : b.active /\ c.active => b = c
    /\ \A s \in DOMAIN b.got : InRange(s, b.got[s].index)
    /\ b.active => \A s \in DOMAIN b.got \cap Home!Signals :
          b.got[s].index = 0 \/ b.got[s].at \in page.at[s]..turns

AnswersOK ==
    /\ turns \in Nat
    /\ DOMAIN answers = Home!Signals
    /\ \A s \in Home!Signals : InRange(s, answers[s])

TimesOK == \A s \in Home!Signals : page.at[s] \in 0..turns

SeenOK == \A k \in DOMAIN seen : k \in DOMAIN standing /\ standing[k] = seen[k][5]

HomeInv ==
    /\ AnswersOK /\ PageOK /\ TimesOK
    /\ \A b \in batch : BatchOK(b)
    /\ SeenOK

LEMMA FreshFacts ==
    ASSUME AnswersOK, page' = Home!FreshPage(today), UNCHANGED turns
    PROVE  PageOK' /\ TimesOK' /\ page'.loading
<1>1. /\ page' = [day |-> page'.day, loading |-> page'.loading, data |-> page'.data,
                  at |-> page'.at, freshness |-> page'.freshness]
      /\ page'.loading /\ page'.loading \in BOOLEAN
      /\ page'.data = [s \in Home!Signals |-> 0]
      /\ page'.at = [s \in Home!Signals |-> 0]
  BY DEF Home!FreshPage
<1>2. page'.data["system-health"] = 0 /\ page'.data["shift-closeout"] = 0
  BY <1>1 DEF Home!Signals
<1>3. PageOK'
  BY <1>1, <1>2 DEF PageOK
<1>4. TimesOK'
  BY <1>1 DEF TimesOK, AnswersOK
<1> QED
  BY <1>1, <1>3, <1>4

LEMMA HomeInitInv ==
    ASSUME Home!Init
    PROVE  HomeInv
<1>1. page = Home!FreshPage(0) /\ turns = 0 /\ batch = {} /\ seen = <<>>
      /\ answers = [s \in Home!Signals |-> 1]
  BY DEF Home!Init
<1>2. /\ page = [day |-> page.day, loading |-> page.loading, data |-> page.data,
                 at |-> page.at, freshness |-> page.freshness]
      /\ page.loading /\ page.loading \in BOOLEAN
      /\ page.data = [s \in Home!Signals |-> 0]
      /\ page.at = [s \in Home!Signals |-> 0]
  BY <1>1 DEF Home!FreshPage
<1>3. page.data["system-health"] = 0 /\ page.data["shift-closeout"] = 0
  BY <1>2 DEF Home!Signals
<1>4. PageOK
  BY <1>2, <1>3 DEF PageOK
<1>5. TimesOK
  BY <1>1, <1>2 DEF TimesOK
<1>6. AnswersOK
  BY <1>1 DEF AnswersOK, InRange
<1>7. SeenOK
  BY <1>1 DEF SeenOK
<1> QED
  BY <1>1, <1>4, <1>5, <1>6, <1>7 DEF HomeInv

\* The page and its batches stay as they are.
LEMMA HomeKeeps ==
    ASSUME HomeInv, UNCHANGED <<batch, page>>, turns' \in Nat, turns' >= turns,
           AnswersOK', SeenOK'
    PROVE  HomeInv'
<1>1. \A b \in batch' : BatchOK(b)'
  <2> SUFFICES ASSUME NEW b \in batch
               PROVE  BatchOK(b)'
    OBVIOUS
  <2>1. BatchOK(b) /\ TimesOK /\ AnswersOK
    BY DEF HomeInv
  <2>2. \A s \in DOMAIN b.got \cap Home!Signals :
           b.got[s].at \in page.at[s]..turns => b.got[s].at \in page.at[s]..turns'
    BY <2>1 DEF TimesOK, AnswersOK
  <2> QED
    BY <2>1, <2>2 DEF BatchOK
<1>2. PageOK' /\ TimesOK'
  <2>1. PageOK'
    BY DEF HomeInv, PageOK, Home!Data
  <2>2. TimesOK'
    BY DEF HomeInv, TimesOK, AnswersOK
  <2> QED
    BY <2>1, <2>2
<1> QED
  BY <1>1, <1>2 DEF HomeInv

LEMMA ServedDomains ==
    /\ DOMAIN MCServed["system-health"] = 1..3
    /\ DOMAIN MCServed["shift-closeout"] = 1..2
<1>1. \E x, y, z : MCServed["system-health"] = <<x, y, z>>
  BY DEF MCServed
<1>2. \E x, y : MCServed["shift-closeout"] = <<x, y>>
  BY DEF MCServed
<1> QED
  BY <1>1, <1>2

LEMMA ChangeInv ==
    ASSUME HomeInv, NEW s \in Home!Signals, Home!Change(s)
    PROVE  HomeInv'
<1>1. PICK i \in DOMAIN MCServed[s] : answers' = [answers EXCEPT ![s] = i]
  BY DEF Home!Change
<1>2. InRange(s, i)
  BY ServedDomains DEF InRange
<1>3. turns' = turns + 1 /\ UNCHANGED <<batch, page, seen, standing>>
  BY DEF Home!Change, Home!pageVars
<1>4. AnswersOK'
  BY <1>1, <1>2, <1>3 DEF HomeInv, AnswersOK
<1>5. SeenOK'
  BY <1>3 DEF HomeInv, SeenOK
<1>6. turns' \in Nat /\ turns' >= turns
  BY <1>3 DEF HomeInv, AnswersOK
<1> QED
  BY <1>3, <1>4, <1>5, <1>6, HomeKeeps

LEMMA FetchInv ==
    ASSUME HomeInv, NEW supersede, Home!Fetch(supersede),
           UNCHANGED <<today, answers, turns, seen, standing>>
    PROVE  HomeInv' /\ (page' = page \/ page'.loading)
<1> DEFINE new == [day |-> today, active |-> TRUE, got |-> <<>>]
<1>1. /\ batch' = {[b EXCEPT !.active = FALSE] : b \in batch} \cup {new}
      /\ page' = page \/ page' = Home!FreshPage(today)
  BY DEF Home!Fetch
<1>2. /\ new = [day |-> new.day, active |-> new.active, got |-> new.got]
      /\ new.active /\ new.active \in BOOLEAN
      /\ \A s \in DOMAIN new.got : FALSE
  OBVIOUS
<1> HIDE DEF new
<1>3. ASSUME NEW c \in batch', c # new
      PROVE  \E b \in batch : c = [day |-> b.day, active |-> FALSE, got |-> b.got]
  <2>1. PICK b \in batch : c = [b EXCEPT !.active = FALSE]
    BY <1>1, <1>3
  <2>2. BatchOK(b)
    BY DEF HomeInv
  <2> QED
    BY <2>1, <2>2 DEF BatchOK
<1>4. ASSUME NEW c \in batch', c # new
      PROVE  /\ c = [day |-> c.day, active |-> c.active, got |-> c.got]
             /\ c.active \in BOOLEAN /\ ~c.active
             /\ \A s \in DOMAIN c.got : InRange(s, c.got[s].index)
  <2>1. PICK b \in batch : c = [day |-> b.day, active |-> FALSE, got |-> b.got]
    BY <1>3, <1>4
  <2>2. BatchOK(b)
    BY DEF HomeInv
  <2>3. \A s \in DOMAIN b.got : InRange(s, b.got[s].index)
    BY <2>2 DEF BatchOK
  <2>4. c.got = b.got /\ c.active = FALSE
    BY <2>1
  <2> QED
    BY <2>1, <2>3, <2>4
<1>5. ASSUME NEW c \in batch'
      PROVE  BatchOK(c)'
  BY <1>2, <1>4 DEF BatchOK
<1>6. PageOK' /\ TimesOK' /\ (page' = page \/ page'.loading)
  <2>1. CASE page' = page
    <3>1. PageOK'
      BY <2>1 DEF HomeInv, PageOK, Home!Data
    <3>2. TimesOK'
      BY <2>1 DEF HomeInv, TimesOK
    <3> QED
      BY <2>1, <3>1, <3>2
  <2>2. CASE page' = Home!FreshPage(today)
    BY <2>2, FreshFacts DEF HomeInv
  <2> QED
    BY <1>1, <2>1, <2>2
<1>7. AnswersOK'
  BY DEF HomeInv, AnswersOK
<1>8. SeenOK'
  BY DEF HomeInv, SeenOK
<1> QED
  BY <1>5, <1>6, <1>7, <1>8 DEF HomeInv

LEMMA ReadingFacts ==
    ASSUME NEW S, NEW got \in Home!Readings(S)
    PROVE  /\ DOMAIN got = S
           /\ \A s \in S : \/ got[s].index = 0
                           \/ got[s].index = answers[s] /\ got[s].at = turns
BY DEF Home!Readings

LEMMA HomeAnswerInv ==
    ASSUME HomeInv, NEW b \in batch, Home!Answer(b)
    PROVE  HomeInv'
<1>0. PICK S \in SUBSET Home!Signals : \E got \in Home!Readings(S) :
         batch' = (batch \ {b}) \cup {[b EXCEPT !.got = got]}
  BY DEF Home!Answer
<1>1. PICK got \in Home!Readings(S) :
         batch' = (batch \ {b}) \cup {[b EXCEPT !.got = got]}
  BY <1>0
<1>2. b.active /\ UNCHANGED <<today, answers, turns, page, seen, standing>>
  BY DEF Home!Answer, Home!pageVars
<1>3. BatchOK(b)
  BY DEF HomeInv
<1> DEFINE new == [b EXCEPT !.got = got]
<1>4. /\ new = [day |-> b.day, active |-> b.active, got |-> got]
  BY <1>3 DEF BatchOK
<1>5. /\ new = [day |-> new.day, active |-> new.active, got |-> new.got]
      /\ new.active = b.active /\ new.got = got
  BY <1>4
<1> HIDE DEF new
<1>6. batch' = (batch \ {b}) \cup {new}
  BY <1>1 DEF new
<1>7. \A s \in DOMAIN got :
         /\ InRange(s, got[s].index)
         /\ got[s].index = 0 \/ got[s].at \in page.at[s]..turns
  <2>1. \A s \in S : InRange(s, answers[s]) /\ page.at[s] \in 0..turns /\ turns \in Nat
    BY DEF HomeInv, AnswersOK, TimesOK
  <2>2. \A s \in S : InRange(s, 0)
    BY DEF InRange
  <2> QED
    BY <2>1, <2>2, ReadingFacts
<1>8. \A c \in batch \ {b} : BatchOK(c) /\ ~c.active
  BY <1>2 DEF HomeInv, BatchOK
<1>9. ASSUME NEW c \in batch'
      PROVE  BatchOK(c)'
  <2>1. CASE c = new
    <3>1. \A e \in batch' : c.active /\ e.active => c = e
      BY <1>6, <1>8, <2>1
    <3>2. c.active \in BOOLEAN
      BY <1>3, <1>5, <2>1 DEF BatchOK
    <3> QED
      BY <1>2, <1>5, <1>7, <2>1, <3>1, <3>2 DEF BatchOK
  <2>2. CASE c # new
    <3>1. c \in batch \ {b}
      BY <1>6, <2>2
    <3>2. BatchOK(c) /\ ~c.active
      BY <1>8, <3>1
    <3> QED
      BY <1>2, <3>2 DEF BatchOK
  <2> QED
    BY <2>1, <2>2
<1>10. AnswersOK' /\ SeenOK' /\ TimesOK'
  BY <1>2 DEF HomeInv, AnswersOK, SeenOK, TimesOK
<1>11. PageOK'
  BY <1>2 DEF HomeInv, PageOK, Home!Data
<1> QED
  BY <1>9, <1>10, <1>11 DEF HomeInv


\* What the page holds after a batch.
LEMMA AppliedFacts ==
    ASSUME PageOK, NEW got, DOMAIN got = Home!Signals,
           \A s \in Home!Signals : InRange(s, got[s].index),
           page' = Home!Applied(page, got)
    PROVE  /\ PageOK'
           /\ \A s \in Home!Signals :
                page'.at[s] = IF got[s].index = 0 THEN page.at[s] ELSE got[s].at
<1> DEFINE ok == Home!Signals \ Home!Failed(got)
           good == {s \in ok : s = "shift-briefing" =>
                                 ~Home!Value(s, got[s].index).unavailable}
           facts == [s \in Home!Signals |-> IF s \in ok THEN got[s].index ELSE page.data[s]]
           at == [s \in Home!Signals |-> IF s \in ok THEN got[s].at ELSE page.at[s]]
           freshness == [s \in Home!Signals |-> Home!normalizeFreshness(s \notin good)]
<1>1. page' = [page EXCEPT !.loading = FALSE, !.data = facts, !.at = at,
                           !.freshness = freshness]
  BY DEF Home!Applied
<1>2. ok = {s \in Home!Signals : got[s].index # 0}
  BY DEF Home!Failed
<1> HIDE DEF ok
<1>3. /\ facts["system-health"] \in 0..3 /\ facts["shift-closeout"] \in 0..2
  BY <1>2 DEF PageOK, InRange, Home!Signals
<1>4. \A s \in Home!Signals : freshness[s] \in {"fresh", "stale"}
  BY DEF Home!normalizeFreshness
<1>5. /\ "shift-briefing" \in Home!Signals
      /\ freshness["shift-briefing"] = "fresh" =>
             /\ "shift-briefing" \in ok
             /\ ~Home!Value("shift-briefing", got["shift-briefing"].index).unavailable
  BY DEF Home!normalizeFreshness, Home!Signals
<1>6. "shift-briefing" \in ok => facts["shift-briefing"] = got["shift-briefing"].index
  BY <1>5
<1>7. \A s \in Home!Signals : at[s] = IF got[s].index = 0 THEN page.at[s] ELSE got[s].at
  BY <1>2
<1> HIDE DEF facts, at, freshness, good
<1>8. page' = [day |-> page.day, loading |-> FALSE, data |-> facts, at |-> at,
               freshness |-> freshness]
  BY <1>1 DEF PageOK
<1>9. /\ page' = [day |-> page'.day, loading |-> page'.loading, data |-> page'.data,
                  at |-> page'.at, freshness |-> page'.freshness]
      /\ page'.data = facts /\ page'.at = at /\ page'.freshness = freshness
      /\ page'.loading \in BOOLEAN
  BY <1>8
<1>10. page'.freshness["shift-briefing"] = "fresh" =>
          ~Home!Data(page', "shift-briefing").unavailable
  BY <1>5, <1>6, <1>9 DEF Home!Data
<1>11. PageOK'
  BY <1>3, <1>4, <1>9, <1>10 DEF PageOK, Home!Data
<1> QED
  BY <1>7, <1>9, <1>11

LEMMA SettleInv ==
    ASSUME HomeInv, NEW b \in batch, Home!Settle(b)
    PROVE  /\ HomeInv'
           /\ page' = page \/ \A s \in Home!Signals : page'.at[s] >= page.at[s]
<1>1. batch' = batch \ {b} /\ UNCHANGED <<today, answers, turns>>
  BY DEF Home!Settle
<1>2. AnswersOK' /\ \A c \in batch : BatchOK(c)
  BY <1>1 DEF HomeInv, AnswersOK
<1>3. CASE UNCHANGED <<page, seen, standing>>
  <2>1. \A c \in batch' : BatchOK(c)'
    BY <1>1, <1>2, <1>3 DEF BatchOK
  <2>2. PageOK'
    BY <1>3 DEF HomeInv, PageOK, Home!Data
  <2>3. TimesOK' /\ SeenOK'
    BY <1>1, <1>3 DEF HomeInv, TimesOK, SeenOK
  <2> QED
    BY <1>2, <1>3, <2>1, <2>2, <2>3 DEF HomeInv
<1>4. CASE ~UNCHANGED <<page, seen, standing>>
  <2>1. b.active
    BY <1>4 DEF Home!Settle, Home!isCurrent
  <2>2. PICK rest \in Home!Readings(Home!Signals \ DOMAIN b.got) :
          LET got == [s \in Home!Signals |-> IF s \in DOMAIN b.got THEN b.got[s]
                                             ELSE rest[s]]
          IN /\ page' = Home!Applied(page, got)
             /\ Home!Prune(page')
             /\ standing' = Home!Only(standing, Home!Keys(Home!Sentinel(page')))
    BY <1>4, <2>1 DEF Home!Settle
  <2> DEFINE got == [s \in Home!Signals |-> IF s \in DOMAIN b.got THEN b.got[s]
                                            ELSE rest[s]]
  <2>3. ASSUME NEW s \in Home!Signals
        PROVE  /\ InRange(s, got[s].index)
               /\ got[s].index = 0 \/ got[s].at \in page.at[s]..turns
    <3>1. page.at[s] \in 0..turns /\ turns \in Nat /\ InRange(s, answers[s])
      BY DEF HomeInv, TimesOK, AnswersOK
    <3>2. CASE s \in DOMAIN b.got
      BY <1>2, <2>1, <3>2 DEF BatchOK
    <3>3. CASE s \notin DOMAIN b.got
      <4>1. \/ rest[s].index = 0
            \/ rest[s].index = answers[s] /\ rest[s].at = turns
        BY <3>3, ReadingFacts
      <4>2. InRange(s, 0)
        BY DEF InRange
      <4>3. got[s] = rest[s]
        BY <3>3
      <4> QED
        BY <3>1, <4>1, <4>2, <4>3
    <3> QED
      BY <3>2, <3>3
  <2>4. DOMAIN got = Home!Signals
    OBVIOUS
  <2>5. page' = Home!Applied(page, got)
    BY <2>2
  <2> HIDE DEF got
  <2>6. /\ PageOK'
        /\ \A s \in Home!Signals :
             page'.at[s] = IF got[s].index = 0 THEN page.at[s] ELSE got[s].at
    BY <2>3, <2>4, <2>5, AppliedFacts DEF HomeInv
  <2>7. \A s \in Home!Signals : page.at[s] \in 0..turns /\ turns \in Nat
    BY DEF HomeInv, TimesOK, AnswersOK
  <2>8. \A s \in Home!Signals : page'.at[s] >= page.at[s] /\ page'.at[s] \in 0..turns
    BY <2>3, <2>6, <2>7
  <2>9. TimesOK'
    BY <1>1, <2>8 DEF TimesOK
  <2>10. SeenOK'
    BY <2>2 DEF HomeInv, SeenOK, Home!Prune, Home!Only
  <2>11. ASSUME NEW c \in batch'
         PROVE  BatchOK(c)'
    <3>1. BatchOK(c) /\ ~c.active
      BY <1>1, <1>2, <2>1 DEF BatchOK
    <3> QED
      BY <1>1, <3>1 DEF BatchOK
  <2> QED
    BY <1>2, <2>6, <2>8, <2>9, <2>10, <2>11 DEF HomeInv
<1> QED
  BY <1>3, <1>4

LEMMA MarkInv ==
    ASSUME HomeInv, NEW items, NEW all, Home!Mark(items, all)
    PROVE  HomeInv' /\ page' = page
<1> DEFINE marked(k) == CHOOSE a \in items : a.key = k
<1>1. /\ UNCHANGED <<today, answers, turns, batch, page>>
      /\ seen' = [k \in DOMAIN seen \cup Home!Keys(items) |->
                    IF k \in Home!Keys(items)
                    THEN Home!Signature(marked(k), page.freshness) ELSE seen[k]]
      /\ standing' = [k \in DOMAIN standing \cup Home!Keys(items) |->
                        IF k \in Home!Keys(items) THEN marked(k).evidence
                        ELSE standing[k]]
  BY DEF Home!Mark
<1> HIDE DEF marked
<1>2. \A a : Home!Signature(a, page.freshness)[5] = a.evidence
  BY DEF Home!Signature
<1>3. SeenOK'
  BY <1>1, <1>2 DEF HomeInv, SeenOK
<1>4. AnswersOK' /\ turns' \in Nat /\ turns' >= turns
  BY <1>1 DEF HomeInv, AnswersOK
<1> QED
  BY <1>1, <1>3, <1>4, HomeKeeps

LEMMA ReloadInv ==
    ASSUME HomeInv, Home!Reload
    PROVE  HomeInv' /\ page'.loading
<1>1. /\ page' = Home!FreshPage(today) /\ batch' = {}
      /\ UNCHANGED <<today, answers, turns, standing>>
      /\ seen' = seen \/ seen' = <<>>
  BY DEF Home!Reload
<1>2. AnswersOK'
  BY <1>1 DEF HomeInv, AnswersOK
<1>3. SeenOK'
  <2>1. CASE seen' = seen
    BY <1>1, <2>1 DEF HomeInv, SeenOK
  <2>2. CASE seen' = <<>>
    BY <2>2 DEF SeenOK
  <2> QED
    BY <1>1, <2>1, <2>2
<1>4. PageOK' /\ TimesOK' /\ page'.loading
  BY <1>1, FreshFacts DEF HomeInv
<1> QED
  BY <1>1, <1>2, <1>3, <1>4 DEF HomeInv

LEMMA HomeNextInv ==
    ASSUME HomeInv, Home!Next
    PROVE  /\ HomeInv'
           /\ \/ page' = page \/ page'.loading
              \/ \A s \in Home!Signals : page'.at[s] >= page.at[s]
<1>1. ASSUME NEW s \in Home!Signals, Home!Change(s)
      PROVE  HomeInv' /\ page' = page
  BY <1>1, ChangeInv DEF Home!Change, Home!pageVars
<1>2. CASE Home!Midnight \/ Home!Hide
  <2>1. UNCHANGED <<answers, turns, batch, page, seen, standing>>
    BY <1>2 DEF Home!Midnight, Home!Hide, Home!pageVars
  <2>2. AnswersOK' /\ SeenOK' /\ turns' \in Nat /\ turns' >= turns
    BY <2>1 DEF HomeInv, AnswersOK, SeenOK
  <2> QED
    BY <2>1, <2>2, HomeKeeps
<1>3. CASE Home!Poll
  BY <1>3, FetchInv DEF Home!Poll
<1>4. CASE Home!Show
  BY <1>4, FetchInv DEF Home!Show
<1>5. ASSUME NEW b \in batch, Home!Answer(b)
      PROVE  HomeInv' /\ page' = page
  BY <1>5, HomeAnswerInv DEF Home!Answer, Home!pageVars
<1>6. ASSUME NEW b \in batch, Home!Settle(b)
      PROVE  /\ HomeInv'
             /\ page' = page \/ \A s \in Home!Signals : page'.at[s] >= page.at[s]
  BY <1>6, SettleInv
<1>7. CASE Home!MarkSeen \/ Home!MarkAllSeen
  BY <1>7, MarkInv DEF Home!MarkSeen, Home!MarkAllSeen
<1>8. CASE Home!Reload
  BY <1>8, ReloadInv
<1> QED
  BY <1>1, <1>2, <1>3, <1>4, <1>5, <1>6, <1>7, <1>8 DEF Home!Next

LEMMA HomeStutterInv ==
    ASSUME HomeInv, UNCHANGED dashboardVars
    PROVE  HomeInv'
<1>1. UNCHANGED <<answers, turns, batch, page, seen, standing>>
  BY DEF dashboardVars
<1>2. AnswersOK' /\ SeenOK' /\ turns' \in Nat /\ turns' >= turns
  BY <1>1 DEF HomeInv, AnswersOK, SeenOK
<1> QED
  BY <1>1, <1>2, HomeKeeps

LEMMA HomeInvHidesNothing ==
    ASSUME HomeInv
    PROVE  Home!NoFalseClear /\ Home!SeenStillStands
<1>1. Home!NoFalseClear
  BY PageNoFalseClear DEF HomeInv
<1>2. ASSUME NEW a \in Home!Sentinel(page), Home!Status(a) = "seen"
      PROVE  a.key \in DOMAIN standing /\ standing[a.key] = a.evidence
  <2>1. a.key \in DOMAIN seen /\ seen[a.key] = Home!Signature(a, page.freshness)
    BY <1>2 DEF Home!Status, Home!SentinelStatus
  <2>2. Home!Signature(a, page.freshness)[5] = a.evidence
    BY DEF Home!Signature
  <2> QED
    BY <2>1, <2>2 DEF HomeInv, SeenOK
<1> QED
  BY <1>1, <1>2 DEF Home!SeenStillStands

-----------------------------------------------------------------------------
(* The exceptions page                                                     *)


\* The days on the page are days.
ChoiceOK ==
    /\ day \in Days /\ date \in Days /\ url \subseteq Days
    /\ evidence \in [Days -> Nat]

IsReading(x) == x.date \in Days /\ x.print \in Nat

IsRead(r) ==
    /\ r = [date |-> r.date, number |-> r.number, got |-> r.got]
    /\ r.date \in Days /\ r.number \in 1..reading
    /\ \A x, y \in r.got : IsReading(x) /\ x = y

\* Reads are told apart by their numbers, and nothing is shown while the last one
\* is under way.
ShownOK ==
    /\ reading \in Nat
    /\ \A r \in reads : IsRead(r)
    /\ \A r, q \in reads : r.number = q.number => r = q
    /\ \A x, y \in data : IsReading(x) /\ x = y
    /\ data # {} => \A r \in reads : r.number # reading

\* A correction under way names the evidence its draft was opened on.
Sourced ==
    /\ \A s \in saving \cup late :
          s.request.source = {s.seen} /\ s.request.date \in Days
    /\ \A d \in draft : d.date \in Days

\* A review under way carries what was typed, and a note that was typed holds the
\* day.
NoteInv ==
    /\ note # {} => kept
    /\ \A r \in review :
          /\ r.date \in Days
          /\ r.typed # {} => r.note = r.typed
          /\ r.state = "ok" => \A t \in r.note : [date |-> r.date, text |-> t] \in notes
    /\ \A t \in typed : t = [date |-> t.date, text |-> t.text]
    /\ TypedIsKept

ReviewsDated == \A r \in review : r.date \in Days

ExceptionsInv == ChoiceOK /\ ShownOK /\ Sourced /\ ReviewsDated /\ AppliedAsSeen


LEMMA ExceptionsInitInv ==
    ASSUME Init
    PROVE  ExceptionsInv
<1>1. 1 \in Days
  BY ExceptionsPageAssumption
<1>2. ChoiceOK
  BY <1>1 DEF Init, ChoiceOK
<1>3. ShownOK
  BY <1>1 DEF Init, ShownOK, IsRead, IsReading
<1>4. Sourced /\ ReviewsDated /\ AppliedAsSeen
  BY DEF Init, Sourced, ReviewsDated, AppliedAsSeen
<1> QED
  BY <1>2, <1>3, <1>4 DEF ExceptionsInv

LEMMA RefreshInv ==
    ASSUME ShownOK, NEW d \in Days, Refresh(d)
    PROVE  ShownOK' /\ data' = {}
<1> DEFINE new == [date |-> d, number |-> reading + 1, got |-> {}]
<1>1. reading' = reading + 1 /\ reads' = reads \cup {new} /\ data' = {}
  BY DEF Refresh
<1>2. /\ new.date = d /\ new.number = reading + 1 /\ new.got = {}
      /\ new = [date |-> new.date, number |-> new.number, got |-> new.got]
  OBVIOUS
<1> HIDE DEF new
<1>3. \A r \in reads' : IsRead(r)'
  BY <1>1, <1>2 DEF ShownOK, IsRead
<1>4. \A r \in reads : r.number # new.number
  BY <1>2 DEF ShownOK, IsRead
<1>5. \A r, q \in reads' : r.number = q.number => r = q
  BY <1>1, <1>4 DEF ShownOK
<1> QED
  BY <1>1, <1>3, <1>5 DEF ShownOK

LEMMA ShownStays ==
    ASSUME ShownOK, UNCHANGED shown
    PROVE  ShownOK'
BY DEF shown, ShownOK, IsRead

LEMMA RefreshAfterInv ==
    ASSUME ShownOK, NEW d \in Days, RefreshAfter(d)
    PROVE  ShownOK' /\ data' \in {data, {}}
BY RefreshInv, ShownStays DEF RefreshAfter, shown

LEMMA SelectInv ==
    ASSUME ShownOK, date \in Days, NEW d \in Days, Select(d)
    PROVE  /\ ShownOK' /\ data' \in {data, {}} /\ date' = d
           /\ draft' \in {draft, {}}
           /\ \/ date' = date /\ note' = note
              \/ date' # date /\ note' = {}
BY RefreshInv, ShownStays DEF Select, shown

LEMMA ReadInv ==
    ASSUME ExceptionsInv, NEW r \in reads, Read(r)
    PROVE  ExceptionsInv' /\ data' = data
<1> DEFINE x == [date |-> r.date, print |-> evidence[r.date], note |-> saved[r.date]]
           new == [r EXCEPT !.got = {x}]
<1>1. /\ reads' = (reads \ {r}) \cup {new}
      /\ UNCHANGED <<choice, data, reading, work, portal, history>>
  BY DEF Read
<1>2. IsRead(r)
  BY DEF ExceptionsInv, ShownOK
<1>3. new.date = r.date /\ new.number = r.number /\ new.got = {x}
      /\ new = [date |-> new.date, number |-> new.number, got |-> new.got]
  BY <1>2 DEF IsRead
<1>4. IsReading(x)
  BY <1>2 DEF IsRead, IsReading, ExceptionsInv, ChoiceOK
<1> HIDE DEF new, x
<1>5. \A q \in reads' : IsRead(q)'
  BY <1>1, <1>2, <1>3, <1>4 DEF ExceptionsInv, ShownOK, IsRead
<1>6. \A q, s \in reads' : q.number = s.number => q = s
  BY <1>1, <1>3 DEF ExceptionsInv, ShownOK
<1>7. ShownOK'
  BY <1>1, <1>3, <1>5, <1>6 DEF ExceptionsInv, ShownOK
<1> QED
  BY <1>1, <1>7
     DEF ExceptionsInv, ChoiceOK, Sourced, ReviewsDated, AppliedAsSeen, choice, work,
         portal

\* Only the answer to the last read changes what is shown, and nothing is shown
\* before it.
LEMMA ArriveInv ==
    ASSUME ExceptionsInv, NEW r \in reads, Arrive(r)
    PROVE  ExceptionsInv' /\ (data' = {} \/ data = {} \/ data' = data)
<1>1. /\ reads' = reads \ {r}
      /\ \/ r.number = reading /\ data' \in {r.got, {}}
         \/ data' = data
      /\ UNCHANGED <<choice, reading, work, portal, history>>
  BY DEF Arrive, IsCurrent
<1>2. IsRead(r)
  BY DEF ExceptionsInv, ShownOK
<1>3. r.number = reading => data = {} /\ \A q \in reads' : q.number # reading
  BY <1>1 DEF ExceptionsInv, ShownOK
<1>4. ShownOK'
  BY <1>1, <1>2, <1>3 DEF ExceptionsInv, ShownOK, IsRead
<1> QED
  BY <1>1, <1>3, <1>4
     DEF ExceptionsInv, ChoiceOK, Sourced, ReviewsDated, AppliedAsSeen, choice, work,
         portal

\* The choice of a day.
LEMMA ChooseDayInv ==
    ASSUME ExceptionsInv, NEW d \in Days, Select(d), day' \in Days, url' \subseteq Days,
           UNCHANGED <<review, conflict, saving, late, acked, requests, portal>>
    PROVE  ExceptionsInv' /\ data' \in {data, {}}
BY SelectInv
   DEF ExceptionsInv, ChoiceOK, Sourced, ReviewsDated, AppliedAsSeen, portal

LEMMA FollowInv ==
    ASSUME ExceptionsInv, NEW l \in Links, Follow(l)
    PROVE  ExceptionsInv' /\ data' \in {data, {}}
<1> DEFINE d == CHOOSE d \in l \cup {day} : l # {} => d \in l
<1>1. l \subseteq Days /\ day \in Days
  BY ExceptionsPageAssumption DEF ExceptionsInv, ChoiceOK
<1>2. \E c \in l \cup {day} : l # {} => c \in l
  OBVIOUS
<1>3. d \in Days
  BY <1>1, <1>2
<1>4. /\ Select(d) /\ url' = l
      /\ UNCHANGED <<day, review, conflict, saving, late, acked, requests, portal>>
  BY DEF Follow
<1> HIDE DEF d
<1> QED
  BY <1>1, <1>3, <1>4, ChooseDayInv

\* What is done on the page leaves what it shows.
LEMMA WorkInv ==
    ASSUME ExceptionsInv, UNCHANGED <<day, url, date, shown, late, evidence, applied>>,
           ReviewsDated', Sourced'
    PROVE  ExceptionsInv' /\ data' = data
BY ShownStays DEF ExceptionsInv, ChoiceOK, AppliedAsSeen, shown


LEMMA TypingInv ==
    ASSUME ExceptionsInv, NEW t, Type(t) \/ editReason(t)
    PROVE  ExceptionsInv' /\ data' = data
<1>1. /\ UNCHANGED <<day, url, date, shown, review, saving, late, evidence, applied>>
      /\ \A d \in draft' : \E c \in draft : d = c \/ d = [c EXCEPT !.text = t]
  BY DEF Type, editReason, portal
<1>2. \A d \in draft' : d.date \in Days
  <2>1. ASSUME NEW d \in draft'
        PROVE  d.date \in Days
    <3>1. PICK c \in draft : d = c \/ d = [c EXCEPT !.text = t]
      BY <1>1
    <3>2. c.date \in Days
      BY DEF ExceptionsInv, Sourced
    <3>3. [c EXCEPT !.text = t].date = c.date
      OBVIOUS
    <3> QED
      BY <3>1, <3>2, <3>3
  <2> QED
    BY <2>1
<1>3. Sourced' /\ ReviewsDated'
  BY <1>1, <1>2 DEF ExceptionsInv, Sourced, ReviewsDated
<1> QED
  BY <1>1, <1>3, WorkInv

LEMMA updateReviewInv ==
    ASSUME ExceptionsInv, updateReview
    PROVE  ExceptionsInv' /\ data' = data
<1>1. PICK x \in data :
         review' = {[date |-> x.date, print |-> x.print, typed |-> note,
                     note |-> IF note # {} THEN note ELSE x.note, state |-> "sent"]}
  BY DEF updateReview
<1>2. x.date \in Days
  BY DEF ExceptionsInv, ShownOK, IsReading
<1>3. UNCHANGED <<day, url, date, shown, draft, saving, late, evidence, applied>>
  BY DEF updateReview, portal
<1>4. ReviewsDated'
  BY <1>1, <1>2 DEF ReviewsDated
<1>5. Sourced'
  BY <1>3 DEF ExceptionsInv, Sourced
<1> QED
  BY <1>3, <1>4, <1>5, WorkInv

LEMMA ReviewServedInv ==
    ASSUME ExceptionsInv, NEW r \in review, ReviewServed(r)
    PROVE  ExceptionsInv' /\ data' = data
<1>1. /\ UNCHANGED <<day, url, date, shown, draft, saving, late, evidence, applied>>
      /\ \E s : review' = {[r EXCEPT !.state = s]}
  BY DEF ReviewServed, choice
<1>2. PICK s : review' = {[r EXCEPT !.state = s]}
  BY <1>1
<1> DEFINE new == [r EXCEPT !.state = s]
<1>3. new.date \in Days
  BY DEF ExceptionsInv, ReviewsDated
<1>4. ReviewsDated'
  BY <1>2, <1>3 DEF ReviewsDated
<1>5. Sourced'
  BY <1>1 DEF ExceptionsInv, Sourced
<1> QED
  BY <1>1, <1>4, <1>5, WorkInv

\* An answer may have the page read again.
LEMMA RefreshedInv ==
    ASSUME ExceptionsInv, NEW d \in Days, RefreshAfter(d),
           UNCHANGED <<day, url, date, late, evidence, applied>>, ReviewsDated', Sourced'
    PROVE  ExceptionsInv' /\ data' \in {data, {}}
BY RefreshAfterInv DEF ExceptionsInv, ChoiceOK, AppliedAsSeen

LEMMA ReviewAnsweredInv ==
    ASSUME ExceptionsInv, NEW r \in review, ReviewAnswered(r)
    PROVE  ExceptionsInv' /\ data' \in {data, {}}
<1>1. /\ UNCHANGED <<day, url, date, draft, saving, late, evidence, applied>>
      /\ review' = {}
      /\ RefreshAfter(r.date) \/ UNCHANGED shown
  BY DEF ReviewAnswered, portal
<1>2. r.date \in Days
  BY DEF ExceptionsInv, ReviewsDated
<1>3. ReviewsDated' /\ Sourced'
  BY <1>1 DEF ExceptionsInv, ReviewsDated, Sourced
<1> QED
  BY <1>1, <1>2, <1>3, RefreshedInv, WorkInv

LEMMA openCorrectionInv ==
    ASSUME ExceptionsInv, openCorrection
    PROVE  ExceptionsInv' /\ data' = data
<1>1. PICK x \in data, t \in Texts :
         draft' = {[date |-> x.date, print |-> x.print, text |-> t]}
  BY DEF openCorrection
<1>2. x.date \in Days
  BY DEF ExceptionsInv, ShownOK, IsReading
<1>3. UNCHANGED <<day, url, date, shown, review, saving, late, evidence, applied>>
  BY DEF openCorrection, portal
<1>4. Sourced'
  BY <1>1, <1>2, <1>3 DEF ExceptionsInv, Sourced
<1>5. ReviewsDated'
  BY <1>3 DEF ExceptionsInv, ReviewsDated
<1> QED
  BY <1>3, <1>4, <1>5, WorkInv

LEMMA closeCorrectionInv ==
    ASSUME ExceptionsInv, closeCorrection
    PROVE  ExceptionsInv' /\ data' = data
<1>1. UNCHANGED <<day, url, date, shown, review, saving, late, evidence, applied>>
      /\ draft' = {}
  BY DEF closeCorrection, portal
<1>2. Sourced' /\ ReviewsDated'
  BY <1>1 DEF ExceptionsInv, Sourced, ReviewsDated
<1> QED
  BY <1>1, <1>2, WorkInv

\* A correction names the evidence of its draft as its source.
LEMMA submitCorrectionInv ==
    ASSUME ExceptionsInv, submitCorrection
    PROVE  ExceptionsInv' /\ data' = data
<1>1. PICK d \in draft :
         LET request == [date |-> d.date, source |-> relatedException(d), text |-> d.text]
         IN saving' = {[request |-> request, again |-> request \in acked,
                        seen |-> d.print, state |-> "sent"]}
  BY DEF submitCorrection
<1>2. UNCHANGED <<day, url, date, shown, review, draft, late, evidence, applied>>
  BY DEF submitCorrection, portal
<1>3. d.date \in Days
  BY DEF ExceptionsInv, Sourced
<1>4. \A s \in saving' : s.request.source = {s.seen} /\ s.request.date \in Days
  BY <1>1, <1>3 DEF relatedException
<1>5. Sourced' /\ ReviewsDated'
  BY <1>2, <1>4 DEF ExceptionsInv, Sourced, ReviewsDated
<1> QED
  BY <1>2, <1>5, WorkInv

\* The portal applies a correction only to the evidence it names.
LEMMA CreateInv ==
    ASSUME ExceptionsInv, NEW s \in saving \cup late, NEW answer, Create(s, answer),
           UNCHANGED <<choice, shown>>, ReviewsDated', Sourced'
    PROVE  ExceptionsInv'
<1>1. s.request.source = {s.seen} /\ s.request.date \in Days
  BY DEF ExceptionsInv, Sourced
<1>2. ChoiceOK' /\ ShownOK'
  BY <1>1, ShownStays DEF Create, choice, ExceptionsInv, ChoiceOK
<1>3. AppliedAsSeen'
  <2> DEFINE new == [request |-> s.request, again |-> s.again, seen |-> s.seen,
                     at |-> evidence[s.request.date]]
  <2>1. CASE applied' = applied
    BY <2>1 DEF ExceptionsInv, AppliedAsSeen
  <2>2. CASE /\ s.request.source \subseteq {evidence[s.request.date]}
             /\ applied' = applied \cup {new}
    <3>1. s.seen = evidence[s.request.date]
      BY <1>1, <2>2
    <3>2. new.seen = new.at
      BY <3>1
    <3> HIDE DEF new
    <3> QED
      BY <2>2, <3>2 DEF ExceptionsInv, AppliedAsSeen
  <2> QED
    BY <2>1, <2>2 DEF Create
<1> QED
  BY <1>2, <1>3 DEF ExceptionsInv

LEMMA CorrectionServedInv ==
    ASSUME ExceptionsInv, NEW s \in saving, CorrectionServed(s)
    PROVE  ExceptionsInv' /\ data' = data
<1>1. PICK answer \in {"ok", "conflict"} :
         /\ Create(s, answer)
         /\ \E state \in {answer, "failed"} : saving' = {[s EXCEPT !.state = state]}
  BY DEF CorrectionServed
<1>2. PICK state : saving' = {[s EXCEPT !.state = state]}
  BY <1>1
<1>3. UNCHANGED <<choice, shown, review, draft, late>>
  BY DEF CorrectionServed
<1> DEFINE new == [s EXCEPT !.state = state]
<1>4. new.request = s.request /\ new.seen = s.seen
  OBVIOUS
<1>5. saving' = {new}
  BY <1>2
<1> HIDE DEF new
<1>6. Sourced' /\ ReviewsDated'
  BY <1>3, <1>4, <1>5 DEF ExceptionsInv, Sourced, ReviewsDated
<1> QED
  BY <1>1, <1>3, <1>6, CreateInv DEF shown

LEMMA CorrectionDelayedInv ==
    ASSUME ExceptionsInv, NEW s \in saving, CorrectionDelayed(s)
    PROVE  ExceptionsInv' /\ data' = data
<1> DEFINE new == [s EXCEPT !.state = "failed"]
<1>1. /\ saving' = {new} /\ late' = late \cup {s}
      /\ UNCHANGED <<choice, shown, review, draft, portal>>
  BY DEF CorrectionDelayed
<1>2. new.request = s.request /\ new.seen = s.seen
  OBVIOUS
<1> HIDE DEF new
<1>3. Sourced' /\ ReviewsDated'
  BY <1>1, <1>2 DEF ExceptionsInv, Sourced, ReviewsDated
<1> QED
  BY <1>1, <1>3, ShownStays
     DEF ExceptionsInv, ChoiceOK, AppliedAsSeen, choice, shown, portal

LEMMA LateCorrectionInv ==
    ASSUME ExceptionsInv, NEW s \in late, LateCorrection(s)
    PROVE  ExceptionsInv' /\ data' = data
<1>1. PICK answer \in {"ok", "conflict"} : Create(s, answer)
  BY DEF LateCorrection
<1>2. late' = late \ {s} /\ UNCHANGED <<choice, shown, review, draft, saving>>
  BY DEF LateCorrection
<1>3. Sourced' /\ ReviewsDated'
  BY <1>2 DEF ExceptionsInv, Sourced, ReviewsDated
<1> QED
  BY <1>1, <1>2, <1>3, CreateInv DEF shown

LEMMA CorrectionAnsweredInv ==
    ASSUME ExceptionsInv, NEW s \in saving, CorrectionAnswered(s)
    PROVE  ExceptionsInv' /\ data' \in {data, {}}
<1>1. /\ UNCHANGED <<day, url, date, review, late, evidence, applied>>
      /\ saving' = {} /\ draft' \in {draft, {}}
      /\ RefreshAfter(s.request.date) \/ UNCHANGED shown
  BY DEF CorrectionAnswered, portal
<1>2. s.request.date \in Days
  BY DEF ExceptionsInv, Sourced
<1>3. ReviewsDated' /\ Sourced'
  BY <1>1 DEF ExceptionsInv, ReviewsDated, Sourced
<1> QED
  BY <1>1, <1>2, <1>3, RefreshedInv, WorkInv

LEMMA OthersInv ==
    ASSUME ExceptionsInv,
           \/ \E d \in Days : EvidenceChanges(d)
           \/ \E d \in Days, t \in Texts : OtherReview(d, t)
    PROVE  ExceptionsInv' /\ data' = data
<1>1. /\ UNCHANGED <<choice, shown, work, applied>>
      /\ evidence' \in [Days -> Nat]
  BY DEF EvidenceChanges, OtherReview, ExceptionsInv, ChoiceOK
<1> QED
  BY <1>1, ShownStays
     DEF ExceptionsInv, ChoiceOK, Sourced, ReviewsDated, AppliedAsSeen, choice, shown,
         work

LEMMA ExceptionsNextInv ==
    ASSUME ExceptionsInv, Next
    PROVE  ExceptionsInv' /\ (data' = {} \/ data = {} \/ data' = data)
<1>1. CASE Midnight
  BY <1>1, WorkInv
     DEF Midnight, portal, work, shown, history, ExceptionsInv, ChoiceOK, Sourced,
         ReviewsDated, ShownOK, IsRead, AppliedAsSeen
<1>2. CASE checkDay
  BY <1>2, ChooseDayInv DEF checkDay, ExceptionsInv, ChoiceOK
<1>3. CASE Reload
  BY <1>3, RefreshInv
     DEF Reload, choice, work, portal, ExceptionsInv, ChoiceOK, Sourced, ReviewsDated,
         AppliedAsSeen
<1>4. CASE \E r \in reads : Read(r) \/ Arrive(r)
  BY <1>4, ReadInv, ArriveInv
<1>5. CASE \E d \in Days : setDate(d)
  BY <1>5, ChooseDayInv DEF setDate, ExceptionsInv, ChoiceOK
<1>6. CASE \/ \E d \in Days : EvidenceChanges(d)
           \/ \E d \in Days, t \in Texts : OtherReview(d, t)
  BY <1>6, OthersInv
<1>7. CASE \E l \in Links : Follow(l)
  BY <1>7, FollowInv
<1>8. CASE \E t \in Texts : Type(t) \/ editReason(t)
  BY <1>8, TypingInv
<1>9. CASE updateReview \/ openCorrection \/ closeCorrection \/ submitCorrection
  BY <1>9, updateReviewInv, openCorrectionInv, closeCorrectionInv, submitCorrectionInv
<1>10. CASE \E r \in review : ReviewServed(r) \/ ReviewAnswered(r)
  BY <1>10, ReviewServedInv, ReviewAnsweredInv
<1>11. CASE \/ \E s \in saving :
                  CorrectionServed(s) \/ CorrectionDelayed(s) \/ CorrectionAnswered(s)
            \/ \E s \in late : LateCorrection(s)
  BY <1>11, CorrectionServedInv, CorrectionDelayedInv, CorrectionAnsweredInv,
     LateCorrectionInv
<1> QED
  BY <1>1, <1>2, <1>3, <1>4, <1>5, <1>6, <1>7, <1>8, <1>9, <1>10, <1>11 DEF Next

LEMMA ExceptionsStutterInv ==
    ASSUME ExceptionsInv, UNCHANGED vars
    PROVE  ExceptionsInv'
BY ShownStays
   DEF vars, choice, work, portal, ExceptionsInv, ChoiceOK, Sourced, ReviewsDated,
       AppliedAsSeen

\* A step replaces what is shown of a day only after it has shown nothing.
LEMMA ShownMovesOn ==
    ASSUME ExceptionsInv, Next
    PROVE  \A r \in data, q \in data' : r.date = q.date => r.print <= q.print
BY ExceptionsNextInv DEF ExceptionsInv, ShownOK, IsReading


-----------------------------------------------------------------------------
(* What is typed, when no link leads to the page without a day.            *)

LEMMA NoteInitInv ==
    ASSUME Init
    PROVE  NoteInv
BY DEF Init, NoteInv, TypedIsKept

\* A day is chosen, which gives up what was typed for another.
LEMMA NoteChoice ==
    ASSUME NoteInv, ExceptionsInv, NEW d \in Days, Select(d), note # {} => kept',
           typed' = IF date' = date THEN typed ELSE {},
           UNCHANGED <<review, notes>>
    PROVE  NoteInv'
<1>1. \/ date' = date /\ note' = note
      \/ date' # date /\ note' = {}
  BY SelectInv DEF ExceptionsInv, ChoiceOK
<1> QED
  BY <1>1 DEF NoteInv, TypedIsKept

LEMMA checkDayNote ==
    ASSUME NoteInv, ExceptionsInv, checkDay
    PROVE  NoteInv'
<1>1. /\ note = {} /\ Select(day) /\ date # day
      /\ UNCHANGED <<kept, review, typed, notes>>
  BY DEF checkDay, history, NoteInv
<1>2. note' = {}
  BY <1>1, SelectInv DEF ExceptionsInv, ChoiceOK
<1> QED
  BY <1>1, <1>2 DEF NoteInv, TypedIsKept

\* What is done on the page without touching the note.
LEMMA NoteStays ==
    ASSUME NoteInv, UNCHANGED <<date, note, review, typed, notes>>, kept => kept'
    PROVE  NoteInv'
BY DEF NoteInv, TypedIsKept

LEMMA TypeNote ==
    ASSUME NoteInv, NEW t, Type(t)
    PROVE  NoteInv'
<1>1. /\ note' = {t} /\ typed' = {[date |-> date, text |-> t]} /\ kept'
      /\ UNCHANGED <<date, review, notes>>
  BY DEF Type, keepDate
<1> QED
  BY <1>1 DEF NoteInv, TypedIsKept

LEMMA updateReviewNote ==
    ASSUME NoteInv, ExceptionsInv, updateReview
    PROVE  NoteInv'
<1>1. PICK x \in data :
         review' = {[date |-> x.date, print |-> x.print, typed |-> note,
                     note |-> IF note # {} THEN note ELSE x.note, state |-> "sent"]}
  BY DEF updateReview
<1>2. x.date \in Days
  BY DEF ExceptionsInv, ShownOK, IsReading
<1>3. UNCHANGED <<date, note, typed, notes>> /\ (kept => kept')
  BY DEF updateReview, keepDate, history
<1>4. \A r \in review' :
        /\ r.date \in Days /\ r.state # "ok"
        /\ r.typed # {} => r.note = r.typed
  BY <1>1, <1>2
<1> QED
  BY <1>3, <1>4 DEF NoteInv, TypedIsKept

\* A review that succeeded saved its note.
LEMMA ReviewServedNote ==
    ASSUME NoteInv, NEW r \in review, ReviewServed(r)
    PROVE  NoteInv'
<1>1. /\ UNCHANGED <<date, note, kept, typed>>
      /\ \E s : /\ review' = {[r EXCEPT !.state = s]}
                /\ s = "ok" => \A t \in r.note : [date |-> r.date, text |-> t] \in notes'
      /\ notes \subseteq notes'
  <2>1. CASE /\ notes' = notes \cup {[date |-> r.date, text |-> t] : t \in r.note}
             /\ \E s \in {"ok", "failed"} : review' = {[r EXCEPT !.state = s]}
    BY <2>1 DEF ReviewServed, choice
  <2>2. CASE /\ notes' = notes
             /\ \E s \in {"conflict", "failed"} : review' = {[r EXCEPT !.state = s]}
    BY <2>2 DEF ReviewServed, choice
  <2> QED
    BY <2>1, <2>2 DEF ReviewServed
<1>2. PICK s : /\ review' = {[r EXCEPT !.state = s]}
               /\ s = "ok" => \A t \in r.note : [date |-> r.date, text |-> t] \in notes'
  BY <1>1
<1> DEFINE new == [r EXCEPT !.state = s]
<1>3. new.date = r.date /\ new.typed = r.typed /\ new.note = r.note
  OBVIOUS
<1>4. new.state = "ok" => s = "ok" \/ r.state = "ok"
  OBVIOUS
<1>5. review' = {new}
  BY <1>2
<1> HIDE DEF new
<1>6. \A q \in review' :
        /\ q.date \in Days
        /\ q.typed # {} => q.note = q.typed
        /\ q.state = "ok" => \A t \in q.note : [date |-> q.date, text |-> t] \in notes'
  BY <1>1, <1>2, <1>3, <1>4, <1>5 DEF NoteInv
<1> QED
  BY <1>1, <1>6 DEF NoteInv, TypedIsKept

\* The note goes only if it is the one that was saved.
LEMMA ReviewAnsweredNote ==
    ASSUME NoteInv, NEW r \in review, ReviewAnswered(r)
    PROVE  NoteInv'
<1>1. /\ UNCHANGED <<date, typed, notes>> /\ review' = {} /\ (kept => kept')
      /\ \/ note' = note
         \/ r.state = "ok" /\ r.date = date /\ note = r.typed /\ note' = {}
  BY DEF ReviewAnswered, DropSent, keepDate, history
<1>2. CASE note' = note
  BY <1>1, <1>2 DEF NoteInv, TypedIsKept
<1>3. CASE r.state = "ok" /\ r.date = date /\ note = r.typed /\ note' = {}
  <2>1. ASSUME NEW t \in typed, t.date = date, note = {t.text}
        PROVE  t \in notes
    <3>1. r.note = {t.text}
      BY <1>3, <2>1 DEF NoteInv
    <3>2. [date |-> r.date, text |-> t.text] \in notes
      BY <1>3, <3>1 DEF NoteInv
    <3> QED
      BY <1>3, <2>1, <3>2 DEF NoteInv
  <2>2. TypedIsKept'
    BY <1>1, <2>1 DEF NoteInv, TypedIsKept
  <2> QED
    BY <1>1, <1>3, <2>2 DEF NoteInv
<1> QED
  BY <1>1, <1>2, <1>3

LEMMA NoteNextInv ==
    ASSUME {} \notin Links, NoteInv, ExceptionsInv, Next
    PROVE  NoteInv'
<1>1. CASE Midnight \/ Reload
  BY <1>1, NoteStays DEF Midnight, Reload, choice, work, history
<1>2. CASE checkDay
  BY <1>2, checkDayNote
<1>3. CASE \E r \in reads : Read(r) \/ Arrive(r)
  BY <1>3, NoteStays DEF Read, Arrive, choice, work, history
<1>4. CASE \E d \in Days : setDate(d)
  BY <1>4, NoteChoice DEF setDate, Select
<1>5. CASE \/ \E d \in Days : EvidenceChanges(d)
           \/ \E d \in Days, t \in Texts : OtherReview(d, t)
  BY <1>5, NoteStays DEF EvidenceChanges, OtherReview, choice, work, history
<1>6. CASE \E l \in Links : Follow(l)
  <2>1. PICK l \in Links : Follow(l)
    BY <1>6
  <2> DEFINE d == CHOOSE d \in l \cup {day} : l # {} => d \in l
  <2>2. l # {} /\ l \subseteq Days /\ day \in Days
    BY ExceptionsPageAssumption DEF ExceptionsInv, ChoiceOK
  <2>3. \E c \in l \cup {day} : l # {} => c \in l
    OBVIOUS
  <2>4. d \in Days
    BY <2>2, <2>3
  <2>5. Select(d)
    BY <2>1 DEF Follow
  <2> HIDE DEF d
  <2> QED
    BY <2>1, <2>2, <2>4, <2>5, NoteChoice DEF Follow
<1>7. CASE \E t \in Texts : Type(t)
  BY <1>7, TypeNote
<1>8. CASE \/ \E t \in Texts : editReason(t)
           \/ openCorrection \/ closeCorrection \/ submitCorrection
  BY <1>8, NoteStays
     DEF editReason, openCorrection, closeCorrection, submitCorrection, keepDate, history
<1>9. CASE updateReview
  BY <1>9, updateReviewNote
<1>10. CASE \E r \in review : ReviewServed(r) \/ ReviewAnswered(r)
  BY <1>10, ReviewServedNote, ReviewAnsweredNote
<1>11. CASE \E s \in saving : CorrectionServed(s) \/ CorrectionDelayed(s)
  BY <1>11, NoteStays DEF CorrectionServed, CorrectionDelayed, choice, history
<1>12. CASE \E s \in saving : CorrectionAnswered(s)
  BY <1>12, NoteStays DEF CorrectionAnswered, keepDate, history
<1>13. CASE \E s \in late : LateCorrection(s)
  BY <1>13, NoteStays DEF LateCorrection, choice, history
<1> QED
  BY <1>1, <1>2, <1>3, <1>4, <1>5, <1>6, <1>7, <1>8, <1>9, <1>10, <1>11, <1>12, <1>13
     DEF Next

LEMMA NoteStutterInv ==
    ASSUME NoteInv, UNCHANGED vars
    PROVE  NoteInv'
BY NoteStays DEF vars, choice, work, history

-----------------------------------------------------------------------------
(* The log                                                                 *)


Unknown == 1..posted \ known

IsCopy(c) ==
    /\ c = [request |-> c.request, number |-> c.number, visit |-> c.visit,
            state |-> c.state, awaited |-> c.awaited]
    /\ c.request.id \in 1..posted /\ c.number \in 1..dialogs /\ c.awaited \in BOOLEAN

LogTypeOK ==
    /\ posted \in Nat /\ dialogs \in Nat
    /\ \A p, q \in stored : p = q /\ p.id \in 1..posted
    /\ \A p, q \in pending : p = q /\ p.id \in 1..posted
    /\ \A p \in DOMAIN ids : ids[p] \in 1..posted
    /\ \A c \in copies : IsCopy(c)
    /\ \A k \in checks : k.number \in 1..dialogs
    /\ \A d, e \in dialog : d = e

\* The request whose outcome is not known is the one that the page and the storage
\* are locked on.
LockedOn ==
    \A i \in Unknown : (\E p \in stored : p.id = i) /\ (\E p \in pending : p.id = i)

AwaitedBy(c, d) == c.awaited /\ c.number = d.number

\* A dialog waits for one answer or one check at most.  It is free to send another
\* request only when all outcomes are known, and repeats only the one that is not.
DialogOK(d) ==
    /\ d = [number |-> d.number, frozen |-> d.frozen, phase |-> d.phase]
    /\ d.number \in 1..dialogs
    /\ \A c \in copies : AwaitedBy(c, d) =>
          /\ d.phase = "saving"
          /\ \A k \in checks : k.number # d.number
          /\ \A e \in copies : AwaitedBy(e, d) => e = c
          /\ \A i \in Unknown : i = c.request.id
    /\ \A k \in checks : k.number = d.number =>
          /\ d.phase = "saving"
          /\ \A l \in checks : l.number = d.number => l = k
          /\ \A i \in 1..posted : i \in known
    /\ d.phase = "editing" => \A i \in 1..posted : i \in known
    /\ d.phase = "uncertain" => \A r \in d.frozen :
          r.id \in 1..posted /\ \A i \in Unknown : i = r.id

LogInv == LogTypeOK /\ LockedOn /\ \A d \in dialog : DialogOK(d)


LEMMA LogInitInv ==
    ASSUME Log!Init
    PROVE  LogInv
<1>1. \A p \in DOMAIN ids : ids[p] \in 1..posted
  BY DEF Log!Init
<1> QED
  BY <1>1 DEF Log!Init, LogInv, LogTypeOK, LockedOn, Unknown

\* Nothing changes but what the other supervisor and the session do, or the page
\* closes its dialog.
LEMMA LogKeeps ==
    ASSUME LogInv, dialog' \in {dialog, {}}, copies' \subseteq copies,
           UNCHANGED <<dialogs, checks, pending, stored, ids, posted, known>>
    PROVE  LogInv'
<1>1. LogTypeOK'
  BY DEF LogInv, LogTypeOK, IsCopy
<1>2. LockedOn'
  BY DEF LogInv, LockedOn, Unknown
<1>3. \A d \in dialog' : DialogOK(d)'
  BY DEF LogInv, DialogOK, AwaitedBy, Unknown
<1> QED
  BY <1>1, <1>2, <1>3 DEF LogInv

\* A request is sent only if nothing else is unknown, and is locked on.
LEMMA SendInv ==
    ASSUME LogInv, NEW d \in dialog, NEW request, Log!send(d, request),
           request.id \in 1..(posted + 1), \A i \in Unknown : i = request.id,
           \A c \in copies : ~AwaitedBy(c, d),
           checks' \subseteq checks, \A k \in checks' : k.number # d.number,
           \A p \in DOMAIN ids' : ids'[p] \in 1..posted \/ ids'[p] = request.id,
           UNCHANGED <<dialogs, visit, known>>
    PROVE  LogInv'
<1> DEFINE copy == [request |-> request, number |-> d.number, visit |-> visit,
                    state |-> "sent", awaited |-> TRUE]
           next == [d EXCEPT !.phase = "saving"]
<1>1. /\ copies' = copies \cup {copy} /\ dialog' = {next}
      /\ posted' = IF request.id > posted THEN request.id ELSE posted
      /\ pending' = {request} /\ stored' = {request}
  BY DEF Log!send, Log!writePendingDirectCorrection
<1>2. posted \in Nat /\ DialogOK(d)
  BY DEF LogInv, LogTypeOK
<1>3. posted' \in Nat /\ posted' >= posted /\ request.id \in 1..posted'
  BY <1>1, <1>2
<1>4. 1..posted \subseteq 1..posted'
  BY <1>2, <1>3
<1>5. \A i \in Unknown' : i = request.id
  BY <1>1, <1>2 DEF Unknown
<1>6. /\ next = [number |-> d.number, frozen |-> d.frozen, phase |-> "saving"]
      /\ next.number = d.number /\ next.phase = "saving" /\ d.number \in 1..dialogs
  BY <1>2 DEF DialogOK
<1>7. /\ copy.request = request /\ copy.number = d.number /\ copy.awaited
      /\ copy.awaited \in BOOLEAN
      /\ copy = [request |-> copy.request, number |-> copy.number,
                 visit |-> copy.visit, state |-> copy.state,
                 awaited |-> copy.awaited]
  OBVIOUS
<1> HIDE DEF copy
<1>8. \A c \in copies' : IsCopy(c)'
  <2>1. ASSUME NEW c \in copies
        PROVE  IsCopy(c)'
    <3>1. IsCopy(c)
      BY DEF LogInv, LogTypeOK
    <3> QED
      BY <3>1, <1>4 DEF IsCopy
  <2>2. ASSUME NEW c, c = copy
        PROVE  IsCopy(c)'
    BY <2>2, <1>3, <1>6, <1>7 DEF IsCopy
  <2> QED
    BY <1>1, <2>1, <2>2
<1>9. LogTypeOK'
  BY <1>1, <1>3, <1>4, <1>8 DEF LogInv, LogTypeOK
<1>10. LockedOn'
  BY <1>1, <1>5 DEF LockedOn
<1>11. \A c \in copies' : AwaitedBy(c, next)' => c = copy
  BY <1>1, <1>6, <1>7 DEF AwaitedBy
<1>12. \A e \in dialog' : DialogOK(e)'
  <2>1. ASSUME NEW e \in dialog'
        PROVE  DialogOK(e)'
    <3>1. e = next
      BY <1>1
    <3>2. \A c \in copies' : AwaitedBy(c, e)' => c = copy
      BY <1>6, <1>7, <3>1, <1>1 DEF AwaitedBy
    <3>3. \A c \in copies' : AwaitedBy(c, e)' =>
             /\ \A f \in copies' : AwaitedBy(f, e)' => f = c
             /\ \A i \in Unknown' : i = c.request.id
      BY <3>2, <1>5, <1>7
    <3>4. \A k \in checks' : k.number # e.number
      BY <1>6, <3>1
    <3>5. /\ e = [number |-> e.number, frozen |-> e.frozen, phase |-> e.phase]
          /\ e.number \in 1..dialogs' /\ e.phase = "saving"
      BY <1>6, <3>1
    <3> QED
      BY <3>3, <3>4, <3>5 DEF DialogOK, AwaitedBy
  <2> QED
    BY <2>1
<1> QED
  BY <1>9, <1>10, <1>12 DEF LogInv

LEMMA openCorrectionKeeps ==
    ASSUME LogInv, Log!openCorrection
    PROVE  LogInv'
<1> DEFINE here == {p \in pending : p.payload.date = shownDate}
           next == [number |-> dialogs + 1, frozen |-> here,
                    phase |-> IF here = {} THEN "editing" ELSE "uncertain"]
<1>1. /\ dialog' = {next} /\ dialogs' = dialogs + 1
      /\ \A p \in pending : p.payload.date = shownDate
      /\ UNCHANGED <<checks, pending, stored, ids, posted, known, copies>>
  BY DEF Log!openCorrection, Log!pendingElsewhere
<1>2. dialogs \in Nat /\ posted \in Nat
  BY DEF LogInv, LogTypeOK
<1>3. /\ next.number = dialogs + 1 /\ next.frozen = here
      /\ next.phase = IF here = {} THEN "editing" ELSE "uncertain"
      /\ next = [number |-> next.number, frozen |-> next.frozen, phase |-> next.phase]
  OBVIOUS
<1>4. here = pending
  BY <1>1
<1> HIDE DEF here, next
<1>5. LogTypeOK'
  <2>1. \A c \in copies' : IsCopy(c)'
    BY <1>1, <1>2 DEF LogInv, LogTypeOK, IsCopy
  <2>2. \A k \in checks' : k.number \in 1..dialogs'
    BY <1>1, <1>2 DEF LogInv, LogTypeOK
  <2> QED
    BY <1>1, <1>2, <2>1, <2>2 DEF LogInv, LogTypeOK
<1>6. LockedOn'
  BY <1>1 DEF LogInv, LockedOn, Unknown
<1>7. \A d \in dialog' : DialogOK(d)'
  <2>1. ASSUME NEW d \in dialog'
        PROVE  DialogOK(d)'
    <3>1. d = next
      BY <1>1
    <3>2. \A c \in copies' : ~AwaitedBy(c, d)'
      BY <1>1, <1>2, <1>3, <3>1 DEF LogInv, LogTypeOK, IsCopy, AwaitedBy
    <3>3. \A k \in checks' : k.number # d.number
      BY <1>1, <1>2, <1>3, <3>1 DEF LogInv, LogTypeOK
    <3>4. here = {} => \A i \in 1..posted : i \in known
      BY <1>4 DEF LogInv, LockedOn, Unknown
    <3>5. \A r \in here : r.id \in 1..posted /\ \A i \in Unknown : i = r.id
      BY <1>4 DEF LogInv, LogTypeOK, LockedOn
    <3>6. d.number \in 1..dialogs'
      BY <1>1, <1>2, <1>3, <3>1
    <3> QED
      BY <1>1, <1>3, <3>1, <3>2, <3>3, <3>4, <3>5, <3>6
         DEF DialogOK, AwaitedBy, Unknown
  <2> QED
    BY <2>1
<1> QED
  BY <1>5, <1>6, <1>7 DEF LogInv

\* A page opened again takes its lock from the storage.
LEMMA RevisitInv ==
    ASSUME LogInv, Log!Revisit
    PROVE  LogInv'
<1>1. /\ dialog' = {} /\ pending' = stored
      /\ UNCHANGED <<dialogs, stored, ids, posted, known>>
      /\ checks' \subseteq checks
      /\ \A c \in copies' : \E e \in copies : c = e \/ c = [e EXCEPT !.awaited = FALSE]
  <2>1. CASE UNCHANGED <<checks, copies>>
    BY <2>1 DEF Log!Revisit, Log!readPendingDirectCorrection
  <2>2. CASE /\ checks' = {}
             /\ copies' = {[c EXCEPT !.awaited = FALSE] :
                             c \in {x \in copies : x.state = "sent"}}
    BY <2>2 DEF Log!Revisit, Log!readPendingDirectCorrection
  <2> QED
    BY <2>1, <2>2 DEF Log!Revisit
<1>2. \A c \in copies' : IsCopy(c)'
  <2>1. ASSUME NEW c \in copies'
        PROVE  IsCopy(c)'
    <3>1. PICK e \in copies : c = e \/ c = [e EXCEPT !.awaited = FALSE]
      BY <1>1
    <3>2. IsCopy(e)
      BY DEF LogInv, LogTypeOK
    <3> QED
      BY <1>1, <3>1, <3>2 DEF IsCopy
  <2> QED
    BY <2>1
<1>3. LogTypeOK'
  BY <1>1, <1>2 DEF LogInv, LogTypeOK
<1>4. LockedOn'
  BY <1>1 DEF LogInv, LockedOn, Unknown
<1> QED
  BY <1>1, <1>3, <1>4 DEF LogInv


\* The id of a draft is one that was posted, or the next.
LEMMA DraftFacts ==
    ASSUME LogInv, NEW payload, Log!Keep(Log!Draft(payload))
    PROVE  LET request == Log!Draft(payload)
           IN /\ request.id \in 1..(posted + 1)
              /\ \A p \in DOMAIN ids' : ids'[p] \in 1..posted \/ ids'[p] = request.id
<1> DEFINE request == Log!Draft(payload)
<1>1. /\ request.payload = payload
      /\ request.id = IF payload \in DOMAIN ids THEN ids[payload] ELSE posted + 1
  BY DEF Log!Draft, Log!correctionRequestId
<1>2. posted \in Nat /\ \A p \in DOMAIN ids : ids[p] \in 1..posted
  BY DEF LogInv, LogTypeOK
<1>3. request.id \in 1..(posted + 1)
  BY <1>1, <1>2
<1> HIDE DEF request
<1>4. ids' = [p \in DOMAIN ids \cup {payload} |->
                IF p = payload THEN request.id ELSE ids[p]]
  BY <1>1 DEF Log!Keep, request
<1>5. \A p \in DOMAIN ids' : ids'[p] \in 1..posted \/ ids'[p] = request.id
  BY <1>2, <1>4
<1> QED
  BY <1>3, <1>5 DEF request

LEMMA submitInv ==
    ASSUME LogInv, NEW d \in dialog, NEW payload, Log!submit(d, payload)
    PROVE  LogInv'
<1>1. d.phase = "editing" /\ UNCHANGED <<dialogs, visit, known>> /\ DialogOK(d)
  BY DEF Log!submit, LogInv
<1>2. /\ \A i \in 1..posted : i \in known
      /\ \A c \in copies : ~AwaitedBy(c, d)
      /\ \A k \in checks : k.number # d.number
  BY <1>1 DEF DialogOK
<1>3. CASE Log!send(d, Log!Draft(payload)) /\ Log!Keep(Log!Draft(payload))
           /\ UNCHANGED checks
  <2>1. \A i \in Unknown : i = Log!Draft(payload).id
    BY <1>2 DEF Unknown
  <2> QED
    BY <1>1, <1>2, <1>3, <2>1, DraftFacts, SendInv
<1>4. CASE /\ dialog' = {[d EXCEPT !.phase = "saving"]}
           /\ checks' = checks \cup {[number |-> d.number, payload |-> payload]}
           /\ UNCHANGED <<pending, stored, ids, posted, copies>>
  <2> DEFINE next == [d EXCEPT !.phase = "saving"]
             check == [number |-> d.number, payload |-> payload]
  <2>1. dialog' = {next} /\ checks' = checks \cup {check} /\ check.number = d.number
    BY <1>4
  <2>2. /\ next = [number |-> d.number, frozen |-> d.frozen, phase |-> "saving"]
        /\ next.number = d.number /\ next.phase = "saving" /\ d.number \in 1..dialogs
    BY <1>1 DEF DialogOK
  <2> HIDE DEF check
  <2>3. LogTypeOK'
    BY <1>1, <1>4, <2>1, <2>2 DEF LogInv, LogTypeOK, IsCopy
  <2>4. LockedOn'
    BY <1>1, <1>4 DEF LogInv, LockedOn, Unknown
  <2>5. ASSUME NEW e \in dialog'
        PROVE  DialogOK(e)'
    <3>1. e = next
      BY <2>1
    <3>2. \A c \in copies' : ~AwaitedBy(c, e)'
      BY <1>2, <1>4, <2>2, <3>1 DEF AwaitedBy
    <3>3. \A k \in checks' : k.number = e.number => k = check
      BY <1>2, <2>1, <2>2, <3>1
    <3>4. /\ e = [number |-> e.number, frozen |-> e.frozen, phase |-> e.phase]
          /\ e.number \in 1..dialogs' /\ e.phase = "saving"
      BY <1>1, <2>2, <3>1
    <3> QED
      BY <1>1, <1>2, <1>4, <3>2, <3>3, <3>4 DEF DialogOK, AwaitedBy
  <2> QED
    BY <2>3, <2>4, <2>5 DEF LogInv
<1> QED
  BY <1>3, <1>4 DEF Log!submit

LEMMA CheckedInv ==
    ASSUME LogInv, NEW k \in checks, Log!Checked(k)
    PROVE  LogInv'
<1>1. checks' = checks \ {k} /\ UNCHANGED <<dialogs, visit, known>>
  BY DEF Log!Checked
<1>2. CASE UNCHANGED <<dialog, pending, stored, ids, posted, copies>>
  <2>1. LogTypeOK'
    BY <1>1, <1>2 DEF LogInv, LogTypeOK, IsCopy
  <2>2. LockedOn'
    BY <1>1, <1>2 DEF LogInv, LockedOn, Unknown
  <2>3. \A d \in dialog' : DialogOK(d)'
    BY <1>1, <1>2 DEF LogInv, DialogOK, AwaitedBy, Unknown
  <2> QED
    BY <2>1, <2>2, <2>3 DEF LogInv
<1>3. CASE \E d \in Log!Asking(k) :
              Log!send(d, Log!Draft(k.payload)) /\ Log!Keep(Log!Draft(k.payload))
  <2>1. PICK d \in dialog :
           /\ d.number = k.number
           /\ Log!send(d, Log!Draft(k.payload)) /\ Log!Keep(Log!Draft(k.payload))
    BY <1>3 DEF Log!Asking
  <2>2. DialogOK(d)
    BY DEF LogInv
  <2>3. /\ \A i \in 1..posted : i \in known
        /\ \A c \in copies : ~AwaitedBy(c, d)
        /\ \A l \in checks' : l.number # d.number
    BY <1>1, <2>1, <2>2 DEF DialogOK
  <2>4. \A i \in Unknown : i = Log!Draft(k.payload).id
    BY <2>3 DEF Unknown
  <2> QED
    BY <1>1, <2>1, <2>3, <2>4, DraftFacts, SendInv
<1>4. CASE \E d \in Log!Asking(k) :
              /\ dialog' = {[d EXCEPT !.phase = "editing"]}
              /\ UNCHANGED <<pending, stored, ids, posted, copies>>
  <2>1. PICK d \in dialog :
           /\ d.number = k.number
           /\ dialog' = {[d EXCEPT !.phase = "editing"]}
           /\ UNCHANGED <<pending, stored, ids, posted, copies>>
    BY <1>4 DEF Log!Asking
  <2>2. DialogOK(d)
    BY DEF LogInv
  <2>3. /\ \A i \in 1..posted : i \in known
        /\ \A c \in copies : ~AwaitedBy(c, d)
        /\ \A l \in checks' : l.number # d.number
    BY <1>1, <2>1, <2>2 DEF DialogOK
  <2> DEFINE next == [d EXCEPT !.phase = "editing"]
  <2>4. /\ next = [number |-> d.number, frozen |-> d.frozen, phase |-> "editing"]
        /\ next.number = d.number /\ next.phase = "editing" /\ d.number \in 1..dialogs
    BY <2>2 DEF DialogOK
  <2>5. LogTypeOK'
    BY <1>1, <2>1 DEF LogInv, LogTypeOK, IsCopy
  <2>6. LockedOn'
    BY <1>1, <2>1 DEF LogInv, LockedOn, Unknown
  <2>7. ASSUME NEW e \in dialog'
        PROVE  DialogOK(e)'
    <3>1. e = next
      BY <2>1
    <3>2. \A c \in copies' : ~AwaitedBy(c, e)'
      BY <2>1, <2>3, <2>4, <3>1 DEF AwaitedBy
    <3>3. \A l \in checks' : l.number # e.number
      BY <2>3, <2>4, <3>1
    <3>4. /\ e = [number |-> e.number, frozen |-> e.frozen, phase |-> e.phase]
          /\ e.number \in 1..dialogs' /\ e.phase = "editing"
      BY <1>1, <2>4, <3>1
    <3> QED
      BY <1>1, <2>1, <2>3, <3>2, <3>3, <3>4 DEF DialogOK, AwaitedBy
  <2> QED
    BY <2>5, <2>6, <2>7 DEF LogInv
<1> QED
  BY <1>2, <1>3, <1>4 DEF Log!Checked

LEMMA RetryInv ==
    ASSUME LogInv, NEW d \in dialog, Log!Retry(d)
    PROVE  LogInv'
<1>1. PICK request \in d.frozen : Log!send(d, request)
  BY DEF Log!Retry
<1>2. /\ d.phase = "uncertain" /\ DialogOK(d)
      /\ UNCHANGED <<dialogs, visit, checks, ids, known>>
  BY DEF Log!Retry, LogInv
<1>3. /\ request.id \in 1..posted /\ \A i \in Unknown : i = request.id
      /\ \A c \in copies : ~AwaitedBy(c, d)
      /\ \A k \in checks : k.number # d.number
  BY <1>2 DEF DialogOK
<1>4. request.id \in 1..(posted + 1) /\ \A p \in DOMAIN ids' : ids'[p] \in 1..posted
  BY <1>2, <1>3 DEF LogInv, LogTypeOK
<1> QED
  BY <1>1, <1>2, <1>3, <1>4, SendInv

\* An answer under way belongs to the copy that asked for it.
LEMMA CopyAnswered ==
    ASSUME LogInv, NEW c \in copies, NEW e,
           e.request = c.request, e.number = c.number, e.awaited => c.awaited, IsCopy(e),
           copies' \subseteq (copies \ {c}) \cup {e},
           UNCHANGED <<dialog, dialogs, checks, pending, stored, ids, posted, known>>
    PROVE  LogInv'
<1>1. \A x \in copies' : IsCopy(x)'
  BY DEF LogInv, LogTypeOK, IsCopy
<1>2. LogTypeOK'
  BY <1>1 DEF LogInv, LogTypeOK
<1>3. LockedOn'
  BY DEF LogInv, LockedOn, Unknown
<1>4. ASSUME NEW d \in dialog
      PROVE  DialogOK(d)'
  <2>1. DialogOK(d)
    BY DEF LogInv
  <2>2. \A x, y \in copies' : AwaitedBy(x, d)' /\ AwaitedBy(y, d)' => x = y
    BY <2>1 DEF DialogOK, AwaitedBy
  <2>3. \A x \in copies' : AwaitedBy(x, d)' =>
           \E y \in copies : AwaitedBy(y, d) /\ y.request = x.request
    BY DEF AwaitedBy
  <2>4. \A x \in copies' : AwaitedBy(x, d)' =>
           /\ d.phase = "saving"
           /\ \A k \in checks' : k.number # d.number
           /\ \A i \in Unknown' : i = x.request.id
    BY <2>1, <2>3 DEF DialogOK, Unknown
  <2>5. \A k \in checks' : k.number = d.number =>
          /\ d.phase = "saving"
          /\ \A l \in checks' : l.number = d.number => l = k
          /\ \A i \in 1..posted' : i \in known'
    BY <2>1 DEF DialogOK
  <2> QED
    BY <2>1, <2>2, <2>4, <2>5 DEF DialogOK, AwaitedBy, Unknown
<1> QED
  BY <1>2, <1>3, <1>4 DEF LogInv

LEMMA POSTInv ==
    ASSUME LogInv, NEW c \in copies, Log!POST(c)
    PROVE  LogInv'
<1>1. PICK answer : copies' = (copies \ {c}) \cup
                       IF c.awaited THEN {[c EXCEPT !.state = answer]} ELSE {}
  BY DEF Log!POST
<1> DEFINE e == [c EXCEPT !.state = answer]
<1>2. copies' \subseteq (copies \ {c}) \cup {e}
  BY <1>1
<1>3. IsCopy(c)
  BY DEF LogInv, LogTypeOK
<1>4. IsCopy(e) /\ e.request = c.request /\ e.number = c.number /\ e.awaited = c.awaited
  BY <1>3 DEF IsCopy
<1> HIDE DEF e
<1> QED
  BY <1>2, <1>4, CopyAnswered DEF Log!POST, Log!pageVars


\* A dialog as it was, or the one of the copy in another phase.
Turned(e, c, phase, frozen) ==
    \E d \in dialog :
      IF d.number = c.number
      THEN e = [d EXCEPT !.phase = phase, !.frozen = frozen] ELSE e = d

\* An awaited copy is done with: its dialog is gone, may be edited again once all
\* outcomes are known, or is frozen on the request.
LEMMA AnsweredInv ==
    ASSUME LogInv, NEW c \in copies, c.awaited, NEW phase, NEW frozen,
           \/ phase = "editing" /\ c.request.id \in known'
           \/ phase = "uncertain" /\ (\A r \in frozen : r = c.request),
           \A x \in copies' : IsCopy(x) /\ (x.awaited => x \in copies /\ x # c),
           \A e \in dialog' : Turned(e, c, phase, frozen),
           known \subseteq known', pending' \subseteq pending,
           stored' \subseteq stored, LockedOn',
           \A p \in DOMAIN ids' : ids'[p] \in 1..posted,
           UNCHANGED <<dialogs, checks, posted>>
    PROVE  LogInv'
<1>1. ASSUME NEW d \in dialog
      PROVE  /\ DialogOK(d)
             /\ \A e \in dialog : e = d
             /\ \A i \in Unknown' : i \in Unknown
  BY DEF LogInv, LogTypeOK, Unknown
<1>2. \A x \in copies' : IsCopy(x)'
  BY DEF IsCopy
<1>3. LogTypeOK'
  <2>1. \A d, e \in dialog' : d = e
    BY <1>1 DEF Turned
  <2> QED
    BY <1>2, <2>1 DEF LogInv, LogTypeOK
<1>4. ASSUME NEW e \in dialog'
      PROVE  DialogOK(e)'
  <2>1. PICK d \in dialog :
           IF d.number = c.number
           THEN e = [d EXCEPT !.phase = phase, !.frozen = frozen] ELSE e = d
    BY DEF Turned
  <2>2. DialogOK(d) /\ \A i \in Unknown' : i \in Unknown
    BY <1>1
  <2>3. CASE d.number = c.number
    <3>1. /\ e = [number |-> d.number, frozen |-> frozen, phase |-> phase]
          /\ d.number \in 1..dialogs'
      BY <2>1, <2>2, <2>3 DEF DialogOK
    <3>2. /\ e = [number |-> e.number, frozen |-> e.frozen, phase |-> e.phase]
          /\ e.number = d.number /\ e.phase = phase /\ e.frozen = frozen
      BY <3>1
    <3>3. AwaitedBy(c, d)
      BY <2>3 DEF AwaitedBy
    <3>4. /\ \A x \in copies' : ~AwaitedBy(x, e)'
          /\ \A k \in checks' : k.number # e.number
      BY <2>2, <3>2, <3>3 DEF DialogOK, AwaitedBy
    <3>5. \A i \in Unknown : i = c.request.id
      BY <2>2, <3>3 DEF DialogOK
    <3>6. phase = "editing" => \A i \in 1..posted' : i \in known'
      BY <3>5 DEF Unknown
    <3>7. phase = "uncertain" => \A r \in frozen :
             r.id \in 1..posted' /\ \A i \in Unknown' : i = r.id
      BY <2>2, <3>5 DEF LogInv, LogTypeOK, IsCopy
    <3> HIDE <2>1
    <3>8. e.phase # "saving"
      BY <3>2
    <3> QED
      BY <3>1, <3>2, <3>4, <3>6, <3>7 DEF DialogOK, AwaitedBy
  <2>4. CASE d.number # c.number
    <3>1. e = d
      BY <2>1, <2>4
    <3>2. \A x \in copies' : AwaitedBy(x, d)' => x \in copies /\ AwaitedBy(x, d)
      BY DEF AwaitedBy
    <3>3. \A x \in copies' : AwaitedBy(x, d)' =>
             /\ d.phase = "saving"
             /\ \A k \in checks' : k.number # d.number
             /\ \A y \in copies' : AwaitedBy(y, d)' => y = x
             /\ \A i \in Unknown' : i = x.request.id
      BY <2>2, <3>2 DEF DialogOK
    <3>4. \A k \in checks' : k.number = d.number =>
             /\ d.phase = "saving"
             /\ \A l \in checks' : l.number = d.number => l = k
             /\ \A i \in 1..posted' : i \in known'
      BY <2>2 DEF DialogOK
    <3>5. /\ d.phase = "editing" => \A i \in 1..posted' : i \in known'
          /\ d.phase = "uncertain" => \A r \in d.frozen :
                r.id \in 1..posted' /\ \A i \in Unknown' : i = r.id
      BY <2>2 DEF DialogOK
    <3>6. /\ d = [number |-> d.number, frozen |-> d.frozen, phase |-> d.phase]
          /\ d.number \in 1..dialogs'
      BY <2>2 DEF DialogOK
    <3> QED
      BY <3>1, <3>3, <3>4, <3>5, <3>6 DEF DialogOK, AwaitedBy
  <2> QED
    BY <2>3, <2>4
<1> QED
  BY <1>3, <1>4 DEF LogInv

\* What is settled is known, and only that is unlocked.
LEMMA SettledKeepsLock ==
    ASSUME LogInv, NEW c \in copies, Log!Settled(c), UNCHANGED posted
    PROVE  /\ LockedOn'
           /\ c.request.id \in known' /\ known \subseteq known'
           /\ pending' \subseteq pending /\ stored' \subseteq stored
           /\ \A p \in DOMAIN ids' : ids'[p] \in 1..posted
<1>1. /\ known' = known \cup {c.request.id}
      /\ stored' = {p \in stored : p.id # c.request.id}
      /\ \/ pending' = {p \in pending : p.id # c.request.id}
         \/ pending' = pending
      /\ ids' = [q \in DOMAIN ids \ {c.request.payload} |-> ids[q]]
  BY DEF Log!Settled, Log!clearPending, Log!Without
<1>2. LockedOn'
  BY <1>1 DEF LogInv, LockedOn, Unknown
<1>3. \A p \in DOMAIN ids' : ids'[p] \in 1..posted
  BY <1>1 DEF LogInv, LogTypeOK
<1> QED
  BY <1>1, <1>2, <1>3

LEMMA LogAnswerInv ==
    ASSUME LogInv, NEW c \in copies, Log!Answer(c)
    PROVE  LogInv'
<1>1. c.awaited /\ copies' = copies \ {c} /\ UNCHANGED <<dialogs, checks, posted>>
  BY DEF Log!Answer
<1>2. \A x \in copies' : IsCopy(x) /\ (x.awaited => x \in copies /\ x # c)
  BY <1>1 DEF LogInv, LogTypeOK
<1>3. CASE Log!Saved(c)
  <2>1. Log!Settled(c) /\ dialog' = {d \in dialog : d.number # c.number}
    BY <1>3 DEF Log!Saved
  <2>2. PICK phase, frozen : phase = "editing"
    OBVIOUS
  <2>3. \A e \in dialog' : Turned(e, c, phase, frozen)
    BY <2>1 DEF Turned
  <2> QED
    BY <1>1, <1>2, <2>1, <2>2, <2>3, SettledKeepsLock, AnsweredInv
<1>4. CASE Log!Rejected(c)
  <2>1. Log!Settled(c)
    BY <1>4 DEF Log!Rejected
  <2>2. PICK phase : phase = "editing"
    OBVIOUS
  <2>5. PICK frozen : frozen = {}
    OBVIOUS
  <2>3. \A e \in dialog' : Turned(e, c, phase, frozen)
    BY <1>4, <2>2, <2>5 DEF Log!Rejected, Log!Phase, Turned
  <2> QED
    BY <1>1, <1>2, <2>1, <2>2, <2>3, SettledKeepsLock, AnsweredInv
<1>5. CASE Log!Refused(c)
  <2>1. UNCHANGED <<pending, stored, ids, known>>
    BY <1>5 DEF Log!Refused
  <2>2. PICK phase : phase = "uncertain"
    OBVIOUS
  <2>5. PICK frozen : frozen = {c.request}
    OBVIOUS
  <2>3. \A e \in dialog' : Turned(e, c, phase, frozen)
    BY <1>5, <2>2, <2>5 DEF Log!Refused, Log!Phase, Turned
  <2>4. LockedOn' /\ \A p \in DOMAIN ids' : ids'[p] \in 1..posted
    BY <1>1, <2>1 DEF LogInv, LogTypeOK, LockedOn, Unknown
  <2>6. \A r \in frozen : r = c.request
    BY <2>5
  <2> QED
    BY <1>1, <1>2, <2>1, <2>2, <2>3, <2>4, <2>6, AnsweredInv
<1> QED
  BY <1>3, <1>4, <1>5 DEF Log!Answer

LEMMA NoAnswerInv ==
    ASSUME LogInv, NEW c \in copies, Log!NoAnswer(c)
    PROVE  LogInv'
<1> DEFINE silent == [c EXCEPT !.awaited = FALSE]
<1>1. /\ c.awaited /\ UNCHANGED <<dialogs, checks, posted, pending, stored, ids, known>>
      /\ \A x \in copies' : x \in copies \ {c} \/ x = silent
  BY DEF Log!NoAnswer
<1>2. IsCopy(c)
  BY DEF LogInv, LogTypeOK
<1>3. IsCopy(silent) /\ ~silent.awaited
  <2>1. ASSUME NEW x, x = [c EXCEPT !.awaited = FALSE]
        PROVE  IsCopy(x) /\ ~x.awaited
    BY <1>2, <2>1 DEF IsCopy
  <2> QED
    BY <2>1
<1> HIDE DEF silent
<1>4. \A x \in copies' : IsCopy(x) /\ (x.awaited => x \in copies /\ x # c)
  BY <1>1, <1>3 DEF LogInv, LogTypeOK
<1>5. PICK phase : phase = "uncertain"
  OBVIOUS
<1>8. PICK frozen : frozen = {c.request}
  OBVIOUS
<1>6. \A e \in dialog' : Turned(e, c, phase, frozen)
  BY <1>5, <1>8 DEF Log!NoAnswer, Log!Phase, Turned
<1>7. LockedOn' /\ \A p \in DOMAIN ids' : ids'[p] \in 1..posted
  BY <1>1 DEF LogInv, LogTypeOK, LockedOn, Unknown
<1>9. \A r \in frozen : r = c.request
  BY <1>8
<1> QED
  BY <1>1, <1>4, <1>5, <1>6, <1>7, <1>9, AnsweredInv

LEMMA LogNextInv ==
    ASSUME LogInv, Log!Next
    PROVE  LogInv'
<1>1. CASE Log!openCorrection
  BY <1>1, openCorrectionKeeps
<1>2. CASE Log!close
  BY <1>2, LogKeeps DEF Log!close
<1>3. CASE Log!setDate
  BY <1>3, LogKeeps DEF Log!setDate
<1>4. CASE Log!Revisit
  BY <1>4, RevisitInv
<1>5. ASSUME NEW d \in dialog, Log!Retry(d) \/ \E p \in Log!Payloads : Log!submit(d, p)
      PROVE  LogInv'
  BY <1>5, RetryInv, submitInv
<1>6. ASSUME NEW k \in checks, Log!Checked(k)
      PROVE  LogInv'
  BY <1>6, CheckedInv
<1>7. ASSUME NEW c \in copies,
             Log!POST(c) \/ Log!Answer(c) \/ Log!NoAnswer(c) \/ Log!Lost(c)
      PROVE  LogInv'
  <2>1. CASE Log!Lost(c)
    BY <2>1, LogKeeps DEF Log!Lost, Log!pageVars
  <2> QED
    BY <1>7, <2>1, POSTInv, LogAnswerInv, NoAnswerInv
<1>8. CASE (\E d \in Dates : Log!OtherSupervisor(d)) \/ Log!SessionEnds \/ Log!SignIn
  BY <1>8, LogKeeps DEF Log!OtherSupervisor, Log!SessionEnds, Log!SignIn, Log!pageVars
<1> QED
  BY <1>1, <1>2, <1>3, <1>4, <1>5, <1>6, <1>7, <1>8 DEF Log!Next

LEMMA LogStutterInv ==
    ASSUME LogInv, UNCHANGED logVars
    PROVE  LogInv'
BY LogKeeps DEF logVars

LEMMA LogInvOneUnconfirmed ==
    ASSUME LogInv
    PROVE  Log!OneUnconfirmed
BY DEF LogInv, LogTypeOK, LockedOn, Unknown, Log!OneUnconfirmed

-----------------------------------------------------------------------------
(* The enrollment page                                                     *)


Persons == Enroll!People \cup {Nobody}
Targets == [who : Persons, row : BOOLEAN, url : BOOLEAN]
Consents == [of : Persons, saw : Nat, at : Int, number : Nat]
Photographed == Seq(Persons)
Submissions ==
    [number : Nat, to : Persons, row : BOOLEAN, edited : BOOLEAN, expected : Nat,
     photos : Photographed, consent : Consents, age : Int, since : Int,
     stage : {"sent", "encoding", "saved"}]

EnrollTypeOK ==
    /\ hour \in Nat /\ edits \in Nat /\ consents \in Nat
    /\ identity \in [Enroll!People -> Nat] /\ DOMAIN faces = Enroll!People
    /\ allowed \in BOOLEAN /\ loading \in BOOLEAN
    /\ target \in Targets
    /\ revision \in [of : Persons, version : Nat]
    /\ consent \in Consents
    /\ photos \in Photographed
    /\ submissions \subseteq Submissions

\* What the screen shows goes with the person on it: a consent is the one confirmed
\* last, of that person, for the identity that was read; the photos are of that
\* person; and a request is awaited only while nothing can come between.
OnScreen ==
    /\ ~allowed => step \in {"name", "error"}
    /\ target.row \/ target.url => target.who # Nobody
    /\ "current" \in opening =>
          step \in {"name", "error"} /\ consent = Enroll!NoConsent
    /\ loading => target.row /\ revision = Enroll!Unread
    /\ step \in {"processing", "done"} => ~loading /\ consent # Enroll!NoConsent
    /\ submitted # 0 => step = "processing" /\ submitted = consents
    /\ consent # Enroll!NoConsent => consents # 0 /\ consent.number = consents
    /\ consent # Enroll!NoConsent
          /\ step \in {"camera", "capturing", "processing", "done"} =>
          consent.of = target.who
    /\ consent.saw # 0 => target.row /\ consent.saw = revision.version
    /\ step = "capturing" =>
          /\ consent # Enroll!NoConsent
          /\ Len(photos) < Required
          /\ \A i \in 1..Len(photos) : photos[i] = target.who

\* A request carries a consent of its person, its own photos and the identity that
\* the consent was given for, and is as old as the consent.
Requested(r) ==
    /\ r.number \in 1..consents
    /\ consent # Enroll!NoConsent /\ r.number = consents => r.consent = consent
    /\ r.photos = [i \in 1..Required |-> r.to]
    /\ r.consent.of = r.to
    /\ r.row /\ r.consent.saw # 0 => r.expected = r.consent.saw
    /\ r.stage = "sent" => r.age = hour - r.consent.at
    /\ r.stage = "encoding" => r.since = r.consent.at /\ r.to \in Enroll!People
    /\ r.stage = "saved" => \E e \in enrolled : e.consent = r.consent

SavedAsAgreed ==
    /\ Enroll!FaceOfConsented
    /\ Enroll!EnrolledAsSeen
    /\ step = "done" => \E e \in enrolled : e.consent = consent

EnrollInv ==
    EnrollTypeOK /\ OnScreen /\ (\A r \in submissions : Requested(r)) /\ SavedAsAgreed


LEMMA EnrollConstants ==
    /\ Enroll!NoConsent \in Consents /\ Enroll!NoConsent.saw = 0
    /\ Enroll!NoConsent.number = 0
    /\ Enroll!NoTarget \in Targets /\ ~Enroll!NoTarget.row /\ ~Enroll!NoTarget.url
    /\ Enroll!Unread \in [of : Persons, version : Nat]
    /\ Enroll!Unread.of = Nobody /\ Enroll!Unread.version = 0
BY DEF Enroll!NoConsent, Enroll!NoTarget, Enroll!Unread, Consents, Targets, Persons

LEMMA EnrollInitInv ==
    ASSUME Enroll!Init
    PROVE  EnrollInv
<1>1. EnrollTypeOK
  <2>1. identity \in [Enroll!People -> Nat]
    BY DEF Enroll!Init
  <2>2. photos \in Photographed
    BY DEF Enroll!Init, Photographed
  <2> QED
    BY <2>1, <2>2, EnrollConstants DEF Enroll!Init, EnrollTypeOK
<1>2. OnScreen
  BY EnrollConstants DEF Enroll!Init, OnScreen
<1>3. (\A r \in submissions : Requested(r)) /\ SavedAsAgreed
  BY DEF Enroll!Init, SavedAsAgreed, Enroll!FaceOfConsented, Enroll!EnrolledAsSeen
<1> QED
  BY <1>1, <1>2, <1>3 DEF EnrollInv

\* What is at the portal stands as long as the screen keeps its consent, drops it
\* or asks for another.
LEMMA ScreenLeavesServer ==
    ASSUME EnrollInv, UNCHANGED Enroll!server, hour' = hour, consents' \in Nat,
           \/ consent' = consent /\ consents' = consents
           \/ consent' = Enroll!NoConsent /\ consents' = consents
           \/ consents' = consents + 1,
           step' = "done" => step = "done" /\ consent' = consent
    PROVE  (\A r \in submissions : Requested(r))' /\ SavedAsAgreed'
<1>1. UNCHANGED <<submissions, enrolled, faces>>
  BY DEF Enroll!server
<1>2. ASSUME NEW r \in submissions
      PROVE  Requested(r)'
  <2>1. Requested(r) /\ r \in Submissions /\ consents \in Nat
    BY DEF EnrollInv, EnrollTypeOK
  <2> QED
    BY <2>1, <1>1 DEF Requested, Submissions
<1>3. SavedAsAgreed'
  BY <1>1
     DEF EnrollInv, SavedAsAgreed, Enroll!FaceOfConsented, Enroll!EnrolledAsSeen
<1> QED
  BY <1>1, <1>2, <1>3

\* Another person, or the same one again, is looked up.
LEMMA ChooseInv ==
    ASSUME EnrollInv, NEW t \in Targets, Enroll!Choose(t),
           t.row \/ t.url => t.who # Nobody,
           UNCHANGED <<hour, Enroll!server>>, allowed' \in BOOLEAN,
           photos' \in Photographed,
           step' \in {"name", "error"}, submitted' = 0
    PROVE  EnrollInv'
<1>1. EnrollTypeOK'
  BY EnrollConstants
     DEF EnrollInv, EnrollTypeOK, Enroll!Choose, Enroll!server, Targets
<1>2. OnScreen'
  BY EnrollConstants DEF EnrollInv, EnrollTypeOK, OnScreen, Enroll!Choose, Targets
<1>3. (\A r \in submissions : Requested(r))' /\ SavedAsAgreed'
  BY ScreenLeavesServer DEF Enroll!Choose, EnrollInv, EnrollTypeOK
<1> QED
  BY <1>1, <1>2, <1>3 DEF EnrollInv

\* A screen that awaits no answer awaits nothing.
LEMMA NothingAwaited ==
    ASSUME EnrollInv, step # "processing"
    PROVE  submitted = 0
BY DEF EnrollInv, OnScreen

LEMMA selectEmployeeInv ==
    ASSUME EnrollInv, NEW p \in Enroll!People, Enroll!selectEmployee(p)
    PROVE  EnrollInv'
<1>1. PICK row \in BOOLEAN : Enroll!Choose([who |-> p, row |-> row, url |-> FALSE])
  BY DEF Enroll!selectEmployee
<1>2. /\ step = "name"
      /\ UNCHANGED <<hour, Enroll!server, allowed, step, Enroll!camera, submitted>>
  BY DEF Enroll!selectEmployee
<1> DEFINE t == [who |-> p, row |-> row, url |-> FALSE]
<1>3. t \in Targets /\ t.who = p
  BY DEF Targets, Persons
<1>4. p # Nobody
  BY EnrollAssumption DEF Enroll!EnrollPageAssumption, Enroll!People
<1>5. Enroll!Choose(t)
  BY <1>1
<1> HIDE DEF t
<1> QED
  BY <1>2, <1>3, <1>4, <1>5, ChooseInv, NothingAwaited
     DEF Enroll!camera, EnrollInv, EnrollTypeOK

LEMMA UnselectInv ==
    ASSUME EnrollInv, Enroll!Unselect
    PROVE  EnrollInv'
<1>1. /\ step = "name" /\ target' = Enroll!NoTarget /\ ~loading' /\ loading' \in BOOLEAN
      /\ revision' = IF target.row THEN Enroll!Unread ELSE revision
      /\ consent' = IF target.row THEN Enroll!NoConsent ELSE consent
      /\ UNCHANGED <<hour, Enroll!server, allowed, step, consents, Enroll!camera,
                     submitted>>
  BY DEF Enroll!Unselect
<1>2. EnrollTypeOK'
  BY <1>1, EnrollConstants DEF EnrollInv, EnrollTypeOK, Enroll!server, Enroll!camera
<1>3. OnScreen'
  BY <1>1, EnrollConstants DEF EnrollInv, EnrollTypeOK, OnScreen, Enroll!camera, Consents
<1>4. (\A r \in submissions : Requested(r))' /\ SavedAsAgreed'
  BY <1>1, ScreenLeavesServer DEF EnrollInv, EnrollTypeOK
<1> QED
  BY <1>2, <1>3, <1>4 DEF EnrollInv

LEMMA loadWorkerInv ==
    ASSUME EnrollInv, Enroll!loadWorker
    PROVE  EnrollInv'
<1>1. /\ loading /\ ~loading' /\ loading' \in BOOLEAN
      /\ \/ /\ revision' = [of |-> target.who, version |-> identity[target.who]]
            /\ step' = step
         \/ step' = "error" /\ revision' = revision
      /\ UNCHANGED <<hour, Enroll!server, allowed, target, Enroll!agreed,
                     Enroll!camera, submitted>>
  BY DEF Enroll!loadWorker
<1>2. /\ target \in Targets /\ target.row /\ target.who \in Enroll!People
      /\ identity[target.who] \in Nat
  BY <1>1 DEF EnrollInv, EnrollTypeOK, OnScreen, Targets, Persons
<1>3. consent.saw = 0 /\ step \notin {"processing", "done"}
  BY <1>1, EnrollConstants DEF EnrollInv, OnScreen
<1>4. EnrollTypeOK'
  BY <1>1, <1>2
     DEF EnrollInv, EnrollTypeOK, Enroll!server, Enroll!agreed, Enroll!camera, Persons
<1>5. OnScreen'
  BY <1>1, <1>2, <1>3
     DEF EnrollInv, EnrollTypeOK, OnScreen, Enroll!agreed, Enroll!camera
<1>6. (\A r \in submissions : Requested(r))' /\ SavedAsAgreed'
  BY <1>1, <1>3, ScreenLeavesServer DEF EnrollInv, EnrollTypeOK, Enroll!agreed
<1> QED
  BY <1>4, <1>5, <1>6 DEF EnrollInv


\* A step of the screen that keeps the person and what was read of them.
LEMMA CameraStepInv ==
    ASSUME EnrollInv,
           UNCHANGED <<hour, Enroll!server, allowed, Enroll!person, consents, submitted>>,
           submitted = 0,
           consent' \in {consent, Enroll!NoConsent}, photos' \in Photographed,
           step' \in {"name", "error", "camera", "capturing"},
           step' \in {"camera", "capturing"} => allowed,
           "current" \in opening' =>
              step' \in {"name", "error"} /\ consent' = Enroll!NoConsent,
           step' \in {"camera", "capturing"} => consent'.of = target.who
                                                \/ consent' = Enroll!NoConsent,
           step' = "capturing" =>
              /\ consent' # Enroll!NoConsent
              /\ Len(photos') < Required
              /\ \A i \in 1..Len(photos') : photos'[i] = target.who
    PROVE  EnrollInv'
<1>1. EnrollTypeOK'
  BY EnrollConstants DEF EnrollInv, EnrollTypeOK, Enroll!server, Enroll!person
<1>2. OnScreen'
  BY EnrollConstants
     DEF EnrollInv, EnrollTypeOK, OnScreen, Enroll!server, Enroll!person
<1>3. (\A r \in submissions : Requested(r))' /\ SavedAsAgreed'
  BY ScreenLeavesServer DEF EnrollInv, EnrollTypeOK
<1> QED
  BY <1>1, <1>2, <1>3 DEF EnrollInv

LEMMA startCameraInv ==
    ASSUME EnrollInv, Enroll!startCamera
    PROVE  EnrollInv'
BY CameraStepInv, NothingAwaited
   DEF Enroll!startCamera, EnrollInv, EnrollTypeOK

LEMMA CameraGrantedInv ==
    ASSUME EnrollInv, NEW o \in opening, Enroll!CameraGranted(o)
    PROVE  EnrollInv'
<1>1. /\ opening' = opening \ {o}
      /\ UNCHANGED <<hour, Enroll!server, allowed, Enroll!person, Enroll!agreed,
                     photos, submitted>>
  BY DEF Enroll!CameraGranted
<1>2. CASE o = "current" /\ allowed
  BY <1>1, <1>2, CameraStepInv, NothingAwaited
     DEF Enroll!CameraGranted, EnrollInv, EnrollTypeOK, OnScreen, Enroll!agreed
<1>3. CASE ~(o = "current" /\ allowed)
  <2>1. step' = step
    BY <1>3 DEF Enroll!CameraGranted
  <2>2. EnrollTypeOK'
    BY <1>1 DEF EnrollInv, EnrollTypeOK, Enroll!server, Enroll!person, Enroll!agreed
  <2>3. OnScreen'
    BY <1>1, <2>1 DEF EnrollInv, OnScreen, Enroll!person, Enroll!agreed
  <2>4. (\A r \in submissions : Requested(r))' /\ SavedAsAgreed'
    BY <1>1, <2>1, ScreenLeavesServer DEF Enroll!agreed, EnrollInv, EnrollTypeOK
  <2> QED
    BY <2>2, <2>3, <2>4 DEF EnrollInv
<1> QED
  BY <1>2, <1>3

LEMMA CameraDeniedInv ==
    ASSUME EnrollInv, Enroll!CameraDenied
    PROVE  EnrollInv'
BY CameraStepInv, NothingAwaited
   DEF Enroll!CameraDenied, EnrollInv, EnrollTypeOK, OnScreen, Enroll!agreed

LEMMA RetiredIsOver == "current" \notin Enroll!Retired
BY DEF Enroll!Retired

LEMMA BackInv ==
    ASSUME EnrollInv, Enroll!Back
    PROVE  EnrollInv'
BY CameraStepInv, NothingAwaited, RetiredIsOver
   DEF Enroll!Back, Enroll!stopCamera, EnrollInv, EnrollTypeOK, Enroll!agreed

LEMMA CaptureFailsInv ==
    ASSUME EnrollInv, Enroll!CaptureFails
    PROVE  EnrollInv'
BY CameraStepInv, NothingAwaited, RetiredIsOver
   DEF Enroll!CaptureFails, Enroll!stopCamera, EnrollInv, EnrollTypeOK, Enroll!agreed

LEMMA ConfirmConsentInv ==
    ASSUME EnrollInv, Enroll!ConfirmConsent
    PROVE  EnrollInv'
<1>1. /\ step = "camera" /\ submitted = 0
      /\ UNCHANGED <<hour, Enroll!server, allowed, step, Enroll!person, Enroll!camera,
                     submitted>>
  BY NothingAwaited DEF Enroll!ConfirmConsent
<1>2. CASE consent # Enroll!NoConsent
  BY <1>1, <1>2, CameraStepInv
     DEF Enroll!ConfirmConsent, EnrollInv, EnrollTypeOK, OnScreen, Enroll!camera
<1>3. CASE consent = Enroll!NoConsent
  <2> DEFINE new == [of |-> target.who, at |-> hour, number |-> consents + 1,
                     saw |-> IF target.row THEN revision.version ELSE 0]
  <2>1. consents' = consents + 1 /\ consent' = new
    BY <1>3 DEF Enroll!ConfirmConsent
  <2>2. /\ new \in Consents /\ new.of = target.who /\ new.number = consents + 1
        /\ new.saw # 0 => target.row /\ new.saw = revision.version
    BY DEF EnrollInv, EnrollTypeOK, Consents, Targets
  <2> HIDE DEF new
  <2>3. new # Enroll!NoConsent
    BY <2>2, EnrollConstants DEF EnrollInv, EnrollTypeOK
  <2>4. EnrollTypeOK'
    BY <1>1, <2>1, <2>2
       DEF EnrollInv, EnrollTypeOK, Enroll!server, Enroll!person, Enroll!camera
  <2>5. OnScreen'
    BY <1>1, <2>1, <2>2, <2>3
       DEF EnrollInv, EnrollTypeOK, OnScreen, Enroll!person, Enroll!camera
  <2>6. (\A r \in submissions : Requested(r))' /\ SavedAsAgreed'
    BY <1>1, <2>1, ScreenLeavesServer DEF EnrollInv, EnrollTypeOK
  <2> QED
    BY <2>4, <2>5, <2>6 DEF EnrollInv
<1> QED
  BY <1>2, <1>3

LEMMA startCapturingInv ==
    ASSUME EnrollInv, Enroll!startCapturing
    PROVE  EnrollInv'
<1>1. /\ step = "camera" /\ submitted = 0 /\ allowed /\ consent # Enroll!NoConsent
      /\ UNCHANGED <<hour, Enroll!server, allowed, Enroll!person, consents, submitted>>
      /\ consent.of = target.who /\ "current" \notin opening
  BY NothingAwaited DEF Enroll!startCapturing, EnrollInv, OnScreen
<1>2. CASE Enroll!ConsentHolds
  <2>1. step' = "capturing" /\ photos' = <<>> /\ UNCHANGED <<consent, opening, stream>>
    BY <1>2 DEF Enroll!startCapturing
  <2>2. photos' \in Photographed /\ Len(photos') = 0 /\ Required > 0
    BY <2>1, EnrollAssumption DEF Photographed, Enroll!EnrollPageAssumption
  <2>3. Len(photos') < Required /\ \A i \in 1..Len(photos') : photos'[i] = target.who
    BY <2>2, EnrollAssumption DEF Enroll!EnrollPageAssumption
  <2> QED
    BY <1>1, <2>1, <2>2, <2>3, CameraStepInv
<1>3. CASE ~Enroll!ConsentHolds
  BY <1>1, <1>3, CameraStepInv, RetiredIsOver
     DEF Enroll!startCapturing, Enroll!stopCamera, EnrollInv, EnrollTypeOK
<1> QED
  BY <1>2, <1>3


\* The last photo is taken: the request, or an error.
LEMMA submitEnrollmentInv ==
    ASSUME EnrollInv, Enroll!doCapture, Len(photos) + 1 = Required
    PROVE  EnrollInv'
<1> DEFINE captured == Append(photos, target.who)
<1>1. /\ step = "capturing" /\ allowed /\ submitted = 0 /\ consent # Enroll!NoConsent
      /\ consent.of = target.who /\ consents # 0 /\ consent.number = consents
      /\ UNCHANGED <<hour, identity, faces, edits, enrolled, allowed, Enroll!person,
                     consents>>
  BY NothingAwaited DEF Enroll!doCapture, EnrollInv, OnScreen
<1>2. /\ captured \in Photographed /\ Len(captured) = Required
      /\ captured = [i \in 1..Required |-> target.who]
  <2>1. photos \in Seq(Persons) /\ target.who \in Persons
    BY DEF EnrollInv, EnrollTypeOK, Photographed, Targets
  <2>2. \A i \in 1..Len(photos) : photos[i] = target.who
    BY <1>1 DEF EnrollInv, OnScreen
  <2>3. captured \in Seq(Persons) /\ Len(captured) = Required
    BY <2>1
  <2>4. \A i \in 1..Required : captured[i] = target.who
    BY <2>1, <2>2
  <2>5. DOMAIN captured = 1..Required
    BY <2>3
  <2> QED
    BY <2>3, <2>4, <2>5 DEF Photographed
<1>3. photos' = captured /\ Enroll!stopCamera /\ Enroll!submitEnrollment(captured)
  BY <1>2 DEF Enroll!doCapture
<1>4. "current" \notin opening'
  BY <1>3, RetiredIsOver DEF Enroll!stopCamera
<1> HIDE DEF captured
<1>5. CASE Enroll!IdentityRead /\ Enroll!ConsentHolds
  <2>1. PICK edited \in Enroll!Edits :
           submissions' = submissions \cup
               {[number |-> consents, to |-> target.who, row |-> target.row,
                 edited |-> edited, expected |-> revision.version,
                 photos |-> captured, consent |-> consent,
                 age |-> hour - consent.at, since |-> 0, stage |-> "sent"]}
    BY <1>3, <1>5 DEF Enroll!submitEnrollment
  <2> DEFINE new == [number |-> consents, to |-> target.who, row |-> target.row,
                     edited |-> edited, expected |-> revision.version,
                     photos |-> captured, consent |-> consent,
                     age |-> hour - consent.at, since |-> 0, stage |-> "sent"]
  <2>2. submitted' = consents /\ step' = "processing" /\ consent' = consent
    BY <1>3, <1>5 DEF Enroll!submitEnrollment
  <2>3. ~loading
    BY <1>5, EnrollConstants DEF Enroll!IdentityRead, EnrollInv, OnScreen
  <2>4. edited \in BOOLEAN
    BY DEF Enroll!Edits
  <2>5. new \in Submissions
    BY <1>2, <2>4
       DEF EnrollInv, EnrollTypeOK, Submissions, Targets, Consents
  <2>6. /\ new.number = consents /\ new.to = target.who /\ new.row = target.row
        /\ new.expected = revision.version /\ new.photos = captured
        /\ new.consent = consent /\ new.age = hour - consent.at /\ new.stage = "sent"
    OBVIOUS
  <2>7. submissions' = submissions \cup {new}
    BY <2>1
  <2> HIDE DEF new
  <2>8. EnrollTypeOK'
    BY <1>1, <1>2, <1>3, <2>2, <2>5, <2>7 DEF EnrollInv, EnrollTypeOK, Enroll!person
  <2>9. OnScreen'
    BY <1>1, <1>4, <2>2, <2>3 DEF EnrollInv, OnScreen, Enroll!person
  <2>10. ASSUME NEW r \in submissions'
         PROVE  Requested(r)'
    <3>1. CASE r \in submissions
      <4>1. Requested(r)
        BY <3>1 DEF EnrollInv
      <4> QED
        BY <4>1, <1>1, <2>2 DEF Requested
    <3>2. CASE r = new
      <4>1. /\ consents \in 1..consents
            /\ consent.saw # 0 => revision.version = consent.saw
        BY <1>1 DEF EnrollInv, EnrollTypeOK, OnScreen
      <4> QED
        BY <3>2, <4>1, <1>1, <1>2, <2>2, <2>6 DEF Requested
    <3> QED
      BY <2>7, <3>1, <3>2
  <2>11. SavedAsAgreed'
    BY <1>1, <2>2
       DEF EnrollInv, SavedAsAgreed, Enroll!FaceOfConsented, Enroll!EnrolledAsSeen
  <2> QED
    BY <2>8, <2>9, <2>10, <2>11 DEF EnrollInv
<1>6. CASE ~(Enroll!IdentityRead /\ Enroll!ConsentHolds)
  BY <1>1, <1>2, <1>3, <1>4, <1>6, CameraStepInv
     DEF Enroll!submitEnrollment, Enroll!server
<1> QED
  BY <1>5, <1>6

LEMMA doCaptureInv ==
    ASSUME EnrollInv, Enroll!doCapture
    PROVE  EnrollInv'
<1>1. CASE Len(photos) + 1 = Required
  BY <1>1, submitEnrollmentInv
<1>2. CASE Len(photos) + 1 # Required
  <2> DEFINE captured == Append(photos, target.who)
  <2>1. photos \in Seq(Persons) /\ target.who \in Persons
    BY DEF EnrollInv, EnrollTypeOK, Photographed, Targets
  <2>2. captured \in Photographed /\ Len(captured) = Len(photos) + 1
    BY <2>1 DEF Photographed
  <2>3. /\ step = "capturing" /\ allowed /\ submitted = 0
        /\ consent # Enroll!NoConsent /\ consent.of = target.who
        /\ "current" \notin opening /\ photos' = captured
        /\ UNCHANGED <<hour, Enroll!server, allowed, Enroll!person, consents, step,
                       consent, opening, submitted>>
    BY <1>2, <2>2, NothingAwaited DEF Enroll!doCapture, Enroll!server, EnrollInv, OnScreen
  <2>4. \A i \in 1..Len(photos) : photos[i] = target.who
    BY <2>3 DEF EnrollInv, OnScreen
  <2>5. \A i \in 1..Len(captured) : captured[i] = target.who
    BY <2>1, <2>4
  <2>6. Len(photos) < Required /\ Required \in Nat /\ Len(photos) \in Nat
    BY <2>1, <2>3, EnrollAssumption DEF EnrollInv, OnScreen, Enroll!EnrollPageAssumption
  <2>7. Len(captured) < Required
    BY <1>2, <2>2, <2>6
  <2> HIDE DEF captured
  <2> QED
    BY <2>2, <2>3, <2>5, <2>7, CameraStepInv
<1> QED
  BY <1>1, <1>2

LEMMA AcceptInv ==
    ASSUME EnrollInv, NEW r \in submissions, Enroll!Accept(r)
    PROVE  EnrollInv'
<1> DEFINE new == [r EXCEPT !.stage = "encoding", !.since = Enroll!ConsentTime(r)]
<1>1. /\ r.stage = "sent" /\ r.to # Nobody
      /\ submissions' = (submissions \ {r}) \cup {new}
      /\ UNCHANGED <<hour, identity, faces, edits, enrolled, allowed, step,
                     Enroll!person, Enroll!agreed, Enroll!camera, submitted>>
  BY DEF Enroll!Accept
<1>2. r \in Submissions /\ Requested(r) /\ hour \in Nat
  BY DEF EnrollInv, EnrollTypeOK
<1>3. /\ new \in Submissions /\ new.stage = "encoding" /\ new.since = hour - r.age
      /\ new.number = r.number /\ new.to = r.to /\ new.row = r.row
      /\ new.expected = r.expected /\ new.photos = r.photos /\ new.consent = r.consent
  <2>1. Enroll!ConsentTime(r) = hour - r.age /\ r.age \in Int /\ r \in Submissions
    BY <1>2 DEF Submissions, Enroll!ConsentTime
  <2>2. Enroll!ConsentTime(r) \in Int
    BY <2>1, <1>2
  <2> QED
    BY <2>1, <2>2 DEF Submissions
<1> HIDE DEF new
<1>4. r.age = hour - r.consent.at /\ r.consent.at \in Int /\ r.to \in Enroll!People
  BY <1>1, <1>2 DEF Requested, Submissions, Consents, Persons
<1>5. EnrollTypeOK'
  BY <1>1, <1>3
     DEF EnrollInv, EnrollTypeOK, Enroll!person, Enroll!agreed, Enroll!camera
<1>6. OnScreen'
  BY <1>1 DEF EnrollInv, OnScreen, Enroll!person, Enroll!agreed, Enroll!camera
<1>7. ASSUME NEW q \in submissions'
      PROVE  Requested(q)'
  <2>1. CASE q \in submissions
    <3>1. Requested(q)
      BY <2>1 DEF EnrollInv
    <3> QED
      BY <3>1, <1>1 DEF Requested, Enroll!agreed
  <2>2. CASE q = new
    <3>1. new.since = r.consent.at
      BY <1>2, <1>3, <1>4
    <3> QED
      BY <2>2, <3>1, <1>1, <1>2, <1>3, <1>4 DEF Requested, Enroll!agreed
  <2> QED
    BY <1>1, <2>1, <2>2
<1>8. SavedAsAgreed'
  BY <1>1
     DEF EnrollInv, SavedAsAgreed, Enroll!FaceOfConsented, Enroll!EnrolledAsSeen,
         Enroll!agreed
<1> QED
  BY <1>5, <1>6, <1>7, <1>8 DEF EnrollInv


LEMMA SaveInv ==
    ASSUME EnrollInv, NEW r \in submissions, Enroll!Save(r)
    PROVE  EnrollInv'
<1> DEFINE new == [r EXCEPT !.stage = "saved"]
           save == [consent |-> r.consent, row |-> r.row, met |-> identity[r.to]]
           face == [photos |-> r.photos, consent |-> r.consent, at |-> hour]
<1>1. /\ r.stage = "encoding"
      /\ hour - r.since <= ConsentLife
      /\ r.row => identity[r.to] = r.expected
      /\ faces' = [faces EXCEPT ![r.to] = face]
      /\ enrolled' = enrolled \cup {save}
      /\ submissions' = (submissions \ {r}) \cup {new}
      /\ UNCHANGED <<hour, allowed, step, Enroll!person, Enroll!agreed, Enroll!camera,
                     submitted>>
  BY DEF Enroll!Save, Enroll!isRecentBiometricConsentAge, Enroll!IdentityStands
<1>2. r \in Submissions /\ Requested(r) /\ hour \in Nat /\ edits \in Nat
  BY DEF EnrollInv, EnrollTypeOK
<1>3. /\ new \in Submissions /\ new.stage = "saved"
      /\ new.number = r.number /\ new.to = r.to /\ new.row = r.row
      /\ new.expected = r.expected /\ new.photos = r.photos /\ new.consent = r.consent
  BY <1>2 DEF Submissions
<1>4. /\ save.consent = r.consent /\ save.row = r.row /\ save.met = identity[r.to]
      /\ face.photos = r.photos /\ face.consent = r.consent /\ face.at = hour
  OBVIOUS
<1>5. identity' \in [Enroll!People -> Nat] /\ edits' \in Nat
  BY <1>2 DEF Enroll!Save, EnrollInv, EnrollTypeOK
<1>6. /\ r.to \in Enroll!People /\ r.since = r.consent.at
      /\ r.photos = [i \in 1..Required |-> r.to] /\ r.consent.of = r.to
  BY <1>1, <1>2 DEF Requested
<1> HIDE DEF new, save, face
<1>7. EnrollTypeOK'
  BY <1>1, <1>3, <1>5
     DEF EnrollInv, EnrollTypeOK, Enroll!person, Enroll!agreed, Enroll!camera
<1>8. OnScreen'
  BY <1>1 DEF EnrollInv, OnScreen, Enroll!person, Enroll!agreed, Enroll!camera
<1>9. ASSUME NEW q \in submissions'
      PROVE  Requested(q)'
  <2>1. CASE q \in submissions
    <3>1. Requested(q)
      BY <2>1 DEF EnrollInv
    <3> QED
      BY <3>1, <1>1 DEF Requested, Enroll!agreed
  <2>2. CASE q = new
    BY <2>2, <1>1, <1>2, <1>3, <1>4 DEF Requested, Enroll!agreed
  <2> QED
    BY <1>1, <2>1, <2>2
<1>10. Enroll!FaceOfConsented'
  <2>1. ASSUME NEW p \in Enroll!People, faces'[p] # Enroll!NoFace
        PROVE  /\ faces'[p].photos = [i \in 1..Required |-> p]
               /\ faces'[p].consent.of = p
               /\ faces'[p].at - faces'[p].consent.at <= ConsentLife
    <3>1. CASE p = r.to
      <4>1. faces'[p] = face
        BY <1>1, <1>6, <3>1 DEF EnrollInv, EnrollTypeOK
      <4> QED
        BY <1>1, <1>4, <1>6, <3>1, <4>1
    <3>2. CASE p # r.to
      <4>1. faces'[p] = faces[p]
        BY <1>1, <1>6, <3>2 DEF EnrollInv, EnrollTypeOK
      <4> QED
        BY <2>1, <4>1
           DEF EnrollInv, SavedAsAgreed, Enroll!FaceOfConsented,
               Enroll!isRecentBiometricConsentAge
    <3> QED
      BY <3>1, <3>2
  <2> QED
    BY <2>1 DEF Enroll!FaceOfConsented, Enroll!isRecentBiometricConsentAge
<1>11. Enroll!EnrolledAsSeen'
  <2>1. save.row /\ save.consent.saw # 0 => save.consent.saw = save.met
    BY <1>1, <1>2, <1>4 DEF Requested
  <2> QED
    BY <1>1, <2>1 DEF EnrollInv, SavedAsAgreed, Enroll!EnrolledAsSeen
<1>12. SavedAsAgreed'
  BY <1>1, <1>10, <1>11 DEF EnrollInv, SavedAsAgreed, Enroll!agreed
<1> QED
  BY <1>7, <1>8, <1>9, <1>12 DEF EnrollInv

LEMMA AnswerInv ==
    ASSUME EnrollInv, NEW r \in submissions, Enroll!Answer(r)
    PROVE  EnrollInv'
<1>1. /\ submissions' = submissions \ {r}
      /\ UNCHANGED <<hour, identity, faces, edits, enrolled, allowed, Enroll!person,
                     Enroll!agreed, photos>>
  BY DEF Enroll!Answer
<1>2. Requested(r) /\ r.number # 0
  <2>1. Requested(r) /\ consents \in Nat
    BY DEF EnrollInv, EnrollTypeOK
  <2> QED
    BY <2>1 DEF Requested
<1>3. EnrollTypeOK'
  BY <1>1 DEF EnrollInv, EnrollTypeOK, Enroll!person, Enroll!agreed
<1>4. (\A q \in submissions : Requested(q))'
  BY <1>1 DEF EnrollInv, Requested, Enroll!agreed
<1>5. CASE Enroll!isCurrent(r)
  <2>1. /\ step' = "error" \/ (step' = "done" /\ r.stage = "saved")
        /\ "current" \notin opening' /\ submitted' = 0
    <3>1. /\ step' \in {s \in {"error", "done"} : s = "done" => r.stage = "saved"}
          /\ Enroll!stopCamera /\ submitted' = 0
      BY <1>5 DEF Enroll!Answer
    <3>2. step' = "error" \/ (step' = "done" /\ r.stage = "saved")
      BY <3>1
    <3>3. "current" \notin opening'
      BY <3>1, RetiredIsOver DEF Enroll!stopCamera
    <3> QED
      BY <3>1, <3>2, <3>3
  <2>2. /\ step = "processing" /\ ~loading /\ consent # Enroll!NoConsent
        /\ r.number = consents /\ allowed /\ consent.of = target.who
    BY <1>2, <1>5 DEF Enroll!isCurrent, EnrollInv, OnScreen
  <2>3. r.consent = consent
    BY <1>2, <2>2 DEF Requested
  <2>4. OnScreen'
    BY <1>1, <2>1, <2>2 DEF EnrollInv, OnScreen, Enroll!person, Enroll!agreed
  <2>5. SavedAsAgreed'
    BY <1>1, <1>2, <2>1, <2>3
       DEF EnrollInv, SavedAsAgreed, Enroll!FaceOfConsented, Enroll!EnrolledAsSeen,
           Requested, Enroll!agreed
  <2> QED
    BY <1>3, <1>4, <2>4, <2>5 DEF EnrollInv
<1>6. CASE ~Enroll!isCurrent(r)
  <2>1. UNCHANGED <<step, opening, stream, submitted>>
    BY <1>6 DEF Enroll!Answer
  <2>2. OnScreen'
    BY <1>1, <2>1 DEF EnrollInv, OnScreen, Enroll!person, Enroll!agreed
  <2>3. SavedAsAgreed'
    BY <1>1, <2>1
       DEF EnrollInv, SavedAsAgreed, Enroll!FaceOfConsented, Enroll!EnrolledAsSeen,
           Enroll!agreed
  <2> QED
    BY <1>3, <1>4, <2>2, <2>3 DEF EnrollInv
<1> QED
  BY <1>5, <1>6

\* What ends an enrollment shows the first screen with nothing captured.
LEMMA DropFacts ==
    ASSUME EnrollInv, Enroll!Drop
    PROVE  /\ "current" \notin opening'
           /\ submitted' = 0 /\ photos' \in Photographed /\ step' = "name"
BY RetiredIsOver DEF Enroll!Drop, Enroll!stopCamera, Photographed


LEMMA RoleRevokedInv ==
    ASSUME EnrollInv, Enroll!RoleRevoked
    PROVE  EnrollInv'
<1> DEFINE t == [target EXCEPT !.who = IF target.url THEN @ ELSE Nobody, !.row = FALSE]
<1>1. /\ allowed' \in BOOLEAN /\ ~allowed' /\ Enroll!Drop /\ Enroll!Choose(t)
      /\ edits' = edits + 1
      /\ UNCHANGED <<hour, identity, faces, submissions, enrolled>>
  BY DEF Enroll!RoleRevoked
<1>2. t \in Targets /\ (t.url => t.who # Nobody) /\ ~t.row
  BY DEF EnrollInv, EnrollTypeOK, OnScreen, Targets, Persons
<1> HIDE DEF t
<1>3. /\ submitted' = 0 /\ photos' \in Photographed /\ step' = "name"
      /\ "current" \notin opening'
  BY <1>1, DropFacts
<1>4. /\ target' = t /\ revision' = Enroll!Unread /\ loading' = t.row
      /\ consent' = Enroll!NoConsent /\ consents' = consents
  BY <1>1 DEF Enroll!Choose
<1>5. EnrollTypeOK'
  BY <1>1, <1>2, <1>3, <1>4, EnrollConstants DEF EnrollInv, EnrollTypeOK, Targets
<1>6. OnScreen'
  BY <1>2, <1>3, <1>4, EnrollConstants DEF OnScreen
<1>7. (\A r \in submissions : Requested(r))'
  BY <1>1, <1>4 DEF EnrollInv, Requested
<1>8. SavedAsAgreed'
  BY <1>1, <1>3
     DEF EnrollInv, SavedAsAgreed, Enroll!FaceOfConsented, Enroll!EnrolledAsSeen
<1> QED
  BY <1>5, <1>6, <1>7, <1>8 DEF EnrollInv

LEMMA RoleGrantedInv ==
    ASSUME EnrollInv, Enroll!RoleGranted
    PROVE  EnrollInv'
<1> DEFINE t == [target EXCEPT !.row = target.url]
<1>1. /\ allowed' \in BOOLEAN /\ Enroll!Choose(t) /\ ~allowed
      /\ UNCHANGED <<hour, Enroll!server, step, Enroll!camera, submitted>>
  BY DEF Enroll!RoleGranted
<1>2. t \in Targets /\ (t.row \/ t.url => t.who # Nobody)
  BY DEF EnrollInv, EnrollTypeOK, OnScreen, Targets
<1>3. step \in {"name", "error"} /\ submitted = 0
  BY <1>1, NothingAwaited DEF EnrollInv, OnScreen
<1> HIDE DEF t
<1> QED
  BY <1>1, <1>2, <1>3, ChooseInv DEF Enroll!camera, EnrollInv, EnrollTypeOK

LEMMA NavigateInv ==
    ASSUME EnrollInv, Enroll!Navigate
    PROVE  EnrollInv'
<1>1. PICK p \in Enroll!People \cup {Nobody} :
         Enroll!Choose([who |-> p, row |-> p # Nobody /\ allowed, url |-> p # Nobody])
  BY DEF Enroll!Navigate
<1> DEFINE t == [who |-> p, row |-> p # Nobody /\ allowed, url |-> p # Nobody]
<1>2. Enroll!Drop /\ UNCHANGED <<hour, Enroll!server, allowed>> /\ Enroll!Choose(t)
  BY <1>1 DEF Enroll!Navigate
<1>3. t \in Targets /\ (t.row \/ t.url => t.who # Nobody)
  BY DEF Targets, Persons, EnrollInv, EnrollTypeOK
<1> HIDE DEF t
<1> QED
  BY <1>2, <1>3, DropFacts, ChooseInv DEF EnrollInv, EnrollTypeOK

LEMMA enrollNextInv ==
    ASSUME EnrollInv, Enroll!enrollNext
    PROVE  EnrollInv'
<1>1. Enroll!Drop /\ UNCHANGED <<hour, Enroll!server, allowed>>
      /\ Enroll!Choose(Enroll!NoTarget)
  BY DEF Enroll!enrollNext
<1> QED
  BY <1>1, DropFacts, ChooseInv, EnrollConstants DEF EnrollInv, EnrollTypeOK

LEMMA TryAgainInv ==
    ASSUME EnrollInv, Enroll!TryAgain
    PROVE  EnrollInv'
<1>1. /\ step = "error" /\ step' = "name" /\ photos' = <<>> /\ submitted = 0
      /\ UNCHANGED <<hour, Enroll!server, allowed, opening, stream, submitted>>
  BY NothingAwaited DEF Enroll!TryAgain
<1>2. photos' \in Photographed
  BY <1>1 DEF Photographed
<1>3. CASE target.row
  <2>1. Enroll!Choose(target) /\ target.who # Nobody /\ target \in Targets
    BY <1>3 DEF Enroll!TryAgain, EnrollInv, EnrollTypeOK, OnScreen
  <2> QED
    BY <1>1, <1>2, <2>1, ChooseInv DEF EnrollInv, EnrollTypeOK
<1>4. CASE ~target.row
  <2>1. UNCHANGED <<Enroll!person, Enroll!agreed>>
    BY <1>4 DEF Enroll!TryAgain
  <2> QED
    BY <1>1, <1>2, <2>1, CameraStepInv DEF Enroll!agreed, EnrollInv, OnScreen
<1> QED
  BY <1>3, <1>4

LEMMA EditElsewhereInv ==
    ASSUME EnrollInv, NEW p \in Enroll!People, Enroll!EditElsewhere(p)
    PROVE  EnrollInv'
<1>1. UNCHANGED <<hour, faces, submissions, enrolled, allowed, step, Enroll!person,
                  Enroll!agreed, Enroll!camera, submitted>>
  BY DEF Enroll!EditElsewhere
<1>2. identity' \in [Enroll!People -> Nat] /\ edits' \in Nat
  BY DEF Enroll!EditElsewhere, EnrollInv, EnrollTypeOK
<1>3. EnrollTypeOK'
  BY <1>1, <1>2
     DEF EnrollInv, EnrollTypeOK, Enroll!person, Enroll!agreed, Enroll!camera
<1>4. OnScreen'
  BY <1>1 DEF EnrollInv, OnScreen, Enroll!person, Enroll!agreed, Enroll!camera
<1>5. (\A r \in submissions : Requested(r))' /\ SavedAsAgreed'
  BY <1>1
     DEF EnrollInv, Requested, SavedAsAgreed, Enroll!FaceOfConsented,
         Enroll!EnrolledAsSeen, Enroll!agreed
<1> QED
  BY <1>3, <1>4, <1>5 DEF EnrollInv

LEMMA TickInv ==
    ASSUME EnrollInv, Enroll!Tick
    PROVE  EnrollInv'
<1>1. /\ hour' = hour + 1 /\ \A r \in submissions : r.stage # "sent"
      /\ UNCHANGED <<Enroll!server, allowed, step, Enroll!person, Enroll!agreed,
                     Enroll!camera, submitted>>
  BY DEF Enroll!Tick
<1>2. EnrollTypeOK'
  BY <1>1
     DEF EnrollInv, EnrollTypeOK, Enroll!server, Enroll!person, Enroll!agreed,
         Enroll!camera
<1>3. OnScreen'
  BY <1>1 DEF EnrollInv, OnScreen, Enroll!person, Enroll!agreed, Enroll!camera
<1>4. (\A r \in submissions : Requested(r))' /\ SavedAsAgreed'
  BY <1>1
     DEF EnrollInv, Requested, SavedAsAgreed, Enroll!FaceOfConsented,
         Enroll!EnrolledAsSeen, Enroll!agreed, Enroll!server
<1> QED
  BY <1>2, <1>3, <1>4 DEF EnrollInv

LEMMA EnrollNextInv ==
    ASSUME EnrollInv, Enroll!Next
    PROVE  EnrollInv'
<1>1. CASE Enroll!Operate
  BY <1>1, selectEmployeeInv, UnselectInv, loadWorkerInv, startCameraInv,
     CameraGrantedInv, CameraDeniedInv, BackInv, ConfirmConsentInv, startCapturingInv,
     doCaptureInv, CaptureFailsInv, NavigateInv, enrollNextInv, TryAgainInv
     DEF Enroll!Operate
<1>2. CASE \E r \in submissions :
              Enroll!Accept(r) \/ Enroll!Save(r) \/ Enroll!Answer(r)
  BY <1>2, AcceptInv, SaveInv, AnswerInv
<1>3. CASE \/ Enroll!RoleRevoked \/ Enroll!RoleGranted \/ Enroll!Tick
           \/ \E p \in Enroll!People : Enroll!EditElsewhere(p)
  BY <1>3, RoleRevokedInv, RoleGrantedInv, TickInv, EditElsewhereInv
<1> QED
  BY <1>1, <1>2, <1>3 DEF Enroll!Next

LEMMA EnrollStutterInv ==
    ASSUME EnrollInv, UNCHANGED enrollVars
    PROVE  EnrollInv'
<1>1. EnrollTypeOK' /\ OnScreen'
  BY DEF enrollVars, EnrollInv, EnrollTypeOK, OnScreen
<1>2. (\A r \in submissions : Requested(r))' /\ SavedAsAgreed'
  BY DEF enrollVars, EnrollInv, Requested, SavedAsAgreed, Enroll!FaceOfConsented,
         Enroll!EnrolledAsSeen
<1> QED
  BY <1>1, <1>2 DEF EnrollInv

-----------------------------------------------------------------------------
(* The kiosks page                                                         *)


\* A finite set of numbers has a greatest one.
LEMMA GreatestIsMax ==
    ASSUME NEW n \in Nat, NEW S \in SUBSET (0..n), S # {}
    PROVE  Fleet!Max(S) \in S /\ \A x \in S : x <= Fleet!Max(S)
<1> DEFINE T == {n - x : x \in S}
<1>1. T \in SUBSET Nat /\ T # {}
  <2>1. ASSUME NEW x \in S
        PROVE  n - x \in Nat
    <3>1. x \in 0..n
      OBVIOUS
    <3> QED
      BY <3>1
  <2> QED
    BY <2>1
<1> HIDE DEF T
<1>2. PICK i \in T : \A j \in T : i <= j
  BY <1>1, LeastExists
<1>3. \E m \in S : \A x \in S : m >= x
  <2>1. PICK m \in S : i = n - m
    BY DEF T
  <2>2. ASSUME NEW x \in S
        PROVE  m >= x
    <3>1. n - m <= n - x
      BY <1>2, <2>1 DEF T
    <3>2. m \in 0..n /\ x \in 0..n
      OBVIOUS
    <3> QED
      BY <3>1, <3>2
  <2> QED
    BY <2>2
<1> QED
  BY <1>3 DEF Fleet!Max

\* What an instance keeps, and what it will not keep again.
ReadingOK(r) ==
    /\ r = [id |-> r.id, date |-> r.date, page |-> r.page, of |-> r.of,
            generation |-> r.generation]
    /\ r.id \in 1..readSequence /\ r.date \in HealthDates
    /\ r.of \in Nat \cup {Fleet!Unread} /\ r.generation \in 0..generation
    /\ r.page \in 0..desk.request
    /\ r.generation = generation /\ r.of # Fleet!Unread => r.of >= settled

EntryOK(e) ==
    /\ e.requestId \in 0..readSequence
    /\ e.of \in Nat /\ e.of >= settled

CacheOK(c) ==
    /\ c = [entries |-> c.entries, order |-> c.order, retired |-> c.retired]
    /\ c.retired \in 0..readSequence
    /\ DOMAIN c.entries \subseteq HealthDates
    /\ \A d \in DOMAIN c.entries : EntryOK(c.entries[d])

\* A reading that was kept for a day keeps older ones from being kept.
LastKept(c, d) ==
    IF d \in DOMAIN c.entries THEN newest[d] <= c.entries[d].requestId
    ELSE newest[d] <= c.retired \/ \A r \in readings :
            r.generation = generation /\ r.date = d => newest[d] <= r.id

CountsOK ==
    /\ readSequence \in Nat /\ generation \in Nat
    /\ commits \in Nat /\ settled \in 0..commits
    /\ DOMAIN newest = HealthDates
    /\ \A d \in HealthDates : newest[d] \in 0..readSequence
    /\ desk.request \in Nat /\ requested \subseteq 1..desk.request

CacheInv ==
    /\ CountsOK /\ CacheOK(cache)
    /\ \A r \in readings : ReadingOK(r)
    /\ \A d \in HealthDates : LastKept(cache, d)


LEMMA UnreadFacts == Fleet!Unread \in Int /\ Fleet!Unread \notin Nat
  BY DEF Fleet!Unread

LEMMA EvictedFacts ==
    ASSUME readSequence \in Nat, NEW c, CacheOK(c), NEW dates
    PROVE  LET e == Fleet!Evicted(c, dates)
           IN /\ CacheOK(e)
              /\ DOMAIN e.entries = DOMAIN c.entries \ dates
              /\ \A d \in DOMAIN e.entries : e.entries[d] = c.entries[d]
              /\ e.retired >= c.retired
              /\ \A d \in DOMAIN c.entries \cap dates : e.retired >= c.entries[d].requestId
<1> DEFINE e == Fleet!Evicted(c, dates)
           numbers == {c.retired} \cup {c.entries[d].requestId : d \in DOMAIN c.entries \cap dates}
           entries == [d \in DOMAIN c.entries \ dates |-> c.entries[d]]
           order == SelectSeq(c.order, LAMBDA d : d \notin dates)
<1>1. e = [entries |-> entries, order |-> order, retired |-> Fleet!Max(numbers)]
  BY DEF Fleet!Evicted
<1>2. numbers \in SUBSET (0..readSequence) /\ numbers # {}
  BY DEF CacheOK, EntryOK
<1> HIDE DEF numbers, order
<1>3. Fleet!Max(numbers) \in 0..readSequence /\ \A x \in numbers : x <= Fleet!Max(numbers)
  BY <1>2, GreatestIsMax
<1> HIDE DEF e
<1>4. /\ e = [entries |-> e.entries, order |-> e.order, retired |-> e.retired]
      /\ e.entries = entries /\ e.retired = Fleet!Max(numbers)
  BY <1>1
<1>5. CacheOK(e)
  BY <1>3, <1>4 DEF CacheOK
<1>6. /\ \A d \in DOMAIN c.entries \cap dates : c.entries[d].requestId \in numbers
      /\ c.retired \in numbers
  BY DEF numbers
<1>7. e.retired >= c.retired
  BY <1>2, <1>3, <1>4, <1>6
<1>8. \A d \in DOMAIN c.entries \cap dates : e.retired >= c.entries[d].requestId
  BY <1>2, <1>3, <1>4, <1>6
<1> QED
  BY <1>4, <1>5, <1>7, <1>8 DEF e


LEMMA EvictedLastKept ==
    ASSUME CountsOK, NEW c, CacheOK(c), NEW dates, NEW d \in HealthDates, LastKept(c, d)
    PROVE  LastKept(Fleet!Evicted(c, dates), d)
<1> DEFINE e == Fleet!Evicted(c, dates)
<1> SUFFICES LastKept(e, d)
  OBVIOUS
<1>1. /\ DOMAIN e.entries = DOMAIN c.entries \ dates
      /\ \A x \in DOMAIN e.entries : e.entries[x] = c.entries[x]
      /\ e.retired >= c.retired
      /\ \A x \in DOMAIN c.entries \cap dates : e.retired >= c.entries[x].requestId
      /\ e.retired \in Nat /\ c.retired \in Nat
  BY EvictedFacts DEF CountsOK, CacheOK
<1> HIDE DEF e
<1>2. newest[d] \in Nat /\ \A x \in DOMAIN c.entries : c.entries[x].requestId \in Nat
  BY DEF CountsOK, CacheOK, EntryOK
<1>3. CASE d \in DOMAIN e.entries
  BY <1>1, <1>3 DEF LastKept
<1>4. CASE d \in DOMAIN c.entries /\ d \notin DOMAIN e.entries
  <2>1. newest[d] <= e.retired
    BY <1>1, <1>2, <1>4 DEF LastKept
  <2> QED
    BY <2>1, <1>4 DEF LastKept
<1>5. CASE d \notin DOMAIN c.entries
  <2>1. d \notin DOMAIN e.entries
    BY <1>1, <1>5
  <2>2. CASE newest[d] <= c.retired
    <3>1. newest[d] <= e.retired
      BY <1>1, <1>2, <2>2
    <3> QED
      BY <2>1, <3>1 DEF LastKept
  <2>3. CASE ~(newest[d] <= c.retired)
    BY <1>5, <2>1, <2>3 DEF LastKept
  <2> QED
    BY <2>2, <2>3
<1> QED
  BY <1>1, <1>3, <1>4, <1>5

\* Readings begin, end and are taken; what is kept changes only by eviction.
LEMMA CacheStep ==
    ASSUME CacheInv, CacheOK(cache'), \A d \in HealthDates : LastKept(cache', d),
           UNCHANGED <<generation, newest, settled>>, CountsOK',
           readSequence' >= readSequence, 
           \A r \in readings' :
             /\ ReadingOK(r)'
             /\ \/ r.id > readSequence
                \/ \E q \in readings :
                     q.id = r.id /\ q.date = r.date /\ q.generation = r.generation
    PROVE  CacheInv'
<1>1. readSequence \in Nat /\ readSequence' \in Nat
  BY DEF CacheInv, CountsOK
<1>2. ASSUME NEW e, EntryOK(e)
      PROVE  EntryOK(e)'
  BY <1>1, <1>2 DEF EntryOK
<1>3. CacheOK(cache)'
  BY <1>1, <1>2 DEF CacheOK
<1>4. ASSUME NEW d \in HealthDates
      PROVE  LastKept(cache, d)'
  <2>1. newest[d] \in 0..readSequence
    BY DEF CacheInv, CountsOK
  <2>2. LastKept(cache', d)
    OBVIOUS
  <2>3. \A r \in readings' : r.id \in Nat
    BY DEF ReadingOK
  <2>4. CASE d \in DOMAIN cache'.entries \/ newest[d] <= cache'.retired
    BY <2>2, <2>4 DEF LastKept
  <2>5. CASE ~(d \in DOMAIN cache'.entries \/ newest[d] <= cache'.retired)
    <3>1. \A r \in readings : r.generation = generation /\ r.date = d => newest[d] <= r.id
      BY <2>2, <2>5 DEF LastKept
    <3>2. \A r \in readings' : r.generation = generation /\ r.date = d => newest[d] <= r.id
      BY <1>1, <2>1, <2>3, <3>1
    <3> QED
      BY <3>2, <2>5 DEF LastKept
  <2> QED
    BY <2>4, <2>5
<1> QED
  BY <1>3, <1>4 DEF CacheInv

\* The cache is emptied and readings under way no longer count.
LEMMA InvalidateStep ==
    ASSUME CacheInv, Fleet!invalidate, UNCHANGED newest, CountsOK',
           readSequence' >= readSequence,
           \A r \in readings' :
             ReadingOK(r)' /\ (r.generation <= generation \/ r.id > readSequence)
    PROVE  CacheInv'
<1>1. /\ generation' = generation + 1 /\ generation \in Nat
      /\ cache' = [cache EXCEPT !.entries = [d \in {} |-> d], !.order = <<>>]
      /\ cache = [entries |-> cache.entries, order |-> cache.order,
                  retired |-> cache.retired]
      /\ cache.retired \in 0..readSequence
      /\ readSequence \in Nat /\ readSequence' \in Nat
  BY DEF CacheInv, CountsOK, CacheOK, Fleet!invalidate, Fleet!Emptied
<1> DEFINE none == [d \in {} |-> d]
<1>2. DOMAIN none = {}
  OBVIOUS
<1>3. cache' = [entries |-> none, order |-> <<>>, retired |-> cache.retired]
  BY <1>1
<1> HIDE DEF none
<1>4. /\ cache' = [entries |-> cache'.entries, order |-> cache'.order,
                   retired |-> cache'.retired]
      /\ cache'.entries = none /\ cache'.retired = cache.retired
  BY <1>3
<1>5. CacheOK(cache)'
  BY <1>1, <1>2, <1>4 DEF CacheOK
<1>6. ASSUME NEW d \in HealthDates
      PROVE  LastKept(cache, d)'
  <2>1. newest[d] \in 0..readSequence /\ newest'[d] = newest[d]
    BY DEF CacheInv, CountsOK
  <2>2. d \notin DOMAIN cache'.entries
    BY <1>2, <1>4
  <2>3. ASSUME NEW r \in readings', r.generation = generation'
        PROVE  newest'[d] <= r.id
    <3>1. r.id \in Nat /\ r.generation \in Int
      BY DEF ReadingOK
    <3>2. r.id > readSequence
      BY <1>1, <2>3, <3>1
    <3> QED
      BY <1>1, <2>1, <3>1, <3>2
  <2> QED
    BY <2>2, <2>3 DEF LastKept
<1> QED
  BY <1>5, <1>6 DEF CacheInv


LEMMA evictExpiredFacts ==
    ASSUME CacheInv
    PROVE  LET c == Fleet!evictExpired(cache)
           IN CacheOK(c) /\ \A d \in HealthDates : LastKept(c, d)
<1> DEFINE dates == {d \in DOMAIN cache.entries : cache.entries[d].expiresAt <= minute}
<1>1. Fleet!evictExpired(cache) = Fleet!Evicted(cache, dates)
  BY DEF Fleet!evictExpired
<1> HIDE DEF dates
<1>2. CountsOK /\ CacheOK(cache) /\ readSequence \in Nat
  BY DEF CacheInv, CountsOK
<1>3. CacheOK(Fleet!Evicted(cache, dates))
  BY <1>2, EvictedFacts
<1>4. \A d \in HealthDates : LastKept(Fleet!Evicted(cache, dates), d)
  BY <1>2, EvictedLastKept DEF CacheInv
<1> QED
  BY <1>1, <1>3, <1>4

\* A reading that is asked for.
LEMMA BegunOK ==
    ASSUME CacheInv, NEW wanted \in HealthDates, NEW place \in 0..desk.request, NEW at,
           Fleet!beginRead(wanted, place, at), at \in {generation, generation + 1},
           generation' = at, UNCHANGED <<settled, desk>>
    PROVE  /\ readSequence' = readSequence + 1
           /\ \A r \in readings' : 
                /\ ReadingOK(r)'
                /\ r \in readings \/ r.id = readSequence + 1
<1> DEFINE new == [id |-> readSequence + 1, date |-> wanted, page |-> place,
                   of |-> Fleet!Unread, generation |-> at]
<1>1. readings' = readings \cup {new} /\ readSequence' = readSequence + 1
  BY DEF Fleet!beginRead
<1>2. /\ new = [id |-> new.id, date |-> new.date, page |-> new.page, of |-> new.of,
                generation |-> new.generation]
      /\ new.id = readSequence + 1 /\ new.date = wanted /\ new.page = place
      /\ new.of = Fleet!Unread /\ new.generation = at
  OBVIOUS
<1> HIDE DEF new
<1>3. readSequence \in Nat /\ generation \in Nat
  BY DEF CacheInv, CountsOK
<1>4. ASSUME NEW r, r = new
      PROVE  ReadingOK(r)'
  BY <1>1, <1>2, <1>3, <1>4 DEF ReadingOK
<1>5. ASSUME NEW r \in readings
      PROVE  ReadingOK(r)'
  <2>1. ReadingOK(r)
    BY DEF CacheInv
  <2>2. /\ r.id \in 1..readSequence' /\ r.generation \in 0..generation'
        /\ r.generation = generation' => r.generation = generation
    BY <1>1, <1>3, <2>1 DEF ReadingOK
  <2> QED
    BY <2>1, <2>2 DEF ReadingOK
<1> QED
  BY <1>1, <1>2, <1>4, <1>5

LEMMA GETInv ==
    ASSUME CacheInv, NEW wanted \in HealthDates, Fleet!GET(wanted)
    PROVE  CacheInv'
<1> DEFINE c == Fleet!evictExpired(cache)
<1>1. /\ cache' = c \/ \E order : cache' = [c EXCEPT !.order = order]
      /\ \/ UNCHANGED <<readSequence, readings>>
         \/ Fleet!beginRead(wanted, 0, generation)
      /\ UNCHANGED <<commits, settled, generation, newest, requested, desk>>
  BY DEF Fleet!GET, Fleet!get, Fleet!server
<1>2. CacheOK(c) /\ \A d \in HealthDates : LastKept(c, d)
  BY evictExpiredFacts
<1> HIDE DEF c
<1>3. /\ cache' = [entries |-> cache'.entries, order |-> cache'.order,
                   retired |-> cache'.retired]
      /\ cache'.entries = c.entries /\ cache'.retired = c.retired
  BY <1>1, <1>2 DEF CacheOK
<1>4. CacheOK(cache')
  BY <1>2, <1>3 DEF CacheOK
<1>5. \A d \in HealthDates : LastKept(cache', d)
  BY <1>2, <1>3 DEF LastKept
<1>6. readSequence \in Nat /\ desk.request \in Nat
  BY DEF CacheInv, CountsOK
<1>7. CASE UNCHANGED <<readSequence, readings>>
  <2>1. \A r \in readings : ReadingOK(r)'
    BY <1>1, <1>7 DEF CacheInv, ReadingOK
  <2>2. CountsOK'
    BY <1>1, <1>7 DEF CacheInv, CountsOK
  <2> QED
    BY <1>1, <1>4, <1>5, <1>6, <1>7, <2>1, <2>2, CacheStep
<1>8. CASE Fleet!beginRead(wanted, 0, generation)
  <2>1. /\ readSequence' = readSequence + 1
        /\ \A r \in readings' : ReadingOK(r)' /\ (r \in readings \/ r.id = readSequence + 1)
    BY <1>1, <1>6, <1>8, BegunOK
  <2>2. CountsOK'
    BY <1>1, <2>1 DEF CacheInv, CountsOK
  <2> QED
    BY <1>1, <1>4, <1>5, <1>6, <2>1, <2>2, CacheStep
<1> QED
  BY <1>1, <1>7, <1>8

LEMMA GETFreshInv ==
    ASSUME CacheInv, NEW place \in requested, Fleet!GETFresh(place)
    PROVE  CacheInv'
<1>1. /\ requested' = requested \ {place} /\ Fleet!invalidate
      /\ Fleet!beginRead(HealthToday, place, generation + 1)
      /\ generation' = generation + 1
      /\ UNCHANGED <<commits, settled, newest, desk>>
  BY DEF Fleet!GETFresh, Fleet!invalidate, Fleet!server
<1>2. /\ HealthToday \in HealthDates /\ place \in 0..desk.request
      /\ readSequence \in Nat
  <2>1. HealthToday \in HealthDates
    BY FleetAssumption DEF Fleet!FleetHealthAssumption
  <2>2. /\ place \in requested /\ requested \subseteq 1..desk.request
        /\ desk.request \in Nat /\ readSequence \in Nat
    BY DEF CacheInv, CountsOK
  <2> QED
    BY <2>1, <2>2
<1>3. /\ readSequence' = readSequence + 1
      /\ \A r \in readings' : ReadingOK(r)' /\ (r \in readings \/ r.id = readSequence + 1)
  BY <1>1, <1>2, BegunOK
<1>4. CountsOK'
  BY <1>1, <1>3 DEF CacheInv, CountsOK
<1>5. \A r \in readings : r.generation <= generation
  BY DEF CacheInv, ReadingOK
<1> QED
  BY <1>1, <1>2, <1>3, <1>4, <1>5, InvalidateStep


\* An answer is kept only if no later one was.
LEMMA CacheAnsweredInv ==
    ASSUME CacheInv, NEW r \in readings, NEW arrives, Fleet!Answered(r, arrives)
    PROVE  CacheInv' /\ \A d \in HealthDates : newest'[d] >= newest[d]
<1> DEFINE c == Fleet!evictExpired(cache)
           old == Fleet!IsKept(c, r)
           put == Fleet!Stored(c, r)
<1>1. /\ r.of # Fleet!Unread /\ readings' = readings \ {r}
      /\ cache' = Fleet!set(c, r)
      /\ newest' = IF Fleet!IsKept(c, r) THEN [newest EXCEPT ![r.date] = r.id] ELSE newest
      /\ UNCHANGED <<commits, settled, generation, readSequence, requested>>
  BY DEF Fleet!Answered, Fleet!server
<1>2. desk'.request = desk.request
  <2>1. ASSUME NEW views
        PROVE  [desk EXCEPT !.shown = views, !.loading = FALSE].request = desk.request
    OBVIOUS
  <2> QED
    BY <2>1 DEF Fleet!Answered, Fleet!ShowReading
<1>3. CacheOK(c) /\ \A d \in HealthDates : LastKept(c, d)
  BY evictExpiredFacts
<1>4. ReadingOK(r) /\ readSequence \in Nat /\ CountsOK
  BY DEF CacheInv, CountsOK
<1> HIDE DEF c
<1>5. \A q \in readings' : ReadingOK(q)'
  <2> SUFFICES ASSUME NEW q \in readings
               PROVE  ReadingOK(q)'
    BY <1>1
  <2>1. ReadingOK(q)
    BY DEF CacheInv
  <2> QED
    BY <1>1, <1>2, <2>1 DEF ReadingOK
<1>6. CASE ~Fleet!IsKept(c, r)
  <2>1. cache' = c /\ newest' = newest
    BY <1>1, <1>6 DEF Fleet!set
  <2>2. CountsOK'
    BY <1>1, <1>2, <1>4, <2>1 DEF CountsOK
  <2>3. CacheInv'
    BY <1>1, <1>3, <1>4, <1>5, <2>1, <2>2, CacheStep
  <2>4. \A d \in HealthDates : newest'[d] >= newest[d]
    BY <1>4, <2>1 DEF CountsOK
  <2> QED
    BY <2>3, <2>4
<1>7. CASE Fleet!IsKept(c, r)
  <2> DEFINE entry == [requestId |-> r.id, expiresAt |-> minute + HealthTTL, of |-> r.of]
             entries == [d \in DOMAIN c.entries \cup {r.date} |->
                           IF d = r.date THEN entry ELSE c.entries[d]]
  <2>1. /\ r.generation = generation /\ r.id > c.retired
        /\ r.date \in DOMAIN c.entries => c.entries[r.date].requestId <= r.id
        /\ newest' = [newest EXCEPT ![r.date] = r.id]
    BY <1>1, <1>7 DEF Fleet!IsKept
  <2>2. PICK order : put = [c EXCEPT !.entries = entries, !.order = order]
    BY DEF Fleet!Stored
  <2>3. /\ entry.requestId = r.id /\ entry.of = r.of
    OBVIOUS
  <2> HIDE DEF entry
  <2>4. /\ DOMAIN entries = DOMAIN c.entries \cup {r.date}
        /\ entries[r.date] = entry
        /\ \A d \in DOMAIN c.entries : d # r.date => entries[d] = c.entries[d]
    OBVIOUS
  <2> HIDE DEF entries
  <2>5. put = [entries |-> entries, order |-> order, retired |-> c.retired]
    BY <1>3, <2>2 DEF CacheOK
  <2>6. /\ put = [entries |-> put.entries, order |-> put.order,
                     retired |-> put.retired]
        /\ put.entries = entries /\ put.retired = c.retired
    BY <2>5
  <2>7. \E dates : cache' = put \/ cache' = Fleet!Evicted(put, dates)
    BY <1>1, <1>7 DEF Fleet!set
  <2> HIDE DEF put
  <2>8. r.date \in HealthDates /\ r.id \in Nat /\ r.id <= readSequence
    BY <1>4 DEF ReadingOK
  <2>9. newest[r.date] <= r.id
    <3>1. newest[r.date] \in Nat /\ c.retired \in Nat
      BY <1>3, <1>4, <2>8 DEF CountsOK, CacheOK
    <3>2. LastKept(c, r.date)
      BY <1>3, <2>8
    <3>3. CASE r.date \in DOMAIN c.entries
      <4>1. c.entries[r.date].requestId \in Nat
        BY <1>3, <3>3 DEF CacheOK, EntryOK
      <4>2. newest[r.date] <= c.entries[r.date].requestId
        BY <3>2, <3>3 DEF LastKept
      <4> QED
        BY <2>1, <2>8, <3>1, <3>3, <4>1, <4>2
    <3>4. CASE r.date \notin DOMAIN c.entries
      <4>1. newest[r.date] <= c.retired \/ newest[r.date] <= r.id
        BY <2>1, <3>2, <3>4 DEF LastKept
      <4> QED
        BY <2>1, <2>8, <3>1, <4>1
    <3> QED
      BY <3>3, <3>4
  <2>10. \A d \in HealthDates : newest'[d] >= newest[d]
    BY <1>4, <2>1, <2>8, <2>9 DEF CountsOK
  <2>11. CountsOK'
    <3>1. \A d \in HealthDates : newest'[d] \in 0..readSequence'
      BY <1>1, <1>4, <2>1, <2>8 DEF CountsOK
    <3>2. DOMAIN newest' = HealthDates
      BY <1>4, <2>1 DEF CountsOK
    <3> QED
      BY <1>1, <1>2, <1>4, <3>1, <3>2 DEF CountsOK
  <2>12. CacheOK(put)
    <3>1. EntryOK(entry)
      BY <1>4, <2>1, <2>3, <2>8, <1>1 DEF EntryOK, ReadingOK
    <3> QED
      BY <1>3, <2>4, <2>6, <2>8, <3>1 DEF CacheOK
  <2>13. ASSUME NEW e, EntryOK(e)
         PROVE  EntryOK(e)'
    BY <1>1, <2>13 DEF EntryOK
  <2>14. /\ CacheOK(cache')
         /\ cache'.retired >= c.retired
         /\ DOMAIN cache'.entries \subseteq DOMAIN entries
         /\ \A d \in DOMAIN cache'.entries : cache'.entries[d] = entries[d]
         /\ \A d \in DOMAIN entries \ DOMAIN cache'.entries :
               cache'.retired >= entries[d].requestId
    <3>1. CASE cache' = put
      BY <1>3, <2>6, <2>12, <3>1 DEF CacheOK
    <3>2. PICK dates : cache' = put \/ cache' = Fleet!Evicted(put, dates)
      BY <2>7
    <3>3. CASE cache' = Fleet!Evicted(put, dates)
      BY <1>4, <2>6, <2>12, <3>3, EvictedFacts
    <3> QED
      BY <3>1, <3>2, <3>3
  <2>15. CacheOK(cache)'
    BY <1>1, <2>13, <2>14 DEF CacheOK
  <2>16. ASSUME NEW d \in HealthDates
         PROVE  LastKept(cache, d)'
    <3>1. c.retired \in Nat /\ cache'.retired \in Nat
      BY <1>3, <1>4, <2>14 DEF CacheOK
    <3>2. CASE d = r.date
      <4>1. newest'[d] = r.id /\ d \in DOMAIN entries /\ entries[d].requestId = r.id
        BY <1>4, <2>1, <2>3, <2>4, <2>8, <3>2 DEF CountsOK
      <4>2. CASE d \in DOMAIN cache'.entries
        BY <2>8, <2>14, <4>1, <4>2 DEF LastKept
      <4>3. CASE d \notin DOMAIN cache'.entries
        <5>1. newest'[d] <= cache'.retired
          BY <2>8, <2>14, <3>1, <4>1, <4>3
        <5> QED
          BY <4>3, <5>1 DEF LastKept
      <4> QED
        BY <4>2, <4>3
    <3>3. CASE d # r.date
      <4>1. newest'[d] = newest[d] /\ newest[d] \in Nat
        BY <1>4, <2>1, <3>3 DEF CountsOK
      <4>2. CASE d \in DOMAIN cache'.entries
        <5>1. d \in DOMAIN c.entries /\ cache'.entries[d] = c.entries[d]
          BY <2>4, <2>14, <3>3, <4>2
        <5>2. newest[d] <= c.entries[d].requestId
          BY <1>3, <5>1 DEF LastKept
        <5> QED
          BY <4>1, <4>2, <5>1, <5>2 DEF LastKept
      <4>3. CASE d \in DOMAIN c.entries \ DOMAIN cache'.entries
        <5>1. cache'.retired >= c.entries[d].requestId
          BY <2>4, <2>14, <3>3, <4>3
        <5>2. newest[d] <= c.entries[d].requestId /\ c.entries[d].requestId \in Nat
          BY <1>3, <4>3 DEF LastKept, CacheOK, EntryOK
        <5>3. newest'[d] <= cache'.retired
          BY <3>1, <4>1, <5>1, <5>2
        <5> QED
          BY <4>3, <5>3 DEF LastKept
      <4>4. CASE d \notin DOMAIN c.entries
        <5>1. d \notin DOMAIN cache'.entries
          BY <2>4, <2>14, <3>3, <4>4
        <5>2. \/ newest[d] <= c.retired
              \/ \A q \in readings : q.generation = generation /\ q.date = d =>
                    newest[d] <= q.id
          BY <1>3, <4>4 DEF LastKept
        <5>3. CASE newest[d] <= c.retired
          <6>1. newest'[d] <= cache'.retired
            BY <2>14, <3>1, <4>1, <5>3
          <6> QED
            BY <5>1, <6>1 DEF LastKept
        <5>4. CASE \A q \in readings : q.generation = generation /\ q.date = d =>
                      newest[d] <= q.id
          <6>1. \A q \in readings' : q.generation = generation' /\ q.date = d =>
                      newest'[d] <= q.id
            BY <1>1, <4>1, <5>4
          <6> QED
            BY <5>1, <6>1 DEF LastKept
        <5> QED
          BY <5>2, <5>3, <5>4
      <4> QED
        BY <4>2, <4>3, <4>4
    <3> QED
      BY <3>2, <3>3
  <2> QED
    BY <1>5, <2>10, <2>11, <2>15, <2>16 DEF CacheInv
<1> QED
  BY <1>6, <1>7


Stages == {"none", "sent", "committed", "served", "failed", "refused", "heard"}

CallOK(i) ==
    /\ calls[i] = [stage |-> calls[i].stage, kind |-> calls[i].kind, at |-> calls[i].at]
    /\ calls[i].stage \in Stages /\ calls[i].at \in 0..commits

DeskOK ==
    /\ desk = [request |-> desk.request, shown |-> desk.shown,
               loading |-> desk.loading, status |-> desk.status,
               statusError |-> desk.statusError, busy |-> desk.busy,
               issued |-> desk.issued, unknown |-> desk.unknown,
               refreshes |-> desk.refreshes]
    /\ desk.busy \in 0..MaxCalls

CallsOK == DOMAIN calls = 1..MaxCalls /\ \A i \in 1..MaxCalls : CallOK(i)

\* A reading, or a status, has all the changes that the page was told of.
Covers(of) ==
    \A i \in 1..MaxCalls : calls[i].stage = "heard" => of >= calls[i].at

PageInv ==
    /\ CallsOK /\ DeskOK
    /\ \A of \in desk.shown : Covers(of)
    /\ \A r \in readings : r.page = desk.request /\ r.of # Fleet!Unread => Covers(r.of)
    /\ \A x, y \in lookup : x = y
    /\ \A x \in lookup : x = Fleet!Unread \/ Covers(x)
    /\ lookup = {} /\ ~desk.statusError => \A of \in desk.status : Covers(of)

\* A call for a new credential that may have been or may yet be served.
AtRisk(i) ==
    calls[i].kind = "issue" /\ calls[i].stage \in Stages \ {"none", "refused"}

Accounted == told \cup cleared \cup desk.unknown \cup {desk.busy}

SecretInv ==
    /\ \A i \in 1..MaxCalls : AtRisk(i) => i \in Accounted
    /\ live # 0 => /\ live \in 1..MaxCalls /\ AtRisk(live)
                   /\ calls[live].stage # "sent"

FleetInv == CacheInv /\ PageInv /\ SecretInv

LEMMA PageStays ==
    ASSUME PageInv, UNCHANGED <<calls, desk, lookup>>, commits \in Nat,
           commits' \in Nat, commits' >= commits,
           \A r \in readings' : r \in readings \/ r.of = Fleet!Unread \/ Covers(r.of)
    PROVE  PageInv'
<1>1. CallsOK'
  BY DEF PageInv, CallsOK, CallOK
<1>2. \A of : Covers(of)' <=> Covers(of)
  BY DEF Covers
<1>3. DeskOK'
  BY DEF PageInv, DeskOK
<1> QED
  BY <1>1, <1>2, <1>3 DEF PageInv

LEMMA SecretStays ==
    ASSUME SecretInv, UNCHANGED <<calls, live>>, Accounted \subseteq Accounted'
    PROVE  SecretInv'
BY DEF SecretInv, AtRisk

LEMMA CommitsCover ==
    ASSUME CountsOK, CallsOK
    PROVE  Covers(commits)
BY DEF CountsOK, CallsOK, CallOK, Covers

LEMMA listInv ==
    ASSUME FleetInv, NEW r \in readings, Fleet!list(r)
    PROVE  FleetInv'
<1> DEFINE new == [r EXCEPT !.of = commits]
<1>1. /\ r.of = Fleet!Unread
      /\ readings' = (readings \ {r}) \cup {new}
      /\ UNCHANGED <<commits, settled, live, calls, cache, generation, newest,
                     readSequence, requested, lookup, desk, told, cleared>>
  BY DEF Fleet!list, Fleet!server, Fleet!kept
<1>2. ReadingOK(r) /\ CountsOK
  BY DEF FleetInv, CacheInv
<1>3. new = [id |-> r.id, date |-> r.date, page |-> r.page, of |-> commits,
             generation |-> r.generation]
  BY <1>2 DEF ReadingOK
<1>4. /\ new = [id |-> new.id, date |-> new.date, page |-> new.page, of |-> new.of,
                generation |-> new.generation]
      /\ new.id = r.id /\ new.date = r.date /\ new.page = r.page /\ new.of = commits
      /\ new.generation = r.generation
  BY <1>3
<1> HIDE DEF new
<1>5. ASSUME NEW q \in readings'
      PROVE  /\ ReadingOK(q)'
             /\ \E p \in readings :
                  q.id = p.id /\ q.date = p.date /\ q.generation = p.generation
             /\ q \in readings \/ q.of = commits
  <2>1. CASE q \in readings
    <3>1. ReadingOK(q)
      BY <2>1 DEF FleetInv, CacheInv
    <3> QED
      BY <1>1, <2>1, <3>1 DEF ReadingOK
  <2>2. CASE q = new
    <3>1. ReadingOK(q)'
      BY <1>1, <1>2, <1>4, <2>2 DEF ReadingOK, CountsOK
    <3> QED
      BY <1>4, <2>2, <3>1
  <2> QED
    BY <1>1, <2>1, <2>2
<1>6. CountsOK'
  BY <1>1, <1>2 DEF CountsOK
<1>7. CacheOK(cache') /\ \A d \in HealthDates : LastKept(cache', d)
  BY <1>1 DEF FleetInv, CacheInv
<1>8. CacheInv'
  BY <1>1, <1>2, <1>5, <1>6, <1>7, CacheStep DEF FleetInv, CountsOK
<1>9. PageInv'
  BY <1>1, <1>2, <1>5, CommitsCover, PageStays DEF FleetInv, PageInv, CountsOK
<1>10. SecretInv'
  BY <1>1, SecretStays DEF FleetInv, Accounted
<1> QED
  BY <1>8, <1>9, <1>10 DEF FleetInv

LEMMA FleetGETInv ==
    ASSUME FleetInv, NEW wanted \in HealthDates, Fleet!GET(wanted)
    PROVE  FleetInv'
<1>1. CacheInv'
  BY GETInv DEF FleetInv
<1>2. UNCHANGED <<commits, settled, live, calls, lookup, desk, told, cleared>>
  BY DEF Fleet!GET, Fleet!server
<1>3. \A r \in readings' : r \in readings \/ r.of = Fleet!Unread
  BY DEF Fleet!GET, Fleet!beginRead
<1>4. PageInv'
  BY <1>2, <1>3, PageStays DEF FleetInv, CacheInv, CountsOK
<1>5. SecretInv'
  BY <1>2, SecretStays DEF FleetInv, Accounted
<1> QED
  BY <1>1, <1>4, <1>5 DEF FleetInv

LEMMA FleetGETFreshInv ==
    ASSUME FleetInv, NEW place \in requested, Fleet!GETFresh(place)
    PROVE  FleetInv'
<1>1. CacheInv'
  BY GETFreshInv DEF FleetInv
<1>2. UNCHANGED <<commits, settled, live, calls, lookup, desk, told, cleared>>
  BY DEF Fleet!GETFresh, Fleet!server
<1>3. \A r \in readings' : r \in readings \/ r.of = Fleet!Unread
  BY DEF Fleet!GETFresh, Fleet!beginRead
<1>4. PageInv'
  BY <1>2, <1>3, PageStays DEF FleetInv, CacheInv, CountsOK
<1>5. SecretInv'
  BY <1>2, SecretStays DEF FleetInv, Accounted
<1> QED
  BY <1>1, <1>4, <1>5 DEF FleetInv


\* A reading of the page's ends, and what is views of it is covered.
LEMMA ShownInv ==
    ASSUME PageInv, SecretInv, NEW r \in readings, readings' = readings \ {r},
           NEW views, \A of \in views : r.page = desk.request => Covers(of),
           Fleet!ShowReading(r.page, views),
           UNCHANGED <<calls, live, lookup, told, cleared, commits>>
    PROVE  PageInv' /\ SecretInv' /\ desk'.request = desk.request
<1> DEFINE new == [desk EXCEPT !.shown = views, !.loading = FALSE]
<1>1. /\ \/ desk' = desk
         \/ desk' = new /\ \A of \in views : Covers(of)
  BY DEF Fleet!ShowReading
<1>2. ASSUME desk' = new
      PROVE  desk' =
            [request |-> desk.request, shown |-> views,
             loading |-> FALSE, status |-> desk.status,
             statusError |-> desk.statusError, busy |-> desk.busy,
             issued |-> desk.issued, unknown |-> desk.unknown,
             refreshes |-> desk.refreshes]
  BY <1>2 DEF PageInv, DeskOK
<1> HIDE DEF new
<1>3. /\ DeskOK'
      /\ desk'.request = desk.request /\ desk'.status = desk.status
      /\ desk'.statusError = desk.statusError /\ desk'.busy = desk.busy
      /\ desk'.unknown = desk.unknown
      /\ desk'.shown = desk.shown \/ (desk'.shown = views /\ \A of \in views : Covers(of))
  <2>1. CASE desk' = desk
    BY <2>1 DEF PageInv, DeskOK
  <2>2. CASE desk' = new /\ \A of \in views : Covers(of)
    BY <1>2, <2>2 DEF PageInv, DeskOK
  <2> QED
    BY <1>1, <2>1, <2>2
<1>4. CallsOK' /\ \A of : Covers(of)' <=> Covers(of)
  BY DEF PageInv, CallsOK, CallOK, Covers
<1>5. PageInv'
  BY <1>3, <1>4 DEF PageInv
<1>6. SecretInv'
  BY <1>3, SecretStays DEF Accounted
<1> QED
  BY <1>3, <1>5, <1>6

LEMMA FleetAnsweredInv ==
    ASSUME FleetInv, NEW r \in readings, NEW arrives, Fleet!Answered(r, arrives)
    PROVE  FleetInv' /\ \A d \in HealthDates : newest'[d] >= newest[d]
<1> DEFINE views == {of \in {r.of} : arrives}
<1>1. /\ r.of # Fleet!Unread /\ readings' = readings \ {r}
      /\ Fleet!ShowReading(r.page, views)
      /\ UNCHANGED <<calls, live, lookup, told, cleared, commits>>
  BY DEF Fleet!Answered, Fleet!server
<1>2. \A of \in views : r.page = desk.request => Covers(of)
  BY <1>1 DEF FleetInv, PageInv
<1> HIDE DEF views
<1>3. PageInv' /\ SecretInv'
  BY <1>1, <1>2, ShownInv DEF FleetInv
<1> QED
  BY <1>3, CacheAnsweredInv DEF FleetInv

LEMMA FailedInv ==
    ASSUME FleetInv, NEW r \in readings, Fleet!Failed(r)
    PROVE  FleetInv'
<1>1. /\ readings' = readings \ {r} /\ Fleet!ShowReading(r.page, {})
      /\ UNCHANGED <<commits, settled, live, calls, cache, generation, newest,
                     readSequence, requested, lookup, told, cleared>>
  BY DEF Fleet!Failed, Fleet!server, Fleet!kept
<1>2. PICK none : none = {}
  OBVIOUS
<1>3. \A of \in none : r.page = desk.request => Covers(of)
  BY <1>2
<1>4. Fleet!ShowReading(r.page, none)
  BY <1>1, <1>2
<1>5. PageInv' /\ SecretInv' /\ desk'.request = desk.request
  BY <1>1, <1>3, <1>4, ShownInv DEF FleetInv
<1>6. CountsOK'
  BY <1>1, <1>5 DEF FleetInv, CacheInv, CountsOK
<1>7. \A q \in readings' : ReadingOK(q)'
  BY <1>1, <1>5 DEF FleetInv, CacheInv, ReadingOK
<1>8. CacheOK(cache') /\ \A d \in HealthDates : LastKept(cache', d)
  BY <1>1 DEF FleetInv, CacheInv
<1>9. CacheInv'
  BY <1>1, <1>6, <1>7, <1>8, CacheStep DEF FleetInv, CacheInv, CountsOK
<1> QED
  BY <1>5, <1>9 DEF FleetInv

\* What is kept and read does not depend on the page, which asks for more.
LEMMA CacheAside ==
    ASSUME CacheInv, UNCHANGED <<settled, cache, generation, newest, readSequence, readings>>,
           commits' \in Nat, commits' >= commits,
           desk'.request \in Nat, desk'.request >= desk.request,
           requested' \subseteq 1..desk'.request
    PROVE  CacheInv'
<1>1. CountsOK /\ CacheOK(cache') /\ \A d \in HealthDates : LastKept(cache', d)
  BY DEF CacheInv
<1>2. CountsOK'
  BY <1>1 DEF CountsOK
<1>3. \A r \in readings' : ReadingOK(r)' /\ r \in readings
  BY <1>1 DEF CacheInv, ReadingOK, CountsOK
<1>4. readSequence \in Nat
  BY <1>1 DEF CountsOK
<1> QED
  BY <1>1, <1>2, <1>3, <1>4, CacheStep

LEMMA FleetRefreshInv ==
    ASSUME FleetInv, Fleet!Refresh
    PROVE  FleetInv'
<1>1. /\ desk' = [Fleet!fetchReadiness(desk) EXCEPT !.refreshes = @ + 1]
      /\ requested' = requested \cup {desk'.request}
      /\ UNCHANGED <<commits, settled, live, calls, cache, generation, newest,
                     readSequence, readings, lookup, told, cleared>>
  BY DEF Fleet!Refresh, Fleet!server, Fleet!kept
<1>2. PICK refreshes : desk' =
         [request |-> desk.request + 1, shown |-> {},
          loading |-> TRUE, status |-> desk.status,
          statusError |-> desk.statusError, busy |-> desk.busy,
          issued |-> desk.issued, unknown |-> desk.unknown,
          refreshes |-> refreshes]
  BY <1>1 DEF Fleet!fetchReadiness, FleetInv, PageInv, DeskOK
<1>3. DeskOK' /\ desk'.request = desk.request + 1 /\ desk'.shown = {}
      /\ desk'.status = desk.status /\ desk'.statusError = desk.statusError
      /\ desk'.unknown = desk.unknown /\ desk'.busy = desk.busy
  BY <1>2 DEF FleetInv, PageInv, DeskOK
<1>4. desk.request \in Nat /\ requested \subseteq 1..desk.request /\ commits \in Nat
  BY DEF FleetInv, CacheInv, CountsOK
<1>5. CacheInv'
  BY <1>1, <1>3, <1>4, CacheAside DEF FleetInv
<1>6. CallsOK' /\ \A of : Covers(of)' <=> Covers(of)
  BY <1>1 DEF FleetInv, PageInv, CallsOK, CallOK, Covers
<1>7. \A r \in readings : r.page # desk'.request
  BY <1>3, <1>4 DEF FleetInv, CacheInv, ReadingOK
<1>8. PageInv'
  BY <1>1, <1>3, <1>6, <1>7 DEF FleetInv, PageInv
<1>9. SecretInv'
  BY <1>1, <1>3, SecretStays DEF FleetInv, Accounted
<1> QED
  BY <1>5, <1>8, <1>9 DEF FleetInv

LEMMA LookedUpInv ==
    ASSUME FleetInv, Fleet!LookedUp
    PROVE  FleetInv'
<1>1. /\ lookup' = {commits}
      /\ UNCHANGED <<commits, settled, live, calls, cache, generation, newest,
                     readSequence, readings, requested, desk, told, cleared>>
  BY DEF Fleet!LookedUp, Fleet!server, Fleet!kept
<1>2. CacheInv'
  BY <1>1, CacheAside DEF FleetInv, CacheInv, CountsOK
<1>3. CallsOK' /\ DeskOK' /\ \A of : Covers(of)' <=> Covers(of)
  BY <1>1 DEF FleetInv, PageInv, CallsOK, CallOK, Covers, DeskOK
<1>4. Covers(commits)
  BY CommitsCover DEF FleetInv, CacheInv, PageInv
<1>5. PageInv'
  BY <1>1, <1>3, <1>4 DEF FleetInv, PageInv
<1>6. SecretInv'
  BY <1>1, SecretStays DEF FleetInv, Accounted
<1> QED
  BY <1>2, <1>5, <1>6 DEF FleetInv

LEMMA StatusAnsweredInv ==
    ASSUME FleetInv, NEW arrives \in BOOLEAN, Fleet!StatusAnswered(arrives)
    PROVE  FleetInv'
<1>1. /\ lookup # {} /\ (arrives => lookup # {Fleet!Unread}) /\ lookup' = {}
      /\ desk' = IF arrives
                 THEN [desk EXCEPT !.status = lookup, !.statusError = FALSE]
                 ELSE [desk EXCEPT !.statusError = TRUE]
      /\ UNCHANGED <<commits, settled, live, calls, cache, generation, newest,
                     readSequence, readings, requested, told, cleared>>
  BY DEF Fleet!StatusAnswered, Fleet!server, Fleet!kept
<1>2. PICK status, error :
        /\ desk' =
             [request |-> desk.request, shown |-> desk.shown,
              loading |-> desk.loading, status |-> status,
              statusError |-> error, busy |-> desk.busy,
              issued |-> desk.issued, unknown |-> desk.unknown,
              refreshes |-> desk.refreshes]
        /\ error \/ (arrives /\ status = lookup)
  <2>1. CASE arrives
    BY <1>1, <2>1 DEF FleetInv, PageInv, DeskOK
  <2>2. CASE ~arrives
    BY <1>1, <2>2 DEF FleetInv, PageInv, DeskOK
  <2> QED
    BY <2>1, <2>2
<1>3. DeskOK' /\ desk'.request = desk.request /\ desk'.shown = desk.shown
      /\ desk'.status = status /\ desk'.statusError = error
      /\ desk'.unknown = desk.unknown /\ desk'.busy = desk.busy
  BY <1>2 DEF FleetInv, PageInv, DeskOK
<1>4. CacheInv'
  BY <1>1, <1>3, CacheAside DEF FleetInv, CacheInv, CountsOK
<1>5. CallsOK' /\ \A of : Covers(of)' <=> Covers(of)
  BY <1>1 DEF FleetInv, PageInv, CallsOK, CallOK, Covers
<1>6. arrives => \A of \in lookup : Covers(of)
  BY <1>1 DEF FleetInv, PageInv
<1>7. PageInv'
  BY <1>1, <1>2, <1>3, <1>5, <1>6 DEF FleetInv, PageInv
<1>8. SecretInv'
  BY <1>1, <1>3, SecretStays DEF FleetInv, Accounted
<1> QED
  BY <1>4, <1>7, <1>8 DEF FleetInv


\* A call goes on; what the page shows and has asked for stays as it is.
LEMMA CallStep ==
    ASSUME FleetInv, NEW i \in 1..MaxCalls, NEW new, CallsOK',
           calls' = [calls EXCEPT ![i] = new],
           new.stage # "heard", calls[i].stage # "heard",
           desk'.shown = desk.shown, desk'.request = desk.request,
           desk'.status = desk.status, desk'.statusError = desk.statusError,
           DeskOK', UNCHANGED lookup,
           \A r \in readings' : r \in readings \/ r.of = Fleet!Unread
    PROVE  PageInv'
<1>1. \A of : Covers(of)' <=> Covers(of)
  <2>1. \A j \in 1..MaxCalls : j # i => calls'[j] = calls[j]
    BY DEF FleetInv, PageInv, CallsOK
  <2>2. calls'[i].stage # "heard"
    BY DEF FleetInv, PageInv, CallsOK
  <2> QED
    BY <2>1, <2>2 DEF Covers
<1> QED
  BY <1>1 DEF FleetInv, PageInv

LEMMA manageCredentialInv ==
    ASSUME FleetInv, NEW kind, Fleet!manageCredential(kind)
    PROVE  FleetInv'
<1>1. PICK i \in 1..MaxCalls :
        /\ calls[i].stage = "none" /\ desk.busy = 0
        /\ calls' = [calls EXCEPT ![i] = [stage |-> "sent", kind |-> kind, at |-> 0]]
        /\ desk' = [desk EXCEPT !.busy = i]
  BY DEF Fleet!manageCredential
<1>2. UNCHANGED <<commits, settled, live, cache, generation, newest,
                  readSequence, readings, requested, lookup, told, cleared>>
  BY DEF Fleet!manageCredential, Fleet!kept
<1>3. desk' =
         [request |-> desk.request, shown |-> desk.shown,
          loading |-> desk.loading, status |-> desk.status,
          statusError |-> desk.statusError, busy |-> i,
          issued |-> desk.issued, unknown |-> desk.unknown,
          refreshes |-> desk.refreshes]
  BY <1>1 DEF FleetInv, PageInv, DeskOK
<1>4. MaxCalls \in Nat
  BY FleetAssumption DEF Fleet!FleetHealthAssumption
<1>5. DeskOK' /\ desk'.request = desk.request /\ desk'.shown = desk.shown
      /\ desk'.status = desk.status /\ desk'.statusError = desk.statusError
      /\ desk'.unknown = desk.unknown /\ desk'.busy = i
  BY <1>3, <1>4 DEF DeskOK
<1>6. CacheInv'
  BY <1>2, <1>5, CacheAside DEF FleetInv, CacheInv, CountsOK
<1> DEFINE new == [stage |-> "sent", kind |-> kind, at |-> 0]
<1>7. /\ new = [stage |-> new.stage, kind |-> new.kind, at |-> new.at]
      /\ new.stage = "sent" /\ new.at = 0
  OBVIOUS
<1>8. calls' = [calls EXCEPT ![i] = new]
  BY <1>1
<1> HIDE DEF new
<1>9. CallsOK'
  BY <1>2, <1>7, <1>8 DEF FleetInv, CacheInv, CountsOK, PageInv, CallsOK, CallOK, Stages
<1>10. PageInv'
  BY <1>1, <1>2, <1>5, <1>7, <1>8, <1>9, CallStep
<1>11. SecretInv'
  <2>1. /\ calls'[i] = new
        /\ \A j \in 1..MaxCalls : j # i => calls'[j] = calls[j]
    BY <1>8 DEF FleetInv, PageInv, CallsOK
  <2>2. ~AtRisk(i)
    BY <1>1 DEF AtRisk
  <2>3. ASSUME NEW j \in 1..MaxCalls, AtRisk(j)'
        PROVE  j \in Accounted'
    <3>1. CASE j = i
      BY <1>5, <3>1 DEF Accounted
    <3>2. CASE j # i
      <4>1. j \in Accounted /\ j # 0
        BY <2>1, <2>3, <3>2 DEF AtRisk, FleetInv, SecretInv
      <4> QED
        BY <1>1, <1>2, <1>5, <4>1 DEF Accounted
    <3> QED
      BY <3>1, <3>2
  <2>4. ASSUME live' # 0
        PROVE  live' \in 1..MaxCalls /\ AtRisk(live)' /\ calls'[live'].stage # "sent"
    <3>1. live \in 1..MaxCalls /\ AtRisk(live) /\ calls[live].stage # "sent" /\ live' = live
      BY <1>2, <2>4 DEF FleetInv, SecretInv
    <3>2. calls'[live] = calls[live]
      BY <2>1, <2>2, <3>1
    <3> QED
      BY <3>1, <3>2 DEF AtRisk
  <2> QED
    BY <2>3, <2>4 DEF SecretInv
<1> QED
  BY <1>6, <1>10, <1>11 DEF FleetInv

\* What becomes of a call at the portal does not put more of them at risk than
\* were, and the credential that is accepted was issued by one of them.
LEMMA SecretStep ==
    ASSUME FleetInv, NEW i \in 1..MaxCalls, NEW new,
           calls' = [calls EXCEPT ![i] = new], new.kind = calls[i].kind,
           calls[i].stage \in Stages \ {"none", "refused"},
           Accounted \subseteq Accounted',
           \/ new.stage \in Stages \ {"none", "refused", "sent"}
           \/ calls[i].stage = "sent" /\ new.stage # "sent" /\ live' = live,
           live' = live \/ live' = 0 \/ (live' = i /\ calls[i].kind = "issue")
    PROVE  SecretInv'
<1>1. /\ calls'[i] = new
      /\ \A j \in 1..MaxCalls : j # i => calls'[j] = calls[j]
  BY DEF FleetInv, PageInv, CallsOK
<1>2. ASSUME NEW j \in 1..MaxCalls, AtRisk(j)'
      PROVE  j \in Accounted'
  <2>1. AtRisk(j)
    BY <1>1, <1>2 DEF AtRisk
  <2> QED
    BY <2>1 DEF FleetInv, SecretInv
<1>3. ASSUME live' # 0
      PROVE  live' \in 1..MaxCalls /\ AtRisk(live)' /\ calls'[live'].stage # "sent"
  <2>1. CASE live' = live
    <3>1. live \in 1..MaxCalls /\ AtRisk(live) /\ calls[live].stage # "sent"
      BY <1>3, <2>1 DEF FleetInv, SecretInv
    <3> QED
      BY <1>1, <2>1, <3>1 DEF AtRisk
  <2>2. CASE live' # live
    BY <1>1, <1>3, <2>2 DEF AtRisk
  <2> QED
    BY <2>1, <2>2
<1> QED
  BY <1>2, <1>3 DEF SecretInv

LEMMA rotateOrRevokeInv ==
    ASSUME FleetInv, NEW i \in 1..MaxCalls, Fleet!rotateOrRevoke(i)
    PROVE  FleetInv'
<1> DEFINE new == [calls[i] EXCEPT !.stage = "committed", !.at = commits + 1]
<1>1. /\ calls[i].stage = "sent" /\ commits' = commits + 1
      /\ live' = IF calls[i].kind = "issue" THEN i ELSE 0
      /\ calls' = [calls EXCEPT ![i].stage = "committed", ![i].at = commits + 1]
      /\ UNCHANGED <<settled, cache, generation, newest, readSequence, readings,
                     requested, lookup, desk, told, cleared>>
  BY DEF Fleet!rotateOrRevoke, Fleet!kept
<1>2. CallOK(i) /\ commits \in Nat /\ desk.request \in Nat
  BY DEF FleetInv, CacheInv, CountsOK, PageInv, CallsOK
<1>3. new = [stage |-> "committed", kind |-> calls[i].kind, at |-> commits + 1]
  <2>1. ASSUME NEW x, x = [calls[i] EXCEPT !.stage = "committed", !.at = commits + 1]
        PROVE  x = [stage |-> "committed", kind |-> calls[i].kind, at |-> commits + 1]
    BY <1>2, <2>1 DEF CallOK
  <2> QED
    BY <2>1
<1>4. calls' = [calls EXCEPT ![i] = new]
  BY <1>1
<1>5. /\ new = [stage |-> new.stage, kind |-> new.kind, at |-> new.at]
      /\ new.stage = "committed" /\ new.kind = calls[i].kind /\ new.at = commits + 1
  BY <1>3
<1> HIDE DEF new
<1>6. CallsOK'
  BY <1>1, <1>2, <1>4, <1>5 DEF FleetInv, PageInv, CallsOK, CallOK, Stages
<1>7. CacheInv'
  BY <1>1, <1>2, CacheAside DEF FleetInv, CacheInv, CountsOK
<1>8. DeskOK'
  BY <1>1 DEF FleetInv, PageInv, DeskOK
<1>9. PageInv'
  BY <1>1, <1>4, <1>5, <1>6, <1>8, CallStep
<1>10. Accounted \subseteq Accounted'
  BY <1>1 DEF Accounted
<1>11. new.stage \in Stages \ {"none", "refused", "sent"}
       /\ calls[i].stage \in Stages \ {"none", "refused"}
  BY <1>1, <1>5 DEF Stages
<1>12. SecretInv'
  BY <1>1, <1>4, <1>5, <1>10, <1>11, SecretStep
<1> QED
  BY <1>7, <1>9, <1>12 DEF FleetInv

LEMMA CredentialServedInv ==
    ASSUME FleetInv, NEW i \in 1..MaxCalls, Fleet!CredentialServed(i)
    PROVE  FleetInv'
<1> DEFINE new == [calls[i] EXCEPT !.stage = "served"]
<1>1. /\ calls[i].stage = "committed"
      /\ calls' = [calls EXCEPT ![i].stage = "served"]
      /\ settled' = Fleet!Max({settled, calls[i].at})
      /\ Fleet!invalidate /\ generation' = generation + 1
      /\ UNCHANGED <<commits, live, newest, readSequence, readings, requested,
                     lookup, desk, told, cleared>>
  BY DEF Fleet!CredentialServed, Fleet!invalidate
<1>2. CallOK(i) /\ CountsOK /\ generation \in Nat /\ readSequence \in Nat
  BY DEF FleetInv, CacheInv, CountsOK, PageInv, CallsOK
<1>3. new = [stage |-> "served", kind |-> calls[i].kind, at |-> calls[i].at]
  BY <1>2 DEF CallOK
<1>4. calls' = [calls EXCEPT ![i] = new]
  BY <1>1
<1>5. /\ new = [stage |-> new.stage, kind |-> new.kind, at |-> new.at]
      /\ new.stage = "served" /\ new.kind = calls[i].kind /\ new.at = calls[i].at
  BY <1>3
<1> HIDE DEF new
<1>6. CallsOK'
  BY <1>1, <1>2, <1>4, <1>5 DEF FleetInv, PageInv, CallsOK, CallOK, Stages
<1>7. settled' \in 0..commits
  <2>1. {settled, calls[i].at} \in SUBSET (0..commits) /\ commits \in Nat
    BY <1>2 DEF CallOK, CountsOK
  <2> QED
    BY <1>1, <2>1, GreatestIsMax
<1>8. CountsOK'
  BY <1>1, <1>2, <1>7 DEF CountsOK
<1>9. \A r \in readings : ReadingOK(r)' /\ r.generation <= generation
  BY <1>1, <1>2 DEF FleetInv, CacheInv, ReadingOK
<1>10. CacheInv'
  BY <1>1, <1>2, <1>8, <1>9, InvalidateStep DEF FleetInv
<1>11. DeskOK'
  BY <1>1 DEF FleetInv, PageInv, DeskOK
<1>12. PageInv'
  BY <1>1, <1>4, <1>5, <1>6, <1>11, CallStep
<1>13. Accounted \subseteq Accounted'
  BY <1>1 DEF Accounted
<1>14. new.stage \in Stages \ {"none", "refused", "sent"}
       /\ calls[i].stage \in Stages \ {"none", "refused"}
  BY <1>1, <1>5 DEF Stages
<1>15. SecretInv'
  BY <1>1, <1>4, <1>5, <1>13, <1>14, SecretStep
<1> QED
  BY <1>10, <1>12, <1>15 DEF FleetInv

LEMMA CredentialFailedInv ==
    ASSUME FleetInv, NEW i \in 1..MaxCalls, NEW stage \in {"failed", "refused"},
           Fleet!CredentialFailed(i, stage)
    PROVE  FleetInv'
<1> DEFINE new == [calls[i] EXCEPT !.stage = stage]
<1>1. /\ \/ calls[i].stage = "sent"
         \/ calls[i].stage = "committed" /\ stage = "failed"
      /\ calls' = [calls EXCEPT ![i].stage = stage]
      /\ UNCHANGED <<commits, settled, live, cache, generation, newest,
                     readSequence, readings, requested, lookup, desk, told, cleared>>
  BY DEF Fleet!CredentialFailed, Fleet!kept
<1>2. CallOK(i) /\ CountsOK
  BY DEF FleetInv, CacheInv, PageInv, CallsOK
<1>3. new = [stage |-> stage, kind |-> calls[i].kind, at |-> calls[i].at]
  BY <1>2 DEF CallOK
<1>4. calls' = [calls EXCEPT ![i] = new]
  BY <1>1
<1>5. /\ new = [stage |-> new.stage, kind |-> new.kind, at |-> new.at]
      /\ new.stage = stage /\ new.kind = calls[i].kind /\ new.at = calls[i].at
  BY <1>3
<1> HIDE DEF new
<1>6. CallsOK'
  BY <1>1, <1>2, <1>4, <1>5 DEF FleetInv, PageInv, CallsOK, CallOK, Stages
<1>7. CacheInv'
  BY <1>1, <1>2, CacheAside DEF FleetInv, CountsOK
<1>8. DeskOK'
  BY <1>1 DEF FleetInv, PageInv, DeskOK
<1>9. PageInv'
  BY <1>1, <1>4, <1>5, <1>6, <1>8, CallStep
<1>10. Accounted \subseteq Accounted'
  BY <1>1 DEF Accounted
<1>11. /\ calls[i].stage \in Stages \ {"none", "refused"}
       /\ \/ new.stage \in Stages \ {"none", "refused", "sent"}
          \/ calls[i].stage = "sent" /\ new.stage # "sent"
  BY <1>1, <1>5 DEF Stages
<1>12. SecretInv'
  BY <1>1, <1>4, <1>5, <1>10, <1>11, SecretStep
<1> QED
  BY <1>7, <1>9, <1>12 DEF FleetInv


\* The page learns an outcome, or that it will not.
LEMMA CallAnsweredInv ==
    ASSUME FleetInv, NEW arrives \in BOOLEAN, Fleet!CallAnswered(arrives)
    PROVE  FleetInv'
<1> DEFINE i == desk.busy
           heard == arrives /\ calls[i].stage = "served"
           issued == heard /\ calls[i].kind = "issue"
           sure == calls[i].kind = "revoke" \/ (arrives /\ calls[i].stage = "refused")
<1>1. /\ i # 0
      /\ lookup' = {Fleet!Unread}
      /\ requested' \subseteq requested \cup {desk.request + 1}
      /\ UNCHANGED <<commits, settled, live, cache, generation, newest,
                     readSequence, readings>>
  <2>1. Fleet!fetchReadiness([desk EXCEPT !.busy = 0]).request = desk.request + 1
    BY DEF Fleet!fetchReadiness, FleetInv, PageInv, DeskOK
  <2> QED
    BY <2>1 DEF Fleet!CallAnswered, Fleet!fetchCredentialStatus, Fleet!kept
<1>2. PICK new, unknown :
        /\ desk' =
             [request |-> desk.request + 1, shown |-> {},
              loading |-> TRUE, status |-> desk.status,
              statusError |-> desk.statusError, busy |-> 0,
              issued |-> new, unknown |-> unknown,
              refreshes |-> desk.refreshes]
        /\ heard => /\ unknown = {} /\ cleared' = cleared \cup desk.unknown
                    /\ calls' = [calls EXCEPT ![i].stage = "heard"]
                    /\ told' = IF calls[i].kind = "issue" THEN told \cup {i} ELSE told
        /\ ~heard => /\ unknown = IF sure THEN desk.unknown ELSE desk.unknown \cup {i}
                     /\ UNCHANGED <<calls, told, cleared>>
  <2>1. DeskOK
    BY DEF FleetInv, PageInv
  <2>2. CASE heard
    <3>1. PICK new : desk' =
             [Fleet!fetchReadiness([desk EXCEPT !.busy = 0]) EXCEPT
                !.unknown = {}, !.issued = new]
      BY <2>2 DEF Fleet!CallAnswered
    <3>2. desk' =
             [request |-> desk.request + 1, shown |-> {},
              loading |-> TRUE, status |-> desk.status,
              statusError |-> desk.statusError, busy |-> 0,
              issued |-> new, unknown |-> {},
              refreshes |-> desk.refreshes]
      BY <2>1, <3>1 DEF Fleet!fetchReadiness, DeskOK
    <3> QED
      BY <2>2, <3>2 DEF Fleet!CallAnswered
  <2>3. CASE ~heard
    <3>1. /\ desk' = IF sure THEN Fleet!fetchReadiness([desk EXCEPT !.busy = 0])
                     ELSE [Fleet!fetchReadiness([desk EXCEPT !.busy = 0]) EXCEPT
                             !.unknown = @ \cup {i}]
          /\ UNCHANGED <<calls, told, cleared>>
      BY <2>3 DEF Fleet!CallAnswered, Fleet!rejection
    <3>2. PICK unknown : unknown = IF sure THEN desk.unknown ELSE desk.unknown \cup {i}
      OBVIOUS
    <3>3. desk' =
             [request |-> desk.request + 1, shown |-> {},
              loading |-> TRUE, status |-> desk.status,
              statusError |-> desk.statusError, busy |-> 0,
              issued |-> desk.issued, unknown |-> unknown,
              refreshes |-> desk.refreshes]
      <4>1. CASE sure
        BY <2>1, <3>1, <3>2, <4>1 DEF Fleet!fetchReadiness, DeskOK
      <4>2. CASE ~sure
        BY <2>1, <3>1, <3>2, <4>2 DEF Fleet!fetchReadiness, DeskOK
      <4> QED
        BY <4>1, <4>2
    <3> QED
      BY <2>3, <3>1, <3>2, <3>3
  <2> QED
    BY <2>2, <2>3
<1>3. i \in 1..MaxCalls /\ CallOK(i) /\ desk.request \in Nat /\ commits \in Nat
      /\ MaxCalls \in Nat
  BY <1>1, FleetAssumption
     DEF FleetInv, PageInv, DeskOK, CallsOK, CacheInv, CountsOK, Fleet!FleetHealthAssumption
<1>4. /\ desk'.request = desk.request + 1 /\ desk'.shown = {} /\ DeskOK'
      /\ desk'.busy = 0 /\ desk'.unknown = unknown
  BY <1>2, <1>3 DEF DeskOK
<1>5. CacheInv'
  <2>1. requested' \subseteq 1..desk'.request
    BY <1>1, <1>3, <1>4 DEF FleetInv, CacheInv, CountsOK
  <2> QED
    BY <1>1, <1>3, <1>4, <2>1, CacheAside DEF FleetInv
<1>6. /\ CallsOK'
      /\ \A j \in 1..MaxCalls : j # i => calls'[j] = calls[j]
      /\ heard => calls'[i] = [stage |-> "heard", kind |-> calls[i].kind, at |-> calls[i].at]
  <2>1. CASE heard
    <3> DEFINE told_i == [calls[i] EXCEPT !.stage = "heard"]
    <3>1. ASSUME NEW x, x = [calls[i] EXCEPT !.stage = "heard"]
          PROVE  /\ x = [stage |-> "heard", kind |-> calls[i].kind, at |-> calls[i].at]
                 /\ x.stage = "heard" /\ x.kind = calls[i].kind /\ x.at = calls[i].at
      BY <1>3, <3>1 DEF CallOK
    <3>2. calls' = [calls EXCEPT ![i] = told_i]
      BY <1>2, <2>1
    <3>3. /\ told_i = [stage |-> told_i.stage, kind |-> told_i.kind, at |-> told_i.at]
          /\ told_i.stage = "heard" /\ told_i.kind = calls[i].kind
          /\ told_i.at = calls[i].at
      BY <3>1
    <3> HIDE DEF told_i
    <3>4. CallsOK'
      BY <1>1, <1>3, <3>2, <3>3 DEF FleetInv, PageInv, CallsOK, CallOK, Stages
    <3>5. /\ calls'[i] = told_i
          /\ \A j \in 1..MaxCalls : j # i => calls'[j] = calls[j]
      BY <1>3, <3>2 DEF FleetInv, PageInv, CallsOK
    <3> QED
      BY <3>3, <3>4, <3>5
  <2>2. CASE ~heard
    BY <1>1, <1>2, <2>2 DEF FleetInv, PageInv, CallsOK, CallOK
  <2> QED
    BY <2>1, <2>2
<1>7. PageInv'
  <2>1. \A r \in readings' : r.page # desk'.request
    BY <1>1, <1>3, <1>4 DEF FleetInv, CacheInv, ReadingOK
  <2> QED
    BY <1>1, <1>4, <1>6, <2>1 DEF PageInv
<1>8. SecretInv'
  <2>1. ASSUME NEW j \in 1..MaxCalls, AtRisk(j)'
        PROVE  j \in Accounted'
    <3>1. AtRisk(j)
      <4>1. CASE heard /\ j = i
        BY <1>6, <2>1, <4>1 DEF AtRisk, Stages
      <4>2. CASE ~heard \/ j # i
        BY <1>2, <1>6, <2>1, <4>2 DEF AtRisk
      <4> QED
        BY <4>1, <4>2
    <3>2. j \in Accounted
      BY <3>1 DEF FleetInv, SecretInv
    <3>3. CASE heard
      BY <1>2, <3>1, <3>2, <3>3 DEF Accounted, AtRisk
    <3>4. CASE ~heard
      <4>1. sure => ~AtRisk(i)
        BY DEF AtRisk
      <4>2. /\ told' = told /\ cleared' = cleared
            /\ desk'.unknown = IF sure THEN desk.unknown ELSE desk.unknown \cup {i}
        BY <1>2, <1>4, <3>4
      <4> HIDE DEF sure
      <4> QED
        BY <3>1, <3>2, <4>1, <4>2 DEF Accounted
    <3> QED
      BY <3>3, <3>4
  <2>2. ASSUME live' # 0
        PROVE  live' \in 1..MaxCalls /\ AtRisk(live)' /\ calls'[live'].stage # "sent"
    <3>1. live \in 1..MaxCalls /\ AtRisk(live) /\ calls[live].stage # "sent" /\ live' = live
      BY <1>1, <2>2 DEF FleetInv, SecretInv
    <3>2. CASE heard /\ live = i
      BY <1>6, <3>1, <3>2 DEF AtRisk, Stages
    <3>3. CASE ~heard \/ live # i
      BY <1>2, <1>6, <3>1, <3>3 DEF AtRisk
    <3> QED
      BY <3>2, <3>3
  <2> QED
    BY <2>1, <2>2 DEF SecretInv
<1> QED
  BY <1>5, <1>7, <1>8 DEF FleetInv

LEMMA DismissInv ==
    ASSUME FleetInv, Fleet!Dismiss
    PROVE  FleetInv'
<1>1. UNCHANGED <<commits, settled, live, calls, cache, generation, newest,
                  readSequence, readings, requested, lookup, told>>
  BY DEF Fleet!Dismiss, Fleet!server, Fleet!kept
<1>2. PICK issued, unknown :
        /\ desk' =
             [request |-> desk.request, shown |-> desk.shown,
              loading |-> desk.loading, status |-> desk.status,
              statusError |-> desk.statusError, busy |-> desk.busy,
              issued |-> issued, unknown |-> unknown,
              refreshes |-> desk.refreshes]
        /\ \/ unknown = desk.unknown /\ UNCHANGED cleared
           \/ cleared' = cleared \cup desk.unknown
  <2>1. CASE desk' = [desk EXCEPT !.issued = 0] /\ UNCHANGED cleared
    BY <2>1 DEF FleetInv, PageInv, DeskOK
  <2>2. CASE desk' = [desk EXCEPT !.unknown = {}]
             /\ cleared' = cleared \cup desk.unknown
    BY <2>2 DEF FleetInv, PageInv, DeskOK
  <2> QED
    BY <2>1, <2>2 DEF Fleet!Dismiss
<1>3. DeskOK' /\ desk'.request = desk.request /\ desk'.shown = desk.shown
      /\ desk'.status = desk.status /\ desk'.statusError = desk.statusError
      /\ desk'.unknown = unknown /\ desk'.busy = desk.busy
  BY <1>2 DEF FleetInv, PageInv, DeskOK
<1>4. CacheInv'
  BY <1>1, <1>3, CacheAside DEF FleetInv, CacheInv, CountsOK
<1>5. CallsOK' /\ \A of : Covers(of)' <=> Covers(of)
  BY <1>1 DEF FleetInv, PageInv, CallsOK, CallOK, Covers
<1>6. PageInv'
  BY <1>1, <1>3, <1>5 DEF FleetInv, PageInv
<1>7. SecretInv'
  BY <1>1, <1>2, <1>3, SecretStays DEF FleetInv, Accounted
<1> QED
  BY <1>4, <1>6, <1>7 DEF FleetInv

LEMMA LaterInv ==
    ASSUME FleetInv, UNCHANGED <<settled, live, calls, cache, generation, newest,
                                 readSequence, readings, requested, lookup, desk, told,
                                 cleared>>,
           commits' = commits \/ commits' = commits + 1
    PROVE  FleetInv'
<1>1. commits \in Nat /\ commits' \in Nat /\ commits' >= commits /\ desk.request \in Nat
      /\ requested \subseteq 1..desk.request
  BY DEF FleetInv, CacheInv, CountsOK
<1>2. CacheInv'
  BY <1>1, CacheAside DEF FleetInv
<1>3. PageInv'
  BY <1>1, PageStays DEF FleetInv
<1>4. SecretInv'
  BY SecretStays DEF FleetInv, Accounted
<1> QED
  BY <1>2, <1>3, <1>4 DEF FleetInv


LEMMA FleetInitInv ==
    ASSUME Fleet!Init
    PROVE  FleetInv
<1>1. /\ commits = 0 /\ settled = 0 /\ live = 0 /\ generation = 0 /\ readSequence = 0
      /\ readings = {} /\ newest = [d \in HealthDates |-> 0] /\ requested = {1}
      /\ lookup = {Fleet!Unread}
      /\ calls = [i \in 1..MaxCalls |-> [stage |-> "none", kind |-> "none", at |-> 0]]
      /\ cache = [entries |-> [d \in {} |-> d], order |-> <<>>, retired |-> 0]
      /\ desk = [request |-> 1, shown |-> {}, loading |-> TRUE,
                 status |-> {}, statusError |-> FALSE, busy |-> 0, issued |-> 0,
                 unknown |-> {}, refreshes |-> 0]
  BY DEF Fleet!Init
<1>2. MaxCalls \in Nat
  BY FleetAssumption DEF Fleet!FleetHealthAssumption
<1>3. DeskOK /\ desk.request = 1 /\ desk.shown = {} /\ desk.busy = 0
  BY <1>1, <1>2 DEF DeskOK
<1>4. CountsOK
  BY <1>1, <1>3 DEF CountsOK
<1>5. /\ cache = [entries |-> cache.entries, order |-> cache.order,
                  retired |-> cache.retired]
      /\ DOMAIN cache.entries = {} /\ cache.retired = 0
  BY <1>1
<1>6. CacheOK(cache)
  BY <1>1, <1>5 DEF CacheOK
<1>7. \A d \in HealthDates : LastKept(cache, d)
  BY <1>1, <1>5 DEF LastKept
<1>8. CacheInv
  BY <1>1, <1>4, <1>6, <1>7 DEF CacheInv
<1>9. CallsOK /\ \A i \in 1..MaxCalls : calls[i].stage = "none"
  <2>1. DOMAIN calls = 1..MaxCalls
    BY <1>1
  <2>2. ASSUME NEW i \in 1..MaxCalls
        PROVE  calls[i] = [stage |-> "none", kind |-> "none", at |-> 0]
    BY <1>1
  <2>3. ASSUME NEW i \in 1..MaxCalls
        PROVE  CallOK(i) /\ calls[i].stage = "none"
    BY <1>1, <2>2 DEF CallOK, Stages
  <2> QED
    BY <2>1, <2>3 DEF CallsOK
<1>10. PageInv
  BY <1>1, <1>3, <1>9 DEF PageInv
<1>11. SecretInv
  BY <1>1, <1>9 DEF SecretInv, AtRisk
<1> QED
  BY <1>8, <1>10, <1>11 DEF FleetInv

LEMMA FleetNextInv ==
    ASSUME FleetInv, Fleet!Next
    PROVE  FleetInv' /\ (newest' = newest \/ \A d \in HealthDates : newest'[d] >= newest[d])
<1>1. ASSUME NEW wanted \in HealthDates, Fleet!GET(wanted)
      PROVE  FleetInv' /\ newest' = newest
  BY <1>1, FleetGETInv DEF Fleet!GET
<1>2. ASSUME NEW place \in requested, Fleet!GETFresh(place)
      PROVE  FleetInv' /\ newest' = newest
  BY <1>2, FleetGETFreshInv DEF Fleet!GETFresh
<1>3. ASSUME NEW r \in readings, Fleet!list(r) \/ Fleet!Failed(r)
      PROVE  FleetInv' /\ newest' = newest
  BY <1>3, listInv, FailedInv DEF Fleet!list, Fleet!Failed, Fleet!kept
<1>4. ASSUME NEW r \in readings, NEW arrives \in BOOLEAN, Fleet!Answered(r, arrives)
      PROVE  FleetInv' /\ \A d \in HealthDates : newest'[d] >= newest[d]
  BY <1>4, FleetAnsweredInv
<1>5. CASE Fleet!LookedUp \/ Fleet!Refresh \/ Fleet!Dismiss
  <2>1. newest' = newest
    BY <1>5 DEF Fleet!LookedUp, Fleet!Refresh, Fleet!Dismiss, Fleet!kept
  <2> QED
    BY <1>5, <2>1, LookedUpInv, FleetRefreshInv, DismissInv
<1>6. ASSUME NEW arrives \in BOOLEAN,
             Fleet!StatusAnswered(arrives) \/ Fleet!CallAnswered(arrives)
      PROVE  FleetInv' /\ newest' = newest
  <2>1. newest' = newest
    BY <1>6 DEF Fleet!StatusAnswered, Fleet!CallAnswered, Fleet!kept
  <2> QED
    BY <1>6, <2>1, StatusAnsweredInv, CallAnsweredInv
<1>7. ASSUME NEW kind, Fleet!manageCredential(kind)
      PROVE  FleetInv' /\ newest' = newest
  BY <1>7, manageCredentialInv DEF Fleet!manageCredential, Fleet!kept
<1>8. ASSUME NEW i \in 1..MaxCalls, Fleet!rotateOrRevoke(i) \/ Fleet!CredentialServed(i)
      PROVE  FleetInv' /\ newest' = newest
  <2>1. newest' = newest
    BY <1>8 DEF Fleet!rotateOrRevoke, Fleet!CredentialServed, Fleet!kept
  <2> QED
    BY <1>8, <2>1, rotateOrRevokeInv, CredentialServedInv
<1>9. ASSUME NEW i \in 1..MaxCalls, NEW stage \in {"failed", "refused"},
             Fleet!CredentialFailed(i, stage)
      PROVE  FleetInv' /\ newest' = newest
  BY <1>9, CredentialFailedInv DEF Fleet!CredentialFailed, Fleet!kept
<1>10. CASE Fleet!Elsewhere \/ Fleet!Later
  <2>1. UNCHANGED <<settled, live, calls, cache, generation, newest,
                    readSequence, readings, requested, lookup, desk, told, cleared>>
    BY <1>10 DEF Fleet!Elsewhere, Fleet!Later, Fleet!kept, Fleet!server
  <2>2. commits' = commits \/ commits' = commits + 1
    BY <1>10 DEF Fleet!Elsewhere, Fleet!Later, Fleet!server
  <2> QED
    BY <2>1, <2>2, LaterInv
<1> QED
  BY <1>1, <1>2, <1>3, <1>4, <1>5, <1>6, <1>7, <1>8, <1>9, <1>10 DEF Fleet!Next

LEMMA FleetStutterInv ==
    ASSUME FleetInv, UNCHANGED fleetVars
    PROVE  FleetInv'
BY LaterInv DEF fleetVars

LEMMA FleetInvHidesNothing ==
    ASSUME FleetInv
    PROVE  Fleet!SettledIsServed /\ Fleet!PageIsCurrent /\ Fleet!SecretAccountedFor
<1>1. Fleet!SettledIsServed
  BY DEF FleetInv, CacheInv, CacheOK, EntryOK, Fleet!SettledIsServed
<1>2. Fleet!PageIsCurrent
  BY DEF FleetInv, PageInv, Covers, Fleet!PageIsCurrent
<1>3. Fleet!SecretAccountedFor
  BY DEF FleetInv, SecretInv, Accounted, Fleet!SecretAccountedFor
<1> QED
  BY <1>1, <1>2, <1>3

-----------------------------------------------------------------------------

\* The verdicts on the same kiosks.
LEMMA DeviceIssues ==
    ASSUME NEW k \in Fleet!Reports
    PROVE  Fleet!getDeviceIssues(k) = {} <=>
             /\ ~(k.told /\ k.camera = "no") /\ ~(k.told /\ k.model = "no")
             /\ ~(k.told /\ k.rejected # "0") /\ ~(k.told /\ k.reason # "")
             /\ k.queue \notin {"pending", "held"} /\ ~k.purge
<1>1. ASSUME NEW issue, NEW here
      PROVE  {i \in {issue} : here} = {} <=> ~here
  OBVIOUS
<1> QED
  BY <1>1 DEF Fleet!getDeviceIssues

Quiet(k) ==
    /\ ~(k.told /\ k.camera = "no") /\ ~(k.told /\ k.model = "no")
    /\ ~(k.told /\ k.rejected # "0") /\ ~(k.told /\ k.reason # "")
    /\ k.queue \notin {"pending", "held"} /\ ~k.purge

Silent(k) == k.last \in {"offline", "never_synced"}

LEMMA BehindOne ==
    ASSUME NEW k, NEW S
    PROVE  Fleet!Behind({k}, S) # {} <=> k.last \in S
BY DEF Fleet!Behind

LEMMA LabelOne ==
    ASSUME NEW k \in Fleet!Reports
    PROVE  Fleet!readinessLabel({k}) = "All kiosks online" <=>
             ~Silent(k) /\ Quiet(k) /\ k.last # "stale"
<1>1. /\ Fleet!Behind({k}, {"offline", "never_synced"}) # {} <=> Silent(k)
      /\ Fleet!Behind({k}, {"stale"}) # {} <=> k.last = "stale"
  BY BehindOne DEF Silent
<1>2. (\E x \in {k} : Fleet!getDeviceIssues(x) # {}) <=> ~Quiet(k)
  BY DeviceIssues DEF Quiet
<1>3. {k} # {}
  OBVIOUS
<1> QED
  BY <1>1, <1>2, <1>3 DEF Fleet!readinessLabel

LEMMA StatusOne ==
    ASSUME NEW k \in Fleet!Reports, NEW face, NEW workers
    PROVE  Fleet!readinessStatus({k}, face, workers) = "ready" <=>
             /\ ~Silent(k) /\ Quiet(k) /\ k.last # "stale"
             /\ face.status = "online" /\ face.model_ready
             /\ workers \notin {"none", "lacking"}
<1>1. /\ Fleet!Behind({k}, {"offline", "never_synced"}) # {} <=> Silent(k)
      /\ Fleet!Behind({k}, {"stale"}) # {} <=> k.last = "stale"
  BY BehindOne DEF Silent
<1>2. (\E x \in {k} : Fleet!getDeviceIssues(x) # {}) <=> ~Quiet(k)
  BY DeviceIssues DEF Quiet
<1>3. {k} # {}
  OBVIOUS
<1> QED
  BY <1>1, <1>2, <1>3 DEF Fleet!readinessStatus

LEMMA WarningsOne ==
    ASSUME NEW k \in Fleet!Reports, NEW face, ~Silent(k), Quiet(k), k.last # "stale",
           face.status = "online", face.model_ready
    PROVE  Fleet!warnings({k}, face) = {}
<1>1. /\ Fleet!Behind({k}, {"offline", "never_synced"}) = {}
      /\ Fleet!Behind({k}, {"stale"}) = {}
  BY BehindOne DEF Silent
<1>2. UNION {Fleet!getDeviceIssues(x) : x \in {k}} = {}
  BY DeviceIssues DEF Quiet
<1>3. ASSUME NEW w
      PROVE  w \notin Fleet!warnings({k}, face)
  <2>1. w \notin UNION {Fleet!getDeviceIssues(x) : x \in {k}}
    BY <1>2
  <2>2. {k} # {}
    OBVIOUS
  <2> QED
    BY <1>1, <2>1, <2>2 DEF Fleet!warnings
<1> QED
  BY <1>3

LEMMA PublicOne ==
    ASSUME NEW k \in Fleet!Reports
    PROVE  Fleet!publicKioskHealth({k}) = "healthy" <=>
             /\ k.last \notin {"stale", "offline", "never_synced"}
             /\ k.told /\ k.recent
             /\ "no" \notin {k.camera, k.model} /\ k.reason = ""
             /\ "1" \notin {k.logs, k.attempts, k.rejected}
             /\ "null" \notin {k.camera, k.model}
<1>1. Fleet!Behind({k}, {"stale", "offline", "never_synced"}) # {} <=>
        k.last \in {"stale", "offline", "never_synced"}
  BY BehindOne
<1> DEFINE counted == {x \in {k} : x.told /\ x.recent}
<1>2. {k} # counted <=> ~(k.told /\ k.recent)
  OBVIOUS
<1>3. k.told /\ k.recent => counted = {k}
  OBVIOUS
<1>4. {k} # {}
  OBVIOUS
<1>5. Fleet!publicKioskHealth({k}) =
        IF \/ {k} = {}
           \/ Fleet!Behind({k}, {"stale", "offline", "never_synced"}) # {}
           \/ {k} # counted
           \/ \E x \in counted :
                 \/ "no" \in {x.camera, x.model} \/ x.reason # ""
                 \/ "1" \in {x.logs, x.attempts, x.rejected}
                 \/ "null" \in {x.camera, x.model}
        THEN "degraded" ELSE "healthy"
  BY DEF Fleet!publicKioskHealth
<1> HIDE DEF counted
<1> QED
  BY <1>1, <1>2, <1>3, <1>4, <1>5

LEMMA FaceOnline ==
    ASSUME NEW answer \in Fleet!FaceAnswers, \A p \in DOMAIN answer : answer[p]
    PROVE  LET face == Fleet!fetchFaceHealth(answer)
           IN face.status = "online" /\ face.model_ready
BY DEF Fleet!fetchFaceHealth, Fleet!FaceAnswers

LEMMA NoKiosks ==
    /\ Fleet!readinessLabel({}) # "All kiosks online"
    /\ \A face, workers : Fleet!readinessStatus({}, face, workers) # "ready"
    /\ Fleet!publicKioskHealth({}) # "healthy"
<1>1. {} = {}
  OBVIOUS
<1>2. Fleet!readinessLabel({}) = "No kiosks registered"
  BY DEF Fleet!readinessLabel
<1>3. \A face, workers : Fleet!readinessStatus({}, face, workers) = "critical"
  BY DEF Fleet!readinessStatus
<1>4. Fleet!publicKioskHealth({}) = "degraded"
  BY DEF Fleet!publicKioskHealth
<1> QED
  BY <1>2, <1>3, <1>4

LEMMA VerdictsDoAgree == Fleet!VerdictsAgree
<1> SUFFICES ASSUME NEW k \in Fleet!Reports, NEW kiosks \in {{}, {k}}
             PROVE
        LET good == Fleet!readinessLabel(kiosks) = "All kiosks online"
        IN /\ \A answer \in Fleet!FaceAnswers, workers \in {"none", "lacking", "enrolled"} :
                 LET face == Fleet!fetchFaceHealth(answer)
                 IN /\ Fleet!readinessStatus(kiosks, face, workers) = "ready" =>
                          good /\ Fleet!warnings(kiosks, face) = {}
                    /\ good /\ workers = "enrolled"
                            /\ (\A p \in DOMAIN answer : answer[p]) =>
                          Fleet!readinessStatus(kiosks, face, workers) = "ready"
           /\ Fleet!publicKioskHealth(kiosks) = "healthy"
                 /\ (\A x \in kiosks : x.queue \in {"clear", "unknown"} /\ ~x.purge) =>
                 good
           /\ good /\ (\A x \in kiosks : x.told /\ x.recent
                             /\ "null" \notin {x.camera, x.model}
                             /\ x.logs # "1" /\ x.attempts = "0") =>
                 Fleet!publicKioskHealth(kiosks) = "healthy"
  BY DEF Fleet!VerdictsAgree
<1>1. CASE kiosks = {}
  BY <1>1, NoKiosks
<1>2. CASE kiosks = {k}
  <2>1. ASSUME NEW answer \in Fleet!FaceAnswers,
               NEW workers \in {"none", "lacking", "enrolled"}
        PROVE  LET face == Fleet!fetchFaceHealth(answer)
                   good == Fleet!readinessLabel({k}) = "All kiosks online"
               IN /\ Fleet!readinessStatus({k}, face, workers) = "ready" =>
                          good /\ Fleet!warnings({k}, face) = {}
                  /\ good /\ workers = "enrolled"
                          /\ (\A p \in DOMAIN answer : answer[p]) =>
                       Fleet!readinessStatus({k}, face, workers) = "ready"
    <3> DEFINE face == Fleet!fetchFaceHealth(answer)
    <3>1. (\A p \in DOMAIN answer : answer[p]) => face.status = "online" /\ face.model_ready
      BY FaceOnline
    <3> HIDE DEF face
    <3>2. Fleet!readinessStatus({k}, face, workers) = "ready" =>
            Fleet!readinessLabel({k}) = "All kiosks online" /\ Fleet!warnings({k}, face) = {}
      BY StatusOne, LabelOne, WarningsOne
    <3>3. Fleet!readinessLabel({k}) = "All kiosks online" /\ workers = "enrolled"
             /\ (\A p \in DOMAIN answer : answer[p]) =>
            Fleet!readinessStatus({k}, face, workers) = "ready"
      <4> SUFFICES ASSUME Fleet!readinessLabel({k}) = "All kiosks online",
                          workers = "enrolled", \A p \in DOMAIN answer : answer[p]
                   PROVE  Fleet!readinessStatus({k}, face, workers) = "ready"
        OBVIOUS
      <4>1. face.status = "online" /\ face.model_ready
        BY <3>1
      <4>2. ~Silent(k) /\ Quiet(k) /\ k.last # "stale"
        BY LabelOne
      <4>3. workers \notin {"none", "lacking"}
        OBVIOUS
      <4> QED
        BY <4>1, <4>2, <4>3, StatusOne
    <3> QED
      BY <3>2, <3>3 DEF face
  <2>2. Fleet!publicKioskHealth({k}) = "healthy" /\ k.queue \in {"clear", "unknown"} /\ ~k.purge =>
          Fleet!readinessLabel({k}) = "All kiosks online"
    <3>1. k.rejected \in {"0", "1"}
      BY DEF Fleet!Reports
    <3>2. /\ ~("no" \in {k.camera, k.model}) => k.camera # "no" /\ k.model # "no"
          /\ ~("1" \in {k.logs, k.attempts, k.rejected}) => k.rejected # "1"
      OBVIOUS
    <3> QED
      BY <3>1, <3>2, PublicOne, LabelOne DEF Quiet, Silent
  <2>3. Fleet!readinessLabel({k}) = "All kiosks online" /\ k.told /\ k.recent
             /\ "null" \notin {k.camera, k.model}
             /\ k.logs # "1" /\ k.attempts = "0" =>
          Fleet!publicKioskHealth({k}) = "healthy"
    BY PublicOne, LabelOne DEF Quiet, Silent
  <2> QED
    BY <1>2, <2>1, <2>2, <2>3
<1> QED
  BY <1>1, <1>2

-----------------------------------------------------------------------------
(* The composition                                                         *)

\* Each page keeps its invariant, whichever of them is open.
PagesInv == HomeInv /\ ExceptionsInv /\ LogInv /\ EnrollInv /\ FleetInv

\* Where the steps of the other pages leave a page as it is.
LEMMA PagesStutter ==
    ASSUME PagesInv
    PROVE  /\ UNCHANGED dashboardVars => HomeInv'
           /\ UNCHANGED vars => ExceptionsInv'
           /\ UNCHANGED logVars => LogInv'
           /\ UNCHANGED enrollVars => EnrollInv'
           /\ UNCHANGED fleetVars => FleetInv'
BY HomeStutterInv, ExceptionsStutterInv, LogStutterInv, EnrollStutterInv,
   FleetStutterInv DEF PagesInv

LEMMA PagesInitInv ==
    ASSUME MCInit
    PROVE  PagesInv
BY HomeInitInv, ExceptionsInitInv, LogInitInv, EnrollInitInv, FleetInitInv
   DEF MCInit, PagesInv

\* A step is one page's own, and the others stutter.
LEMMA OnePageMoves ==
    ASSUME MCNext
    PROVE  \/ Home!Next /\ UNCHANGED <<vars, logVars, enrollVars, fleetVars>>
           \/ Next /\ UNCHANGED <<dashboardVars, logVars, enrollVars, fleetVars>>
           \/ Log!Next /\ UNCHANGED <<vars, dashboardVars, enrollVars, fleetVars>>
           \/ Enroll!Next /\ UNCHANGED <<vars, dashboardVars, logVars, fleetVars>>
           \/ Fleet!Next /\ UNCHANGED <<vars, dashboardVars, logVars, enrollVars>>
BY DEF MCNext

LEMMA PagesStepInv ==
    ASSUME PagesInv, [MCNext]_pageVars
    PROVE  PagesInv'
<1>1. CASE Home!Next /\ UNCHANGED <<vars, logVars, enrollVars, fleetVars>>
  BY <1>1, HomeNextInv, PagesStutter DEF PagesInv
<1>2. CASE Next /\ UNCHANGED <<dashboardVars, logVars, enrollVars, fleetVars>>
  BY <1>2, ExceptionsNextInv, PagesStutter DEF PagesInv
<1>3. CASE Log!Next /\ UNCHANGED <<vars, dashboardVars, enrollVars, fleetVars>>
  BY <1>3, LogNextInv, PagesStutter DEF PagesInv
<1>4. CASE Enroll!Next /\ UNCHANGED <<vars, dashboardVars, logVars, fleetVars>>
  BY <1>4, EnrollNextInv, PagesStutter DEF PagesInv
<1>5. CASE Fleet!Next /\ UNCHANGED <<vars, dashboardVars, logVars, enrollVars>>
  BY <1>5, FleetNextInv, PagesStutter DEF PagesInv
<1>6. CASE UNCHANGED pageVars
  BY <1>6, PagesStutter DEF pageVars, PagesInv
<1> QED
  BY <1>1, <1>2, <1>3, <1>4, <1>5, <1>6, OnePageMoves

LEMMA PagesAlwaysInv == MCSpec => []PagesInv
<1>1. MCInit => PagesInv
  BY PagesInitInv
<1>2. PagesInv /\ [MCNext]_pageVars => PagesInv'
  BY PagesStepInv
<1> QED
  BY <1>1, <1>2, PTL DEF MCSpec

\* No step that fills a page, and none of the kept health, goes back to an older
\* reading.
LEMMA ReadingsStepOn ==
    ASSUME PagesInv, [MCNext]_pageVars
    PROVE  /\ page' = page \/ page'.loading
                \/ (\A s \in Home!Signals : page'.at[s] >= page.at[s])
           /\ UNCHANGED vars
                \/ (\A r \in data, q \in data' : r.date = q.date => r.print <= q.print)
           /\ newest' = newest \/ (\A d \in HealthDates : newest'[d] >= newest[d])
<1>1. /\ UNCHANGED dashboardVars => page' = page
      /\ UNCHANGED fleetVars => newest' = newest
  BY DEF dashboardVars, fleetVars
<1>2. CASE Home!Next /\ UNCHANGED <<vars, logVars, enrollVars, fleetVars>>
  BY <1>1, <1>2, HomeNextInv DEF PagesInv
<1>3. CASE Next /\ UNCHANGED <<dashboardVars, logVars, enrollVars, fleetVars>>
  BY <1>1, <1>3, ShownMovesOn DEF PagesInv
<1>4. CASE Log!Next /\ UNCHANGED <<vars, dashboardVars, enrollVars, fleetVars>>
  BY <1>1, <1>4
<1>5. CASE Enroll!Next /\ UNCHANGED <<vars, dashboardVars, logVars, fleetVars>>
  BY <1>1, <1>5
<1>6. CASE Fleet!Next /\ UNCHANGED <<vars, dashboardVars, logVars, enrollVars>>
  BY <1>1, <1>6, FleetNextInv DEF PagesInv
<1>7. CASE UNCHANGED pageVars
  BY <1>1, <1>7 DEF pageVars
<1> QED
  BY <1>2, <1>3, <1>4, <1>5, <1>6, <1>7, OnePageMoves

\* A page that overtook its own reads shows the later answer: on the dashboard,
\* which a batch of requests fills and a slower one may answer after it
\* (src/src/app/page.tsx); on the exceptions page; and in the health of the kiosks
\* that the portal keeps for all who ask (src/src/lib/system-health-cache.ts).
THEOREM ReadingsAlwaysMoveOn == MCSpec => ReadingsMoveOn
<1>1. PagesInv /\ [MCNext]_pageVars =>
        [page'.loading \/ \A s \in Home!Signals : page'.at[s] >= page.at[s]]_page
  BY ReadingsStepOn
<1>2. PagesInv /\ [MCNext]_pageVars =>
        [\A r \in data, q \in data' : r.date = q.date => r.print <= q.print]_vars
  BY ReadingsStepOn
<1>3. PagesInv /\ [MCNext]_pageVars =>
        [\A d \in HealthDates : newest'[d] >= newest[d]]_Fleet!vars
  <2> SUFFICES ASSUME PagesInv, [MCNext]_pageVars, newest' = newest
               PROVE  \A d \in HealthDates : newest'[d] >= newest[d]
    BY ReadingsStepOn
  <2>1. \A d \in HealthDates : newest[d] \in Nat
    BY DEF PagesInv, FleetInv, CacheInv, CountsOK
  <2> QED
    BY <2>1
<1> QED
  BY <1>1, <1>2, <1>3, PagesAlwaysInv, PTL
     DEF MCSpec, ReadingsMoveOn, Home!NewestStays, ShownIsLatest, Fleet!OrderKept

\* The dashboard is clear only while all of it was read and nothing is open; what
\* counts as seen is what was opened; the kiosks page and the kept health have every
\* change that was answered, and a credential that could not be shown is told of;
\* and no two verdicts on the same kiosks disagree.
THEOREM NothingStaysHidden == MCSpec => []NothingHidden
<1>1. PagesInv => NothingHidden
  BY HomeInvHidesNothing, FleetInvHidesNothing, VerdictsDoAgree DEF PagesInv, NothingHidden
<1> QED
  BY <1>1, PagesAlwaysInv, PTL

\* What is typed for an exception and was not saved stays where it was typed, as
\* long as every link to the page names a day: without one, the page follows the
\* current day and midnight takes the note away.
THEOREM TypedStaysKept ==
    ASSUME {} \notin Links
    PROVE  MCSpec => []TypedIsKept
<1>1. MCInit => NoteInv
  BY NoteInitInv DEF MCInit
<1>2. PagesInv /\ NoteInv /\ [MCNext]_pageVars => NoteInv'
  <2>1. PagesInv /\ NoteInv /\ Next => NoteInv'
    BY NoteNextInv DEF PagesInv
  <2>2. NoteInv /\ UNCHANGED vars => NoteInv'
    BY NoteStutterInv
  <2>3. UNCHANGED pageVars => UNCHANGED vars
    BY DEF pageVars
  <2> QED
    BY <2>1, <2>2, <2>3, OnePageMoves
<1>3. NoteInv => TypedIsKept
  BY DEF NoteInv
<1> QED
  BY <1>1, <1>2, <1>3, PagesAlwaysInv, PTL DEF MCSpec

\* A correction is applied to the evidence that it was decided on, although its
\* request may be given up and arrive late, and the log never has a second request
\* under way while the outcome of one is unknown.
THEOREM CorrectionsApplyAsMeant == MCSpec => []CorrectionsAsMeant
<1>1. PagesInv => CorrectionsAsMeant
  BY LogInvOneUnconfirmed DEF PagesInv, ExceptionsInv, CorrectionsAsMeant
<1> QED
  BY <1>1, PagesAlwaysInv, PTL

\* The face that is stored is of the worker who agreed to it and not long ago, an
\* enrollment is done only if it was saved under the consent on the screen, and a
\* worker who was edited after the consent is not enrolled over.
THEOREM EnrollmentsAsAgreed == MCSpec => []EnrolledAsAgreed
<1>1. PagesInv => EnrolledAsAgreed
  BY DEF PagesInv, EnrollInv, SavedAsAgreed, OnScreen, EnrolledAsAgreed,
         Enroll!DoneIsSaved
<1> QED
  BY <1>1, PagesAlwaysInv, PTL
=============================================================================

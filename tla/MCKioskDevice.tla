---------------------------- MODULE MCKioskDevice ----------------------------
(***************************************************************************)
(* A kiosk: its camera loop with two workers who may change places at any  *)
(* frame; or the history of one person, with ages of nothing and of too    *)
(* long; or what its recognizer decided about three faces, uploaded and    *)
(* reviewed; or the page that lists such attempts.  The parts share no     *)
(* state: a behaviour is about one of them and the others stay in their    *)
(* initial state.                                                          *)
(***************************************************************************)
EXTENDS ScanPipeline, TLC

CONSTANTS w1, w2,
          p, People, KioskType, MaxEvents, MaxLocal, MaxFaces, MaxWall,
          Retention, StaleAfter,
          Decisions, Unkeyed, Notes, MaxResets, MaxLate, MaxReviews, Reviewed,
          Attempted, Stored, Labelled, Filters, ReadLimit, FewShown, MaxNews,
          MaxMoves

VARIABLES part,
          wall, enrolled, workers, locals, log, events, scan, history,
          release, recorded, rowOf, lastRow, aged, queue, lost, resets, late, rows,
          explicit, time, expected,
          table, backend, news, url, target, date, filter, window, payload, patch, moves,
          kept, offered

historyVars == <<wall, enrolled, workers, locals, log, events, scan, history>>
attemptVars == <<release, recorded, rowOf, lastRow, aged, queue, lost, resets, late,
                 rows, explicit, time, expected>>
labVars == <<table, backend, news, url, target, date, filter, window, payload, patch,
             moves, kept, offered>>

History == INSTANCE ClockAction
Attempts == INSTANCE RecognitionReviews
Lab == INSTANCE RecognitionLab

ASSUME HistoryAssumption == History!ClockActionAssumption
ASSUME AttemptsAssumption == Attempts!RecognitionReviewsAssumption
ASSUME LabAssumption == Lab!RecognitionLabAssumption

\* A safe acceptance, a near miss and an acceptance by a low margin.
MCDecisions == <<[decision |-> "accepted", low |-> FALSE],
                 [decision |-> "near_miss", low |-> FALSE],
                 [decision |-> "accepted", low |-> TRUE]>>

\* Around midnight, the second and third stored in the other order than they were
\* made; the fourth arrives later.
MCAttempted == <<[decision |-> "accepted", low |-> FALSE, day |-> 1, at |-> 1],
                 [decision |-> "near_miss", low |-> FALSE, day |-> 2, at |-> 3],
                 [decision |-> "accepted", low |-> TRUE, day |-> 1, at |-> 2],
                 [decision |-> "accepted", low |-> FALSE, day |-> 2, at |-> 4]>>
MCFilters ==
    {[decision |-> "all", status |-> s] : s \in {"all", "unreviewed", "confirmed"}}
    \cup {[decision |-> "accepted", status |-> "all"]}

MCInit ==
    /\ part \in {"scan", "history", "attempts", "lab"}
    /\ Init
    /\ part # "scan" => ~LivenessRequired
    /\ History!Init
    /\ Attempts!Init
    /\ Lab!Init
    /\ part # "lab" => url.target = 1 /\ backend = "array"

MCNext ==
    \/ /\ part = "scan"
       /\ Next
       /\ UNCHANGED <<part, historyVars, attemptVars, labVars>>
    \/ /\ part = "history"
       /\ History!Next
       /\ UNCHANGED <<part, vars, attemptVars, labVars>>
    \/ /\ part = "attempts"
       /\ Attempts!Next
       /\ UNCHANGED <<part, vars, historyVars, labVars>>
    \/ /\ part = "lab"
       /\ Lab!Next
       /\ UNCHANGED <<part, vars, historyVars, attemptVars>>

MCSpec == MCInit /\ [][MCNext]_<<part, vars, historyVars, attemptVars, labVars>>

Symmetry == Permutations({w1, w2})

\* ScanPipeline: attested attendance, and once.
ScansAreJust == Attested /\ NoDoubleScan

\* ClockAction.
\* Directions follow from the person's last event, and no exit is repeated.
DirectionsFollow ==
    [](part = "history" => History!LastKnown) /\ History!NoRepeatedOut

\* RecognitionReviews.
EvidenceOnce == part = "attempts" => Attempts!EvidenceOnce
\* RecognitionLab: what supervisors are shown of attempts and reviews is true.
ReviewsAreShown ==
    /\ part = "attempts" => Attempts!LatestReviewWins
    /\ part = "lab" => Lab!LabIsHonest
=============================================================================

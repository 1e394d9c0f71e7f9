------------------------ MODULE MCKioskDevice_proofs ------------------------
(***************************************************************************)
(* A kiosk's scans, directions and recognition attempts, for any number of *)
(* workers, people, frames, attempts and faults.                           *)
(***************************************************************************)
EXTENDS MCKioskDevice, FiniteSetTheorems, SequenceTheorems, NaturalsInduction,
        WellFoundedInduction, TLAPS

-----------------------------------------------------------------------------
(* The camera loop.                                                        *)

LEMMA ScanConstants ==
    /\ Nobody \notin Workers
    /\ MaxAge \in Nat /\ Wait \in Nat /\ Debounce \in Nat
    /\ Hold \in Nat /\ MaxTime \in Nat /\ MaxFaults \in Nat
BY ConstantsAssumption

\* Eyes that closed and opened, in this order, on frames up to some time.
Blinked == \E f, g \in blinkers : f.closed /\ ~g.closed /\ f.ts < g.ts

\* What advanced the blink shows one worker in one run of the camera.
ShowOnly(w) == \A f \in blinkers : f.face = w /\ f.gen = camera_generation

\* The frame in hand is the latest one, nobody was clocked later, and each fault
\* begins another run of the camera.
InTime ==
    /\ camera_generation = faults
    /\ step = "decide" => frame.gen = camera_generation /\ frame.ts = now
    /\ \A w \in Workers : clocked[w] <= now

\* A verification is of one worker who was not clocked lately; its blink is
\* complete, and older than the confirmation, when it is confirmed.
BlinkOK ==
    pending # NoClock =>
        /\ pending.worker \in Workers
        /\ ~Recent(clocked[pending.worker])
        /\ ShowOnly(pending.worker)
        /\ \A f \in blinkers : f.ts <= now /\ (step = "decide" => f.ts < now)
        /\ ~pending.confirmed => \A f \in blinkers : f.closed
        /\ pending.confirmed => Blinked /\ \A f \in blinkers : f.ts <= pending.at

\* What is about to be written was verified if it had to be.
WriteOK ==
    step = "write" =>
        /\ writing.worker \in Workers
        /\ ~Recent(clocked[writing.worker])
        /\ LivenessRequired =>
              /\ Blinked /\ ShowOnly(writing.worker)
              /\ \A f \in blinkers : f.ts < writing.ts

ScanInv == TypeOK /\ InTime /\ BlinkOK /\ WriteOK

LEMMA ScanInitInv ==
    ASSUME Init
    PROVE  ScanInv
<1>1. TypeOK
  BY ScanConstants
     DEF Init, TypeOK, Frames, NoFrame, Results, NoResult, NoClock, Faces
<1>2. InTime /\ BlinkOK /\ WriteOK
  BY ScanConstants DEF Init, InTime, BlinkOK, WriteOK
<1> QED
  BY <1>1, <1>2 DEF ScanInv

\* Times and generations are numbers.
LEMMA ScanFacts ==
    ASSUME TypeOK
    PROVE  /\ now \in Nat /\ camera_generation \in Nat /\ invalidatedAt \in Nat
           /\ displayUntil \in Nat /\ faults \in Nat
           /\ \A w \in Workers : clocked[w] \in Nat /\ last_clocks[w] \in Nat
           /\ \A f \in blinkers : f.ts \in Nat /\ f.closed \in BOOLEAN
           /\ frame.ts \in Nat /\ frame.closed \in BOOLEAN
           /\ pending.deadline \in Nat /\ pending.at \in Nat
           /\ pending.confirmed \in BOOLEAN
           /\ writing.ts \in Nat /\ current_result.ts \in Nat
BY ScanConstants DEF TypeOK, Frames, Results

LEMMA ConsumedType ==
    ASSUME TypeOK
    PROVE  Consumed \in Results
BY ScanConstants DEF TypeOK, Consumed, NoResult, Results, Faces

LEMMA DetectorInv ==
    ASSUME ScanInv, DetectorNext
    PROVE  ScanInv'
<1>1. UNCHANGED <<clockVars, loopVars, livenessVars, faults, camera_generation>>
  BY DEF DetectorNext, TakeFrame, Match, publish_detection, DetectionError, sharedVars
<1>2. /\ pending_frame' \in Frames /\ taken' \in Frames
      /\ current_result' \in Results /\ found' \in Results
  <2>1. /\ pending_frame \in Frames /\ taken \in Frames
        /\ current_result \in Results /\ found \in Results
        /\ NoFrame \in Frames /\ NoResult \in Results
    BY ScanConstants
       DEF ScanInv, TypeOK, NoFrame, NoResult, Frames, Results, Faces
  <2>2. CASE TakeFrame
    BY <2>1, <2>2 DEF TakeFrame
  <2>3. CASE Match
    BY <2>1, <2>3 DEF Match, sharedVars, Frames, Results, Faces
  <2>4. CASE publish_detection
    BY <2>1, <2>4 DEF publish_detection
  <2>5. CASE DetectionError
    BY <2>1, <2>5 DEF DetectionError
  <2> QED
    BY <2>2, <2>3, <2>4, <2>5 DEF DetectorNext
<1>3. TypeOK'
  BY <1>1, <1>2 DEF ScanInv, TypeOK, clockVars, loopVars, livenessVars
<1>4. InTime' /\ BlinkOK' /\ WriteOK'
  BY <1>1
     DEF ScanInv, InTime, BlinkOK, WriteOK, Blinked, ShowOnly, Recent, clockVars,
         loopVars, livenessVars
<1> QED
  BY <1>3, <1>4 DEF ScanInv

LEMMA TypedPending ==
    ASSUME TypeOK
    PROVE  /\ NoClock \in [worker : Faces, gen : 0..MaxFaults, deadline : 0..(now + Wait),
                           confirmed : BOOLEAN, at : 0..MaxTime]
           /\ pending \in [worker : Faces, gen : 0..MaxFaults, deadline : 0..(now + Wait),
                           confirmed : BOOLEAN, at : 0..MaxTime]
           /\ writing \in Results /\ checker \in BOOLEAN
           /\ blinkers \subseteq Frames /\ frame \in Frames
BY ScanConstants DEF TypeOK, NoClock, Faces

LEMMA LongerWait ==
    ASSUME NEW m \in Nat, NEW n \in Nat, m <= n,
           NEW clock \in [worker : Faces, gen : 0..MaxFaults, deadline : 0..m,
                          confirmed : BOOLEAN, at : 0..MaxTime]
    PROVE  clock \in [worker : Faces, gen : 0..MaxFaults, deadline : 0..n,
                      confirmed : BOOLEAN, at : 0..MaxTime]
<1>1. 0..m \subseteq 0..n
  OBVIOUS
<1> QED
  BY <1>1

LEMMA CaptureInv ==
    ASSUME ScanInv, NEW face \in Faces, NEW closed \in BOOLEAN, Capture(face, closed)
    PROVE  ScanInv'
<1>1. /\ step = "capture" /\ step' = "decide"
      /\ now < MaxTime /\ now' = now + 1
      /\ frame' = [face |-> face, closed |-> closed, ts |-> now + 1,
                   gen |-> camera_generation]
      /\ pending_frame' = frame'
      /\ pending' \in {pending, NoClock}
      /\ current_result' \in {current_result, NoResult}
      /\ sawChecker' = checker
      /\ UNCHANGED <<clocked, last_clocks, camera_generation, taken, found, writing,
                     invalidatedAt, displayUntil, LivenessRequired, checker, blinkers,
                     faults>>
  BY DEF Capture, clockVars, detectorVars
<1>2. frame' \in Frames /\ now' \in 0..MaxTime
  BY <1>1, ScanConstants, ScanFacts DEF ScanInv, TypeOK, Frames
<1>3. pending' \in [worker : Faces, gen : 0..MaxFaults, deadline : 0..(now' + Wait),
                    confirmed : BOOLEAN, at : 0..MaxTime]
  <2>1. now + 1 + Wait \in Nat /\ now' = now + 1 /\ now + Wait <= now + 1 + Wait
    BY <1>1, ScanConstants, ScanFacts DEF ScanInv
  <2>2. CASE pending' = NoClock
    BY <2>1, <2>2, ScanConstants DEF NoClock, Faces
  <2>3. CASE pending' = pending
    BY <2>1, <2>3, LongerWait, TypedPending, ScanConstants, ScanFacts DEF ScanInv
  <2> QED
    BY <1>1, <2>2, <2>3
<1>4. current_result' \in Results
  BY <1>1, ScanConstants DEF ScanInv, TypeOK, Results, NoResult, Faces
<1>5. TypeOK'
  BY <1>1, <1>2, <1>3, <1>4 DEF ScanInv, TypeOK
<1>6. InTime'
  BY <1>1, ScanFacts DEF ScanInv, InTime
<1>7. BlinkOK'
  <2> SUFFICES ASSUME pending' # NoClock
               PROVE  BlinkOK'
    BY DEF BlinkOK
  <2>1. pending' = pending
    BY <1>1
  <2>2. ~Recent(clocked[pending.worker])'
    BY <1>1, <2>1, ScanConstants, ScanFacts DEF ScanInv, BlinkOK, Recent
  <2>3. \A f \in blinkers : f.ts < now'
    BY <1>1, <2>1, ScanFacts DEF ScanInv, BlinkOK
  <2> QED
    BY <1>1, <2>1, <2>2, <2>3, ScanFacts DEF ScanInv, BlinkOK, ShowOnly, Blinked
<1>8. WriteOK'
  BY <1>1 DEF WriteOK
<1> QED
  BY <1>5, <1>6, <1>7, <1>8 DEF ScanInv

\* Whatever ends the attempt and waits for the next frame.
LEMMA GivenUpInv ==
    ASSUME ScanInv, TypeOK', step' = "capture", pending' = NoClock,
           \A w \in Workers : clocked'[w] <= now', camera_generation' = faults'
    PROVE  ScanInv'
BY DEF ScanInv, InTime, BlinkOK, WriteOK

\* The decisions change neither the time nor what was clocked.
LEMMA DecisionType ==
    ASSUME TypeOK,
           UNCHANGED <<clockVars, pending_frame, camera_generation, detectorVars, now,
                       invalidatedAt, LivenessRequired, sawChecker, faults>>,
           current_result' = NoResult, frame' = NoFrame,
           step' \in {"capture", "write"},
           writing' \in Results,
           checker' \in BOOLEAN,
           displayUntil' \in {displayUntil, now + Hold, 0},
           pending' \in [worker : Faces, gen : 0..MaxFaults, deadline : 0..(now + Wait),
                         confirmed : BOOLEAN, at : 0..MaxTime],
           blinkers' \subseteq Frames
    PROVE  TypeOK'
<1>1. NoFrame \in Frames /\ NoResult \in Results
  BY ScanConstants DEF NoFrame, NoResult, Frames, Results, Faces
<1>2. displayUntil' \in 0..(MaxTime + Hold)
  BY ScanConstants DEF TypeOK
<1> QED
  BY <1>1, <1>2 DEF TypeOK, clockVars, detectorVars

\* Decisions that write nothing and leave what is pending, or end it.
LEMMA DecisionInv ==
    ASSUME ScanInv, Deciding,
           UNCHANGED <<clockVars, pending_frame, camera_generation, detectorVars, now,
                       invalidatedAt, LivenessRequired, sawChecker, faults>>,
           current_result' = NoResult, NextRound,
           writing' = writing,
           checker' \in BOOLEAN,
           displayUntil' \in {displayUntil, now + Hold, 0},
           \/ pending' = NoClock /\ blinkers' \in {blinkers, {}}
           \/ pending' = pending /\ blinkers' = blinkers
           \/ pending' = pending /\ blinkers' = {} /\ ~pending.confirmed
    PROVE  ScanInv'
<1>1. /\ step = "decide" /\ step' = "capture" /\ frame' = NoFrame
      /\ UNCHANGED <<clocked, now, camera_generation>>
  BY DEF Deciding, NextRound, Finish, clockVars
<1>2. blinkers' \subseteq Frames
  BY TypedPending DEF ScanInv
<1>3. TypeOK'
  BY <1>1, <1>2, DecisionType, TypedPending DEF ScanInv
<1>4. InTime' /\ WriteOK'
  BY <1>1 DEF ScanInv, InTime, WriteOK
<1>5. BlinkOK'
  <2>1. CASE pending' = NoClock
    BY <2>1 DEF BlinkOK
  <2>2. CASE pending' = pending /\ blinkers' = blinkers
    BY <1>1, <2>2, ScanFacts DEF ScanInv, BlinkOK, Recent, ShowOnly, Blinked
  <2>3. CASE pending' = pending /\ blinkers' = {} /\ ~pending.confirmed
    BY <1>1, <2>3 DEF ScanInv, BlinkOK, Recent, ShowOnly
  <2> QED
    BY <2>1, <2>2, <2>3
<1> QED
  BY <1>3, <1>4, <1>5 DEF ScanInv

LEMMA SpentInv ==
    ASSUME ScanInv, Skip \/ Interrupted \/ CheckerFails \/ Repeat \/ NoMatch
    PROVE  ScanInv'
<1> USE DEF livenessVars
<1>1. CASE Skip
  BY <1>1, DecisionInv, TypedPending DEF ScanInv, Skip
<1>2. CASE Interrupted
  BY <1>2, DecisionInv, TypedPending DEF ScanInv, Interrupted, Active, ResetBlink
<1>3. CASE CheckerFails
  BY <1>3, DecisionInv DEF CheckerFails, Verifying, Active, ResetBlink
<1>4. CASE Repeat
  BY <1>4, DecisionInv, TypedPending DEF ScanInv, Repeat, Recognized, Active
<1>5. CASE NoMatch
  BY <1>5, DecisionInv, TypedPending DEF ScanInv, NoMatch, Active
<1> QED
  BY <1>1, <1>2, <1>3, <1>4, <1>5

LEMMA AwaitBlinkInv ==
    ASSUME ScanInv, AwaitBlink
    PROVE  ScanInv'
<1>1. /\ Deciding /\ pending # NoClock /\ ~pending.confirmed
      /\ step = "decide" /\ step' = "capture" /\ frame' = NoFrame
      /\ current_result' = NoResult /\ NextRound
      /\ UNCHANGED <<clockVars, pending_frame, camera_generation, detectorVars, now,
                     writing, invalidatedAt, displayUntil, LivenessRequired, checker,
                     sawChecker, faults>>
  BY DEF AwaitBlink, Verifying, Active, Deciding, NextRound, Finish
<1>2. CASE ResetBlink /\ UNCHANGED pending
  BY <1>1, <1>2, DecisionInv, TypedPending DEF ScanInv, ResetBlink
<1>3. CASE /\ frame_matches_pending /\ frame.closed
           /\ \E earlier \in {blinkers, {}} : blinkers' = earlier \cup {frame}
           /\ UNCHANGED pending
  <2>1. /\ frame \in blinkers' /\ frame \in Frames
        /\ \A f \in blinkers' : f \in blinkers \/ f = frame
    BY <1>3, TypedPending DEF ScanInv
  <2>2. blinkers' \subseteq Frames
    BY <2>1, TypedPending DEF ScanInv
  <2>3. TypeOK'
    BY <1>1, <1>3, <2>2, DecisionType, TypedPending DEF ScanInv
  <2>4. InTime' /\ WriteOK'
    BY <1>1 DEF ScanInv, InTime, WriteOK, clockVars
  <2>5. \A f \in blinkers' :
           f.face = pending.worker /\ f.gen = camera_generation /\ f.ts <= now /\ f.closed
    BY <1>1, <1>3, <2>1, ScanFacts
       DEF ScanInv, InTime, BlinkOK, ShowOnly, frame_matches_pending
  <2>6. BlinkOK'
    BY <1>1, <1>3, <2>5 DEF ScanInv, BlinkOK, ShowOnly, Recent, clockVars
  <2> QED
    BY <2>3, <2>4, <2>6 DEF ScanInv
<1>4. CASE /\ frame_matches_pending /\ ~frame.closed /\ blinkers # {}
           /\ blinkers' = blinkers \cup {frame}
           /\ Confirm
  <2>1. /\ frame \in blinkers' /\ frame \in Frames
        /\ \A f \in blinkers' : f \in blinkers \/ f = frame
    BY <1>4, TypedPending DEF ScanInv
  <2>2. blinkers' \subseteq Frames
    BY <2>1, TypedPending DEF ScanInv
  <2>3. Extended(pending.deadline) \in 0..(now + Wait)
    BY ScanConstants, ScanFacts DEF ScanInv, TypeOK, Extended
  <2>4. pending' \in [worker : Faces, gen : 0..MaxFaults, deadline : 0..(now + Wait),
                      confirmed : BOOLEAN, at : 0..MaxTime]
    BY <1>4, <2>3, TypedPending, ScanFacts DEF ScanInv, TypeOK, Confirm
  <2>5. pending'.worker = pending.worker /\ pending'.confirmed /\ pending'.at = now
    BY <1>4, TypedPending DEF ScanInv, Confirm
  <2>6. TypeOK'
    BY <1>1, <2>2, <2>4, DecisionType, TypedPending DEF ScanInv
  <2>7. InTime' /\ WriteOK'
    BY <1>1 DEF ScanInv, InTime, WriteOK, clockVars
  <2>8. \A f \in blinkers' :
           f.face = pending.worker /\ f.gen = camera_generation /\ f.ts <= now
    BY <1>1, <1>4, <2>1, ScanFacts
       DEF ScanInv, InTime, BlinkOK, ShowOnly, frame_matches_pending
  <2>9. Blinked'
    <3>1. PICK f \in blinkers : TRUE
      BY <1>4
    <3>2. f.closed /\ f.ts < now /\ frame.ts = now
      BY <1>1, <3>1 DEF ScanInv, InTime, BlinkOK
    <3>3. f \in blinkers' /\ frame \in blinkers'
      BY <1>4
    <3> QED
      BY <1>4, <3>2, <3>3 DEF Blinked
  <2>10. BlinkOK'
    BY <1>1, <2>5, <2>8, <2>9 DEF ScanInv, BlinkOK, ShowOnly, Recent, clockVars
  <2> QED
    BY <2>6, <2>7, <2>10 DEF ScanInv
<1> QED
  BY <1>2, <1>3, <1>4 DEF AwaitBlink

LEMMA AwaitConfirmationInv ==
    ASSUME ScanInv, AwaitConfirmation
    PROVE  ScanInv'
<1>1. /\ Deciding /\ pending # NoClock /\ pending.confirmed
      /\ current_result' = NoResult
      /\ UNCHANGED <<clockVars, pending_frame, camera_generation, detectorVars, now,
                     pending, invalidatedAt, displayUntil, livenessVars, faults>>
  BY DEF AwaitConfirmation, Verifying, Active
<1>2. CASE ~AfterBlink(Consumed) /\ NextRound /\ UNCHANGED writing
  BY <1>1, <1>2, DecisionInv, TypedPending DEF ScanInv, livenessVars
<1>3. CASE AfterBlink(Consumed) /\ writing' = Consumed /\ Finish("write")
  <2>1. /\ Consumed \in Results /\ Consumed # NoResult
        /\ Consumed.worker = pending.worker /\ Consumed.ts > pending.at
    BY <1>3, ConsumedType
       DEF ScanInv, AwaitConfirmation, AfterBlink, Verifying, IdentityChanged
  <2>2. /\ step' = "write" /\ frame' = NoFrame
        /\ UNCHANGED <<now, clocked, blinkers, camera_generation, pending>>
    BY <1>1, <1>3 DEF Finish, clockVars, livenessVars
  <2>3. TypeOK'
    BY <1>1, <1>3, <2>1, <2>2, DecisionType, TypedPending DEF ScanInv, livenessVars
  <2>4. InTime'
    BY <1>1, <2>2 DEF ScanInv, InTime
  <2>5. BlinkOK'
    BY <1>1, <2>2, ScanFacts DEF ScanInv, BlinkOK, ShowOnly, Recent, Blinked
  <2>6. /\ pending.worker \in Workers /\ ~Recent(clocked[pending.worker])
        /\ Blinked /\ ShowOnly(pending.worker)
        /\ \A f \in blinkers : f.ts <= pending.at
    BY <1>1 DEF ScanInv, BlinkOK
  <2>7. \A f \in blinkers : f.ts < Consumed.ts
    BY <2>1, <2>6, ScanFacts DEF ScanInv, Results
  <2>8. WriteOK'
    BY <1>3, <2>1, <2>2, <2>6, <2>7 DEF WriteOK, Recent, Blinked, ShowOnly
  <2> QED
    BY <2>3, <2>4, <2>5, <2>8 DEF ScanInv
<1> QED
  BY <1>2, <1>3 DEF AwaitConfirmation

LEMMA StartInv ==
    ASSUME ScanInv, StartBlink \/ ScanWithoutBlink
    PROVE  ScanInv'
<1>1. /\ Consumed \in Results /\ Consumed.worker \in Workers
      /\ step = "decide" /\ current_result' = NoResult
      /\ pending = NoClock
      /\ ~Recent(clocked[Consumed.worker])
  BY ConsumedType
     DEF ScanInv, StartBlink, ScanWithoutBlink, Recognized, Active, Deciding, Results,
         Faces, RecentlyClocked
<1>2. CASE StartBlink
  <2>1. /\ pending' = [worker |-> Consumed.worker, gen |-> camera_generation,
                       deadline |-> now + Wait, confirmed |-> FALSE, at |-> 0]
        /\ blinkers' = {} /\ step' = "capture" /\ frame' = NoFrame
        /\ UNCHANGED <<clockVars, pending_frame, camera_generation, detectorVars, now,
                       writing, invalidatedAt, displayUntil, LivenessRequired, checker,
                       sawChecker, faults>>
    BY <1>2 DEF StartBlink, ResetBlink, NextRound, Finish
  <2>2. pending' \in [worker : Faces, gen : 0..MaxFaults, deadline : 0..(now + Wait),
                      confirmed : BOOLEAN, at : 0..MaxTime]
    BY <1>1, <2>1, ScanConstants, ScanFacts DEF ScanInv, TypeOK, Faces
  <2>3. TypeOK'
    BY <1>1, <2>1, <2>2, DecisionType, TypedPending DEF ScanInv
  <2>4. InTime' /\ WriteOK'
    BY <2>1 DEF ScanInv, InTime, WriteOK, clockVars
  <2>5. BlinkOK'
    BY <1>1, <2>1 DEF BlinkOK, ShowOnly, Recent, clockVars
  <2> QED
    BY <2>3, <2>4, <2>5 DEF ScanInv
<1>3. CASE ScanWithoutBlink
  <2>1. /\ ~LivenessRequired /\ writing' = Consumed
        /\ step' = "write" /\ frame' = NoFrame
        /\ UNCHANGED <<clockVars, pending_frame, camera_generation, detectorVars, now,
                       pending, invalidatedAt, displayUntil, livenessVars, faults>>
    BY <1>3 DEF ScanWithoutBlink, Finish
  <2>2. TypeOK'
    BY <1>1, <2>1, DecisionType, TypedPending DEF ScanInv, livenessVars
  <2>3. InTime' /\ BlinkOK'
    BY <1>1, <2>1 DEF ScanInv, InTime, BlinkOK, clockVars
  <2>4. WriteOK'
    BY <1>1, <2>1 DEF WriteOK, Recent, clockVars, livenessVars
  <2> QED
    BY <2>2, <2>3, <2>4 DEF ScanInv
<1> QED
  BY <1>2, <1>3

LEMMA RecordInv ==
    ASSUME ScanInv, record_clock
    PROVE  ScanInv'
<1>1. /\ step = "write" /\ pending' = NoClock /\ writing' = NoResult
      /\ blinkers' = {} /\ displayUntil' = now + Hold
      /\ step' = "capture" /\ frame' = NoFrame
      /\ UNCHANGED <<pending_frame, current_result, camera_generation, taken, found, now,
                     invalidatedAt, LivenessRequired, checker, sawChecker, faults>>
  BY DEF record_clock, NextRound, Finish, ResetBlink, sharedVars, detectorVars
<1>2. /\ clocked' \in [Workers -> 0..MaxTime] /\ last_clocks' \in [Workers -> 0..MaxTime]
      /\ \A w \in Workers : clocked'[w] <= now
  <2>1. writing.worker \in Workers /\ now \in 0..MaxTime /\ now <= now
    BY <1>1 DEF ScanInv, WriteOK, TypeOK
  <2>2. CASE UNCHANGED clockVars
    BY <2>2 DEF ScanInv, TypeOK, InTime, clockVars
  <2>3. CASE /\ clocked' = [clocked EXCEPT ![writing.worker] = now]
             /\ last_clocks' = [last_clocks EXCEPT ![writing.worker] = now]
    BY <2>1, <2>3 DEF ScanInv, TypeOK, InTime
  <2> QED
    BY <2>2, <2>3 DEF record_clock
<1>3. /\ NoFrame \in Frames /\ NoResult \in Results
      /\ displayUntil' \in 0..(MaxTime + Hold)
  BY <1>1, ScanConstants
     DEF ScanInv, TypeOK, NoFrame, NoResult, Frames, Results, Faces
<1>4. TypeOK'
  BY <1>1, <1>2, <1>3, TypedPending DEF ScanInv, TypeOK
<1> QED
  BY <1>1, <1>2, <1>4, GivenUpInv DEF ScanInv, InTime

LEMMA CameraFaultInv ==
    ASSUME ScanInv, CaptureError \/ Restart
    PROVE  ScanInv'
<1>1. /\ step' = "capture" /\ pending' = NoClock
      /\ faults < MaxFaults /\ faults' = faults + 1
      /\ camera_generation' = camera_generation + 1
      /\ UNCHANGED <<clocked, now, LivenessRequired>>
  BY DEF ScanInv, InTime, CaptureError, Restart, clockVars
<1>2. /\ \A w \in Workers : clocked'[w] <= now'
      /\ camera_generation' = faults'
  BY <1>1 DEF ScanInv, InTime
<1>3. /\ NoFrame \in Frames /\ NoResult \in Results
      /\ pending' \in [worker : Faces, gen : 0..MaxFaults, deadline : 0..(now + Wait),
                       confirmed : BOOLEAN, at : 0..MaxTime]
  BY <1>1, ScanConstants, TypedPending
     DEF ScanInv, NoFrame, NoResult, Frames, Results, Faces
<1>4. faults' \in 0..MaxFaults /\ camera_generation' \in 0..MaxFaults
  BY <1>1, <1>2, ScanConstants DEF ScanInv, TypeOK
<1>5. /\ 0 \in 0..MaxTime /\ 0 \in 0..(MaxTime + Hold) /\ {} \subseteq Frames
      /\ now \in 0..MaxTime
  BY ScanConstants DEF ScanInv, TypeOK
<1>6. CASE CaptureError
  <2>1. TypeOK'
    BY <1>1, <1>3, <1>4, <1>5, <1>6
       DEF ScanInv, TypeOK, CaptureError, clockVars, detectorVars, ResetBlink
  <2> QED
    BY <1>1, <1>2, <2>1, GivenUpInv
<1>7. CASE Restart
  <2>1. last_clocks' \in [Workers -> 0..MaxTime]
    BY <1>5, <1>7 DEF Restart
  <2>2. TypeOK'
    BY <1>1, <1>3, <1>4, <1>5, <1>7, <2>1 DEF ScanInv, TypeOK, Restart, ResetBlink
  <2> QED
    BY <1>1, <1>2, <2>2, GivenUpInv
<1> QED
  BY <1>6, <1>7

LEMMA RecoverInv ==
    ASSUME ScanInv, CheckerRecovers
    PROVE  ScanInv'
BY DEF ScanInv, TypeOK, InTime, BlinkOK, WriteOK, Blinked, ShowOnly, Recent,
       CheckerRecovers, clockVars, sharedVars, detectorVars, loopVars

LEMMA ScanStutterInv ==
    ASSUME ScanInv, UNCHANGED vars
    PROVE  ScanInv'
BY DEF ScanInv, TypeOK, InTime, BlinkOK, WriteOK, Blinked, ShowOnly, Recent, vars,
       clockVars, sharedVars, detectorVars, loopVars, livenessVars

LEMMA ScanNextInv ==
    ASSUME ScanInv, [Next]_vars
    PROVE  ScanInv'
BY DetectorInv, CaptureInv, SpentInv, AwaitBlinkInv, AwaitConfirmationInv, StartInv,
   RecordInv, CameraFaultInv, RecoverInv, ScanStutterInv DEF Next, LoopNext

\* Only record_clock clocks anybody, and only whom the result in hand names.
LEMMA ScanStep ==
    ASSUME ScanInv, [Next]_vars, NEW w \in Workers, clocked'[w] # clocked[w]
    PROVE  /\ LivenessRequired =>
                /\ \E f, g \in blinkers : f.closed /\ ~g.closed /\ f.ts < g.ts
                /\ \A f \in blinkers :
                      f.face = w /\ f.gen = camera_generation /\ f.ts < writing.ts
           /\ clocked[w] > 0 => clocked'[w] - clocked[w] > Debounce
<1>1. clocked' # clocked
  OBVIOUS
<1>2. record_clock
  BY <1>1
     DEF Next, LoopNext, DetectorNext, TakeFrame, Match, publish_detection,
         DetectionError, Capture, CaptureError, Skip, Interrupted, AwaitBlink,
         CheckerFails, AwaitConfirmation, Repeat, StartBlink, ScanWithoutBlink, NoMatch,
         CheckerRecovers, Restart, vars, clockVars
<1>3. step = "write" /\ clocked' = [clocked EXCEPT ![writing.worker] = now]
  BY <1>1, <1>2 DEF record_clock, clockVars
<1>4. w = writing.worker /\ clocked'[w] = now
  BY <1>3 DEF ScanInv, TypeOK
<1>5. clocked[w] > 0 => now - clocked[w] > Debounce
  BY <1>3, <1>4, ScanFacts, ScanConstants DEF ScanInv, WriteOK, Recent
<1> QED
  BY <1>3, <1>4, <1>5 DEF ScanInv, WriteOK, Blinked, ShowOnly


-----------------------------------------------------------------------------
(* Directions.                                                             *)

LEMMA HistoryConstants ==
    /\ "none" \notin People
    /\ MaxEvents \in Nat /\ MaxLocal \in Nat /\ MaxFaces \in Nat
BY HistoryAssumption DEF History!ClockActionAssumption

\* A row of attendance_log stands for an event.
Same(event, row) ==
    /\ event.id = row.id /\ event.worker = row.worker
    /\ event.action = row.action /\ event.epoch = row.epoch

IsLogRow(row) ==
    row = [worker |-> row.worker, id |-> row.id, action |-> row.action,
           epoch |-> row.epoch, server |-> row.server, synced |-> row.synced]

\* The worker has a row in the roster.
InRoster(i) == i \in 1..MaxLocal /\ workers[i] # History!Gone

\* A person has one row, whose server id is the person's own; ids are used once.
DirectoryOK ==
    /\ workers \in [1..MaxLocal -> [person : People \cup {"none"},
                                    server : People \cup {"none"}, face : Nat]]
    /\ enrolled \in [People -> Nat]
    /\ locals \in 0..MaxLocal
    /\ events \in Nat
    /\ \A i \in 1..MaxLocal : InRoster(i) =>
          /\ i <= locals
          /\ workers[i].person \in People
          /\ workers[i].server \in {"none", workers[i].person}
    /\ \A i, j \in 1..MaxLocal :
          InRoster(i) /\ InRoster(j) /\ workers[i].person = workers[j].person => i = j

\* Events are of the person's row or of earlier ones, in the order of their rows.
EventsOK ==
    /\ DOMAIN history = People
    /\ \A q \in People : \A e \in history[q] :
          /\ e.id \in 1..events /\ e.worker \in 1..locals
          /\ InRoster(e.worker) => workers[e.worker].person = q
          /\ \A i \in 1..MaxLocal : InRoster(i) /\ workers[i].person = q => e.worker <= i
          /\ \A f \in history[q] : e.worker < f.worker => e.id < f.id

\* A row of the log is an event of the person it names, and of the person its
\* worker's row is of; the rows of a worker who is gone name the same.
LogOK ==
    \A row \in log :
        /\ IsLogRow(row)
        /\ row.id \in 1..events /\ row.worker \in 1..locals
        /\ \A q \in People : row.server = q => \E e \in history[q] : Same(e, row)
        /\ InRoster(row.worker) =>
              /\ row.server \in {"none", workers[row.worker].server}
              /\ \E e \in history[workers[row.worker].person] : Same(e, row)
        /\ ~InRoster(row.worker) =>
              \A other \in log : other.worker = row.worker => other.server = row.server

\* The last event by each worker is in the log, and found from the person's row.
LatestOK ==
    \A q \in People : \A e \in history[q] :
        (\A f \in history[q] : f.worker = e.worker => f.id <= e.id)
        => \E row \in log : Same(e, row) /\ (InRoster(e.worker) \/ row.server = q)

HistoryInv == DirectoryOK /\ EventsOK /\ LogOK /\ LatestOK

LEMMA HistoryInitInv ==
    ASSUME History!Init
    PROVE  HistoryInv
<1>1. DirectoryOK
  BY HistoryConstants
     DEF History!Init, DirectoryOK, InRoster, History!Gone, History!NoServer,
         History!Locals
<1>2. EventsOK /\ LogOK /\ LatestOK
  BY DEF History!Init, EventsOK, LogOK, LatestOK
<1> QED
  BY <1>1, <1>2 DEF HistoryInv

LEMMA HistoryStutterInv ==
    ASSUME HistoryInv, UNCHANGED <<enrolled, workers, locals, log, events, history>>
    PROVE  HistoryInv'
BY DEF HistoryInv, DirectoryOK, EventsOK, LogOK, LatestOK, InRoster

\* New rows are of people who have none; other rows stay, and may be given a server.
LEMMA RosterGrowsInv ==
    ASSUME HistoryInv, DirectoryOK', locals' \in Nat, locals <= locals',
           UNCHANGED <<log, events, history>>,
           \A i \in 1..locals :
              /\ InRoster(i)' <=> InRoster(i)
              /\ InRoster(i) =>
                    /\ workers'[i].person = workers[i].person
                    /\ workers[i].server \in {"none", workers'[i].server}
    PROVE  HistoryInv'
<1>1. locals \in Nat /\ 1..locals \subseteq 1..locals' /\ events \in Nat
  BY DEF HistoryInv, DirectoryOK
<1>2. EventsOK'
  <2> SUFFICES ASSUME NEW q \in People, NEW e \in history[q]
               PROVE  /\ e.id \in 1..events /\ e.worker \in 1..locals'
                      /\ InRoster(e.worker)' => workers'[e.worker].person = q
                      /\ \A i \in 1..MaxLocal :
                            InRoster(i)' /\ workers'[i].person = q => e.worker <= i
                      /\ \A f \in history[q] : e.worker < f.worker => e.id < f.id
    BY DEF HistoryInv, EventsOK
  <2>1. /\ e.id \in 1..events /\ e.worker \in 1..locals
        /\ InRoster(e.worker) => workers[e.worker].person = q
        /\ \A i \in 1..MaxLocal : InRoster(i) /\ workers[i].person = q => e.worker <= i
        /\ \A f \in history[q] : e.worker < f.worker => e.id < f.id
    BY DEF HistoryInv, EventsOK
  <2>2. ASSUME NEW i \in 1..MaxLocal, InRoster(i)', workers'[i].person = q
        PROVE  e.worker <= i
    <3>1. CASE i <= locals
      BY <1>1, <2>1, <2>2, <3>1
    <3>2. CASE ~(i <= locals)
      BY <1>1, <2>1, <3>2
    <3> QED
      BY <3>1, <3>2
  <2> QED
    BY <1>1, <2>1, <2>2
<1>3. LogOK'
  <2> SUFFICES ASSUME NEW row \in log
               PROVE  /\ IsLogRow(row)
                      /\ row.id \in 1..events /\ row.worker \in 1..locals'
                      /\ \A q \in People : row.server = q =>
                            \E e \in history[q] : Same(e, row)
                      /\ InRoster(row.worker)' =>
                            /\ row.server \in {"none", workers'[row.worker].server}
                            /\ \E e \in history[workers'[row.worker].person] : Same(e, row)
                      /\ ~InRoster(row.worker)' =>
                            \A other \in log :
                                other.worker = row.worker => other.server = row.server
    BY DEF LogOK, Same, IsLogRow
  <2>1. /\ IsLogRow(row)
        /\ row.id \in 1..events /\ row.worker \in 1..locals
        /\ \A q \in People : row.server = q => \E e \in history[q] : Same(e, row)
    BY DEF HistoryInv, LogOK
  <2>2. InRoster(row.worker) =>
              /\ row.server \in {"none", workers[row.worker].server}
              /\ \E e \in history[workers[row.worker].person] : Same(e, row)
    BY DEF HistoryInv, LogOK
  <2>3. ~InRoster(row.worker) =>
              \A other \in log : other.worker = row.worker => other.server = row.server
    BY DEF HistoryInv, LogOK
  <2> QED
    BY <1>1, <2>1, <2>2, <2>3
<1>4. LatestOK'
  <2> SUFFICES ASSUME NEW q \in People, NEW e \in history[q],
                      \A f \in history[q] : f.worker = e.worker => f.id <= e.id
               PROVE  \E row \in log :
                          Same(e, row) /\ (InRoster(e.worker)' \/ row.server = q)
    BY DEF LatestOK, Same
  <2>1. e.worker \in 1..locals
    BY DEF HistoryInv, EventsOK
  <2>2. PICK row \in log : Same(e, row) /\ (InRoster(e.worker) \/ row.server = q)
    BY DEF HistoryInv, LatestOK
  <2> QED
    BY <2>1, <2>2
<1> QED
  BY <1>2, <1>3, <1>4 DEF HistoryInv

\* A row that is changed in place.
LEMMA RowUpdatedInv ==
    ASSUME HistoryInv, NEW i \in 1..MaxLocal, InRoster(i),
           NEW server \in {"none", workers[i].person}, NEW face \in Nat,
           workers[i].server \in {"none", server},
           workers' = [workers EXCEPT ![i].face = face, ![i].server = server],
           enrolled' \in [People -> Nat],
           UNCHANGED <<locals, log, events, history>>
    PROVE  HistoryInv'
<1>1. /\ workers[i].person \in People /\ i <= locals
      /\ workers[i] = [person |-> workers[i].person, server |-> workers[i].server,
                       face |-> workers[i].face]
  BY DEF HistoryInv, DirectoryOK
<1>2. /\ workers'[i] = [person |-> workers[i].person, server |-> server, face |-> face]
      /\ \A j \in 1..MaxLocal : j # i => workers'[j] = workers[j]
      /\ DOMAIN workers' = 1..MaxLocal
  BY <1>1 DEF HistoryInv, DirectoryOK
<1>3. \A j \in 1..MaxLocal :
         /\ InRoster(j)' <=> InRoster(j)
         /\ workers'[j].person = workers[j].person
         /\ InRoster(j) => workers'[j].server \in {"none", workers'[j].person}
         /\ workers[j].server \in {"none", workers'[j].server}
  <2> SUFFICES ASSUME NEW j \in 1..MaxLocal
               PROVE  /\ InRoster(j)' <=> InRoster(j)
                      /\ workers'[j].person = workers[j].person
                      /\ InRoster(j) => workers'[j].server \in {"none", workers'[j].person}
                      /\ workers[j].server \in {"none", workers'[j].server}
    OBVIOUS
  <2>1. CASE j = i
    <3>1. InRoster(i)'
      BY <1>1, <1>2, HistoryConstants DEF InRoster, History!Gone, History!NoServer
    <3> QED
      BY <1>1, <1>2, <2>1, <3>1
  <2>2. CASE j # i
    BY <1>2, <2>2 DEF HistoryInv, DirectoryOK, InRoster
  <2> QED
    BY <2>1, <2>2
<1>4. workers' \in [1..MaxLocal -> [person : People \cup {"none"},
                                    server : People \cup {"none"}, face : Nat]]
  BY <1>1 DEF HistoryInv, DirectoryOK
<1>5. DirectoryOK'
  BY <1>3, <1>4 DEF HistoryInv, DirectoryOK
<1>6. /\ locals \in Nat /\ locals <= locals /\ locals' = locals
      /\ \A j \in 1..locals : j \in 1..MaxLocal
  BY HistoryConstants DEF HistoryInv, DirectoryOK
<1> QED
  BY <1>3, <1>5, <1>6, RosterGrowsInv DEF HistoryInv

\* A row that is added, for a person without one.
LEMMA RowAddedInv ==
    ASSUME HistoryInv, NEW q \in People,
           \A j \in 1..MaxLocal : InRoster(j) => workers[j].person # q,
           locals < MaxLocal, locals' = locals + 1,
           NEW server \in {"none", q}, NEW face \in Nat,
           workers' = [workers EXCEPT ![locals + 1] =
                          [person |-> q, server |-> server, face |-> face]],
           enrolled' \in [People -> Nat],
           UNCHANGED <<log, events, history>>
    PROVE  HistoryInv'
<1>1. locals \in Nat /\ locals + 1 \in 1..MaxLocal /\ MaxLocal \in Nat
  BY HistoryConstants DEF HistoryInv, DirectoryOK
<1>2. /\ workers'[locals + 1] = [person |-> q, server |-> server, face |-> face]
      /\ \A j \in 1..MaxLocal : j # locals + 1 => workers'[j] = workers[j]
      /\ DOMAIN workers' = 1..MaxLocal
  BY <1>1 DEF HistoryInv, DirectoryOK
<1>3. \A j \in 1..MaxLocal : j # locals + 1 => (InRoster(j)' <=> InRoster(j))
  BY <1>2 DEF InRoster
<1>4. workers' \in [1..MaxLocal -> [person : People \cup {"none"},
                                    server : People \cup {"none"}, face : Nat]]
  BY <1>1 DEF HistoryInv, DirectoryOK
<1>5. \A j \in 1..MaxLocal : InRoster(j)' =>
          /\ j <= locals'
          /\ workers'[j].person \in People
          /\ workers'[j].server \in {"none", workers'[j].person}
  BY <1>1, <1>2, <1>3 DEF HistoryInv, DirectoryOK
<1>6. \A j, k \in 1..MaxLocal :
          InRoster(j)' /\ InRoster(k)' /\ workers'[j].person = workers'[k].person => j = k
  BY <1>1, <1>2, <1>3 DEF HistoryInv, DirectoryOK
<1>7. DirectoryOK'
  BY <1>1, <1>4, <1>5, <1>6 DEF HistoryInv, DirectoryOK
<1>8. \A j \in 1..locals : j \in 1..MaxLocal /\ j # locals + 1
  BY <1>1
<1> QED
  BY <1>1, <1>2, <1>3, <1>7, <1>8, RosterGrowsInv DEF HistoryInv

LEMMA RosterInv ==
    ASSUME HistoryInv, NEW q \in People,
           \/ History!add_worker(q, History!NoServer)
           \/ History!add_worker(q, q)
           \/ History!Restore(q)
    PROVE  HistoryInv'
<1>1. enrolled[q] \in Nat /\ enrolled[q] + 1 \in Nat
  BY DEF HistoryInv, DirectoryOK
<1>2. UNCHANGED <<log, events, history>>
  BY DEF History!add_worker, History!Restore, History!logVars
<1>3. enrolled' \in [People -> Nat]
  BY <1>1 DEF HistoryInv, DirectoryOK, History!add_worker, History!Restore
<1>4. ASSUME NEW server \in {"none", q}, History!add_worker(q, server)
      PROVE  HistoryInv'
  <2>1. CASE \E i \in History!Row(q) :
               /\ workers' = [workers EXCEPT ![i].face = enrolled[q] + 1,
                       ![i].server = IF server = History!NoServer THEN @ ELSE server]
               /\ UNCHANGED locals
    <3>1. PICK i \in History!Row(q) :
               /\ workers' = [workers EXCEPT ![i].face = enrolled[q] + 1,
                       ![i].server = IF server = History!NoServer THEN @ ELSE server]
               /\ UNCHANGED locals
      BY <2>1
    <3>2. i \in 1..MaxLocal /\ InRoster(i) /\ workers[i].person = q
      BY DEF History!Row, History!Here, InRoster, History!Locals
    <3>3. workers[i].server \in {"none", q}
      BY <3>2 DEF HistoryInv, DirectoryOK
    <3>4. CASE server = "none"
      <4>1. workers' = [workers EXCEPT ![i].face = enrolled[q] + 1,
                                       ![i].server = workers[i].server]
        BY <3>1, <3>4 DEF History!NoServer
      <4> QED
        BY <1>1, <1>2, <1>3, <3>1, <3>2, <3>3, <4>1, RowUpdatedInv
    <3>5. CASE server # "none"
      <4>1. workers' = [workers EXCEPT ![i].face = enrolled[q] + 1,
                                       ![i].server = server]
        BY <3>1, <3>5 DEF History!NoServer
      <4> QED
        BY <1>1, <1>2, <1>3, <3>1, <3>2, <3>3, <3>5, <4>1, RowUpdatedInv
    <3> QED
      BY <3>4, <3>5
  <2>2. CASE /\ History!Row(q) = {}
             /\ locals < MaxLocal
             /\ locals' = locals + 1
             /\ workers' = [workers EXCEPT ![locals + 1] =
                       [person |-> q, server |-> server, face |-> enrolled[q] + 1]]
    <3>1. \A j \in 1..MaxLocal : InRoster(j) => workers[j].person # q
      BY <2>2 DEF History!Row, History!Here, InRoster, History!Locals
    <3> QED
      BY <1>1, <1>2, <1>3, <2>2, <3>1, RowAddedInv
  <2> QED
    BY <1>4, <2>1, <2>2 DEF History!add_worker
<1>5. CASE History!Restore(q)
  <2>1. \A j \in 1..MaxLocal : InRoster(j) => workers[j].person # q
    BY <1>5 DEF History!Restore, History!Row, History!Here, InRoster, History!Locals
  <2>2. /\ locals < MaxLocal /\ locals' = locals + 1
        /\ workers' = [workers EXCEPT ![locals + 1] =
                          [person |-> q, server |-> q, face |-> enrolled[q]]]
    BY <1>5 DEF History!Restore
  <2> QED
    BY <1>1, <1>2, <1>3, <2>1, <2>2, RowAddedInv
<1> QED
  BY <1>4, <1>5 DEF History!NoServer

\* What the trigger of a removal leaves of a row.
Relabelled(row, i) ==
    IF row.worker = i /\ row.server = "none" THEN [row EXCEPT !.server = workers[i].server]
    ELSE row

LEMMA LabelledRow ==
    ASSUME NEW row, IsLogRow(row), NEW i
    PROVE  /\ IsLogRow(Relabelled(row, i))
           /\ Relabelled(row, i).id = row.id /\ Relabelled(row, i).worker = row.worker
           /\ \A e : Same(e, Relabelled(row, i)) <=> Same(e, row)
           /\ row.worker = i /\ row.server \in {"none", workers[i].server} =>
                 Relabelled(row, i).server = workers[i].server
           /\ row.worker # i => Relabelled(row, i) = row
<1>1. CASE row.worker = i /\ row.server = "none"
  <2>1. Relabelled(row, i) = [worker |-> row.worker, id |-> row.id, action |-> row.action,
                             epoch |-> row.epoch, server |-> workers[i].server,
                             synced |-> row.synced]
    BY <1>1 DEF Relabelled, IsLogRow
  <2> QED
    BY <1>1, <2>1 DEF IsLogRow, Same
<1>2. CASE ~(row.worker = i /\ row.server = "none")
  BY <1>2 DEF Relabelled
<1> QED
  BY <1>1, <1>2

LEMMA RemoveWorkerInv ==
    ASSUME HistoryInv, NEW i \in 1..locals, History!RemoveWorker(i)
    PROVE  HistoryInv'
<1> DEFINE q == workers[i].person
           s == workers[i].server
<1>1. /\ i \in 1..MaxLocal /\ InRoster(i) /\ q \in People /\ s \in {"none", q}
      /\ q # "none" /\ locals \in Nat /\ events \in Nat /\ MaxLocal \in Nat
  BY HistoryConstants DEF HistoryInv, DirectoryOK, History!RemoveWorker, History!Here, InRoster
<1>2. /\ log' = {Relabelled(row, i) : row \in log}
      /\ workers' = [workers EXCEPT ![i] = History!Gone]
      /\ UNCHANGED <<enrolled, locals, events>>
  BY DEF History!RemoveWorker, Relabelled, History!NoServer
<1>3. /\ workers'[i] = History!Gone
      /\ \A j \in 1..MaxLocal : j # i => workers'[j] = workers[j]
  BY <1>1, <1>2 DEF HistoryInv, DirectoryOK
<1>4. /\ ~InRoster(i)'
      /\ \A j \in 1..MaxLocal : j # i => (InRoster(j)' <=> InRoster(j))
  BY <1>3 DEF InRoster
<1>5. DirectoryOK'
  <2>1. workers' \in [1..MaxLocal -> [person : People \cup {"none"},
                                    server : People \cup {"none"}, face : Nat]]
    BY <1>1, <1>2 DEF HistoryInv, DirectoryOK, History!Gone, History!NoServer
  <2> QED
    BY <1>2, <1>3, <1>4, <2>1 DEF HistoryInv, DirectoryOK
<1>6. /\ DOMAIN history' = People
      /\ \A u \in People : \A e \in history'[u] :
            e \in history[u] /\ (u = q /\ s = "none" => e.worker # i)
      /\ \A u \in People : \A e \in history[u] :
            (u = q /\ s = "none" => e.worker # i) => e \in history'[u]
  <2>1. CASE s # "none"
    BY <2>1 DEF History!RemoveWorker, History!NoServer, HistoryInv, EventsOK
  <2>2. CASE s = "none"
    <3>1. history' = [history EXCEPT ![q] = {event \in @ : event.worker # i}]
      BY <2>2 DEF History!RemoveWorker, History!NoServer
    <3> QED
      BY <1>1, <2>2, <3>1 DEF HistoryInv, EventsOK
  <2> QED
    BY <2>1, <2>2
<1>7. EventsOK'
  BY <1>2, <1>3, <1>4, <1>6 DEF HistoryInv, EventsOK, InRoster
<1>8. \A row \in log :
         /\ IsLogRow(row) /\ row.id \in 1..events /\ row.worker \in 1..locals
         /\ \A u \in People : row.server = u => \E e \in history[u] : Same(e, row)
  BY DEF HistoryInv, LogOK
<1>9. ASSUME NEW row \in log, row.worker = i
      PROVE  /\ row.server \in {"none", s} /\ Relabelled(row, i).server = s
             /\ \E e \in history[q] : Same(e, row)
  <2>1. /\ row.server \in {"none", s}
        /\ \E e \in history[q] : Same(e, row)
    BY <1>1, <1>9 DEF HistoryInv, LogOK
  <2> QED
    BY <1>8, <1>9, <2>1, LabelledRow
<1>10. LogOK'
  <2> SUFFICES ASSUME NEW row \in log, NEW mark, mark = Relabelled(row, i)
               PROVE  /\ IsLogRow(mark)
                      /\ mark.id \in 1..events /\ mark.worker \in 1..locals
                      /\ \A u \in People : mark.server = u =>
                            \E e \in history'[u] : Same(e, mark)
                      /\ InRoster(mark.worker)' =>
                            /\ mark.server \in {"none", workers'[mark.worker].server}
                            /\ \E e \in history'[workers'[mark.worker].person] :
                                  Same(e, mark)
                      /\ ~InRoster(mark.worker)' =>
                            \A other \in log' :
                                other.worker = mark.worker => other.server = mark.server
    BY <1>2 DEF LogOK, Same, IsLogRow
  <2>1. /\ IsLogRow(mark) /\ mark.id \in 1..events /\ mark.worker \in 1..locals
        /\ mark.worker = row.worker
        /\ \A e : Same(e, mark) <=> Same(e, row)
    BY <1>8, LabelledRow
  <2>2. CASE row.worker = i
    <3>1. mark.server = s
      BY <1>9, <2>2
    <3>2. ASSUME NEW u \in People, mark.server = u
          PROVE  \E e \in history'[u] : Same(e, mark)
      BY <1>1, <1>6, <1>9, <2>1, <2>2, <3>1, <3>2
    <3>3. ASSUME NEW other \in log', other.worker = mark.worker
          PROVE  other.server = mark.server
      <4>1. PICK old \in log : other = Relabelled(old, i)
        BY <1>2
      <4>2. old.worker = i
        BY <1>8, <2>1, <2>2, <3>3, <4>1, LabelledRow
      <4> QED
        BY <1>9, <3>1, <4>1, <4>2
    <3> QED
      BY <1>4, <2>1, <2>2, <3>2, <3>3
  <2>3. CASE row.worker # i
    <3>1. mark = row
      BY <1>8, <2>3, LabelledRow
    <3>2. ASSUME NEW u \in People, row.server = u
          PROVE  \E e \in history'[u] : Same(e, row)
      <4>1. PICK e \in history[u] : Same(e, row)
        BY <1>8, <3>2
      <4> QED
        BY <1>6, <2>3, <4>1 DEF Same
    <3>3. ASSUME InRoster(row.worker)'
          PROVE  /\ row.server \in {"none", workers'[row.worker].server}
                 /\ \E e \in history'[workers'[row.worker].person] : Same(e, row)
      <4>1. row.worker \in 1..MaxLocal /\ InRoster(row.worker)
            /\ workers'[row.worker] = workers[row.worker]
            /\ workers[row.worker].person \in People
        BY <1>3, <1>4, <2>3, <3>3 DEF InRoster, HistoryInv, DirectoryOK
      <4>2. /\ row.server \in {"none", workers[row.worker].server}
            /\ \E e \in history[workers[row.worker].person] : Same(e, row)
        BY <4>1 DEF HistoryInv, LogOK
      <4>3. PICK e \in history[workers[row.worker].person] : Same(e, row)
        BY <4>2
      <4>4. e \in history'[workers[row.worker].person]
        BY <1>6, <2>3, <4>1, <4>3 DEF Same
      <4> QED
        BY <4>1, <4>2, <4>3, <4>4
    <3>4. ASSUME ~InRoster(row.worker)', NEW other \in log', other.worker = row.worker
          PROVE  other.server = row.server
      <4>1. PICK old \in log : other = Relabelled(old, i)
        BY <1>2
      <4>2. old.worker = row.worker /\ other = old
        BY <1>8, <2>3, <3>4, <4>1, LabelledRow
      <4>3. ~InRoster(row.worker)
        BY <1>1, <1>4, <1>8, <2>3, <3>4 DEF InRoster
      <4> QED
        BY <4>2, <4>3 DEF HistoryInv, LogOK
    <3> QED
      BY <2>1, <3>1, <3>2, <3>3, <3>4
  <2> QED
    BY <2>2, <2>3
<1>11. LatestOK'
  <2> SUFFICES ASSUME NEW u \in People, NEW e \in history'[u],
                      \A f \in history'[u] : f.worker = e.worker => f.id <= e.id
               PROVE  \E row \in log' :
                          Same(e, row) /\ (InRoster(e.worker)' \/ row.server = u)
    BY DEF LatestOK, Same
  <2>1. e \in history[u] /\ (u = q /\ s = "none" => e.worker # i)
    BY <1>6
  <2>2. \A f \in history[u] : f.worker = e.worker => f.id <= e.id
    BY <1>6, <2>1
  <2>3. PICK row \in log : Same(e, row) /\ (InRoster(e.worker) \/ row.server = u)
    BY <2>1, <2>2 DEF HistoryInv, LatestOK
  <2>4. Relabelled(row, i) \in log' /\ Same(e, Relabelled(row, i))
    BY <1>2, <1>8, <2>3, LabelledRow
  <2>5. CASE e.worker = i
    <3>1. row.worker = i /\ u = q
      BY <1>1, <2>1, <2>3, <2>5 DEF Same, HistoryInv, EventsOK
    <3>2. Relabelled(row, i).server = u
      BY <1>1, <1>9, <2>1, <2>5, <3>1
    <3> QED
      BY <2>4, <3>2
  <2>6. CASE e.worker # i
    <3>1. row.worker # i /\ Relabelled(row, i) = row
      BY <1>8, <2>3, <2>6, LabelledRow DEF Same
    <3>2. InRoster(e.worker) => InRoster(e.worker)'
      BY <1>4, <2>6 DEF InRoster
    <3> QED
      BY <2>3, <2>4, <3>1, <3>2
  <2> QED
    BY <2>5, <2>6
<1> QED
  BY <1>5, <1>7, <1>10, <1>11 DEF HistoryInv

\* Rows that are kept, but for a flag.
Alike(row, old) ==
    /\ row.id = old.id /\ row.worker = old.worker /\ row.server = old.server
    /\ row.action = old.action /\ row.epoch = old.epoch

LEMMA LogAlikeInv ==
    ASSUME HistoryInv, UNCHANGED <<enrolled, workers, locals, events, history>>,
           \A row \in log' : IsLogRow(row) /\ \E old \in log : Alike(row, old)
    PROVE  DirectoryOK' /\ EventsOK' /\ LogOK'
<1>1. DirectoryOK' /\ EventsOK'
  BY DEF HistoryInv, DirectoryOK, EventsOK, InRoster
<1>2. LogOK'
  <2> SUFFICES ASSUME NEW row \in log'
               PROVE  /\ IsLogRow(row)
                      /\ row.id \in 1..events /\ row.worker \in 1..locals
                      /\ \A q \in People : row.server = q =>
                            \E e \in history[q] : Same(e, row)
                      /\ InRoster(row.worker) =>
                            /\ row.server \in {"none", workers[row.worker].server}
                            /\ \E e \in history[workers[row.worker].person] : Same(e, row)
                      /\ ~InRoster(row.worker) =>
                            \A other \in log' :
                                other.worker = row.worker => other.server = row.server
    BY DEF LogOK, InRoster, Same, IsLogRow
  <2>1. IsLogRow(row)
    OBVIOUS
  <2>2. PICK old \in log : Alike(row, old)
    OBVIOUS
  <2>3. \A e : Same(e, row) <=> Same(e, old)
    BY <2>2 DEF Alike, Same
  <2>4. /\ old.id \in 1..events /\ old.worker \in 1..locals
        /\ \A q \in People : old.server = q => \E e \in history[q] : Same(e, old)
    BY DEF HistoryInv, LogOK
  <2>5. InRoster(old.worker) =>
              /\ old.server \in {"none", workers[old.worker].server}
              /\ \E e \in history[workers[old.worker].person] : Same(e, old)
    BY DEF HistoryInv, LogOK
  <2>6. ASSUME ~InRoster(row.worker), NEW other \in log', other.worker = row.worker
        PROVE  other.server = row.server
    <3>1. PICK before \in log : Alike(other, before)
      OBVIOUS
    <3>2. before.server = old.server
      BY <2>2, <2>6, <3>1 DEF HistoryInv, LogOK, Alike
    <3> QED
      BY <2>2, <3>1, <3>2 DEF Alike
  <2>7. row.id = old.id /\ row.worker = old.worker /\ row.server = old.server
    BY <2>2 DEF Alike
  <2> QED
    BY <2>1, <2>3, <2>4, <2>5, <2>6, <2>7
<1> QED
  BY <1>1, <1>2

LEMMA FlaggedRow ==
    ASSUME NEW row, IsLogRow(row), NEW flag \in BOOLEAN,
           NEW mark, mark = [row EXCEPT !.synced = flag]
    PROVE  IsLogRow(mark) /\ Alike(mark, row)
<1>1. mark = [[worker |-> row.worker, id |-> row.id, action |-> row.action,
               epoch |-> row.epoch, server |-> row.server, synced |-> row.synced]
              EXCEPT !.synced = flag]
  BY DEF IsLogRow
<1>2. mark = [worker |-> row.worker, id |-> row.id, action |-> row.action,
              epoch |-> row.epoch, server |-> row.server, synced |-> flag]
  BY <1>1
<1> QED
  BY <1>2 DEF IsLogRow, Alike

LEMMA MarkSyncedInv ==
    ASSUME HistoryInv, NEW row \in log, History!mark_synced(row)
    PROVE  HistoryInv'
<1> DEFINE mark == [row EXCEPT !.synced = TRUE]
<1>1. /\ log' = (log \ {row}) \cup {mark}
      /\ UNCHANGED <<enrolled, workers, locals, events, history>>
  BY DEF History!mark_synced, History!rosterVars
<1>2. IsLogRow(mark) /\ Alike(mark, row)
  <2>1. IsLogRow(row)
    BY DEF HistoryInv, LogOK
  <2> QED
    BY <2>1, FlaggedRow
<1> HIDE DEF mark
<1>3. \A r \in log' : IsLogRow(r) /\ \E old \in log : Alike(r, old)
  <2>1. \A old \in log : Alike(old, old) /\ IsLogRow(old)
    BY DEF Alike, HistoryInv, LogOK
  <2> QED
    BY <1>1, <1>2, <2>1
<1>4. DirectoryOK' /\ EventsOK' /\ LogOK'
  BY <1>1, <1>3, LogAlikeInv
<1>5. LatestOK'
  <2> SUFFICES ASSUME NEW q \in People, NEW e \in history[q],
                      \A f \in history[q] : f.worker = e.worker => f.id <= e.id
               PROVE  \E r \in log' : Same(e, r) /\ (InRoster(e.worker) \/ r.server = q)
    BY <1>1 DEF LatestOK, InRoster, Same
  <2>1. PICK r \in log : Same(e, r) /\ (InRoster(e.worker) \/ r.server = q)
    BY DEF HistoryInv, LatestOK
  <2>2. CASE r = row
    <3>1. Same(e, mark) /\ mark.server = r.server
      BY <1>2, <2>1, <2>2 DEF Same, Alike
    <3> QED
      BY <1>1, <2>1, <3>1
  <2>3. CASE r # row
    BY <1>1, <2>1, <2>3
  <2> QED
    BY <2>2, <2>3
<1> QED
  BY <1>4, <1>5 DEF HistoryInv

\* What is deleted is not the last event that was inserted for its worker.
LEMMA PruneInv ==
    ASSUME HistoryInv, NEW row \in log, History!prune_synced_history(row)
    PROVE  HistoryInv'
<1>1. /\ log' = log \ {row} /\ ~History!Kept(row)
      /\ UNCHANGED <<enrolled, workers, locals, events, history>>
  BY DEF History!prune_synced_history, History!rosterVars
<1>2. DirectoryOK' /\ EventsOK' /\ LogOK'
  <2>1. \A r \in log' : IsLogRow(r) /\ \E old \in log : Alike(r, old)
    BY <1>1 DEF Alike, HistoryInv, LogOK
  <2> QED
    BY <1>1, <2>1, LogAlikeInv
<1>3. PICK other \in log : other.worker = row.worker /\ ~(other.id <= row.id)
  BY <1>1 DEF History!Kept
<1>4. LatestOK'
  <2> SUFFICES ASSUME NEW q \in People, NEW e \in history[q],
                      \A f \in history[q] : f.worker = e.worker => f.id <= e.id
               PROVE  \E r \in log' : Same(e, r) /\ (InRoster(e.worker) \/ r.server = q)
    BY <1>1 DEF LatestOK, InRoster, Same
  <2>1. PICK r \in log : Same(e, r) /\ (InRoster(e.worker) \/ r.server = q)
    BY DEF HistoryInv, LatestOK
  <2>2. ASSUME r = row PROVE FALSE
    <3>1. e.id = row.id /\ e.worker = row.worker
      BY <2>1, <2>2 DEF Same
    <3>2. PICK f \in history[q] : Same(f, other)
      <4>1. CASE InRoster(row.worker)
        <5>1. workers[row.worker].person = q
          BY <3>1, <4>1 DEF HistoryInv, EventsOK
        <5>2. \E f \in history[workers[other.worker].person] : Same(f, other)
          BY <1>3, <4>1 DEF HistoryInv, LogOK
        <5> QED
          BY <1>3, <5>1, <5>2
      <4>2. CASE ~InRoster(row.worker)
        <5>1. row.server = q
          BY <2>1, <2>2, <3>1, <4>2
        <5>2. other.server = q
          BY <1>3, <4>2, <5>1 DEF HistoryInv, LogOK
        <5> QED
          BY <5>2 DEF HistoryInv, LogOK
      <4> QED
        BY <4>1, <4>2
    <3>3. f.worker = e.worker /\ f.id = other.id
      BY <1>3, <3>1, <3>2 DEF Same
    <3> QED
      BY <1>3, <3>1, <3>3
  <2> QED
    BY <1>1, <2>1, <2>2
<1> QED
  BY <1>2, <1>4 DEF HistoryInv

\* An event that is written for a row of the roster.
LEMMA LogAttendanceInv ==
    ASSUME HistoryInv, NEW i \in 1..locals, InRoster(i),
           NEW given,
           History!log_attendance(i, workers[i].person, workers[i].server, given),
           UNCHANGED <<enrolled, workers, locals>>
    PROVE  HistoryInv'
<1> DEFINE q == workers[i].person
           s == workers[i].server
<1>1. PICK action : action =
          IF given = "none" THEN History!_infer_clock_action(i) ELSE given
  OBVIOUS
<1> DEFINE event == [id |-> events + 1, action |-> action, epoch |-> wall, worker |-> i,
                     inferred |-> given = "none"]
           row == [worker |-> i, id |-> events + 1, action |-> action, epoch |-> wall,
                   server |-> s, synced |-> FALSE]
<1>2. /\ events' = events + 1
      /\ log' = log \cup {row}
      /\ history' = [history EXCEPT ![q] = @ \cup {event}]
  BY <1>1 DEF History!log_attendance
<1>3. /\ row.worker = i /\ row.id = events + 1 /\ row.server = s
      /\ event.worker = i /\ event.id = events + 1
      /\ Same(event, row) /\ IsLogRow(row)
  BY DEF Same, IsLogRow
<1> HIDE DEF event, row
<1>4. /\ i \in 1..MaxLocal /\ q \in People /\ s \in {"none", q} /\ q # "none"
      /\ locals \in Nat /\ events \in Nat
  BY HistoryConstants DEF HistoryInv, DirectoryOK, InRoster
<1>5. /\ history'[q] = history[q] \cup {event}
      /\ \A u \in People : u # q => history'[u] = history[u]
      /\ \A u \in People : history[u] \subseteq history'[u]
      /\ DOMAIN history' = People
  BY <1>2, <1>4 DEF HistoryInv, EventsOK
<1>6. \A j : InRoster(j)' <=> InRoster(j)
  BY DEF InRoster
<1>7. DirectoryOK'
  BY <1>2, <1>4, <1>6 DEF HistoryInv, DirectoryOK
<1>8. \A u \in People : \A e \in history[u] :
          /\ e.id \in 1..events /\ e.worker \in 1..locals
          /\ InRoster(e.worker) => workers[e.worker].person = u
          /\ \A j \in 1..MaxLocal : InRoster(j) /\ workers[j].person = u => e.worker <= j
          /\ \A f \in history[u] : e.worker < f.worker => e.id < f.id
  BY DEF HistoryInv, EventsOK
<1>9. EventsOK'
  <2> SUFFICES ASSUME NEW u \in People, NEW e \in history'[u]
               PROVE  /\ e.id \in 1..(events + 1) /\ e.worker \in 1..locals
                      /\ InRoster(e.worker) => workers[e.worker].person = u
                      /\ \A j \in 1..MaxLocal :
                            InRoster(j) /\ workers[j].person = u => e.worker <= j
                      /\ \A f \in history'[u] : e.worker < f.worker => e.id < f.id
    BY <1>2, <1>5, <1>6 DEF EventsOK
  <2>1. CASE e \in history[u]
    <3>1. \A f \in history'[u] : e.worker < f.worker => e.id < f.id
      BY <1>3, <1>4, <1>5, <1>8, <2>1
    <3> QED
      BY <1>4, <1>8, <2>1, <3>1
  <2>2. CASE u = q /\ e = event
    <3>1. \A j \in 1..MaxLocal : InRoster(j) /\ workers[j].person = u => i <= j
      BY <1>4, <2>2 DEF HistoryInv, DirectoryOK
    <3>2. \A f \in history'[u] : ~(i < f.worker)
      BY <1>3, <1>4, <1>5, <1>8, <2>2
    <3> QED
      BY <1>3, <1>4, <2>2, <3>1, <3>2
  <2> QED
    BY <1>5, <2>1, <2>2
<1>10. \A r \in log :
        /\ IsLogRow(r)
        /\ r.id \in 1..events /\ r.worker \in 1..locals
        /\ \A u \in People : r.server = u => \E e \in history[u] : Same(e, r)
        /\ InRoster(r.worker) =>
              /\ r.server \in {"none", workers[r.worker].server}
              /\ \E e \in history[workers[r.worker].person] : Same(e, r)
        /\ ~InRoster(r.worker) =>
              \A other \in log : other.worker = r.worker => other.server = r.server
  BY DEF HistoryInv, LogOK
<1>11. LogOK'
  <2> SUFFICES ASSUME NEW r \in log'
               PROVE  /\ IsLogRow(r)
                      /\ r.id \in 1..(events + 1) /\ r.worker \in 1..locals
                      /\ \A u \in People : r.server = u =>
                            \E e \in history'[u] : Same(e, r)
                      /\ InRoster(r.worker) =>
                            /\ r.server \in {"none", workers[r.worker].server}
                            /\ \E e \in history'[workers[r.worker].person] : Same(e, r)
                      /\ ~InRoster(r.worker) =>
                            \A other \in log' :
                                other.worker = r.worker => other.server = r.server
    BY <1>2, <1>6 DEF LogOK, Same, IsLogRow
  <2>1. CASE r \in log
    <3>1. InRoster(r.worker) =>
             /\ workers[r.worker].person \in People
             /\ history[workers[r.worker].person]
                    \subseteq history'[workers[r.worker].person]
      BY <1>5 DEF HistoryInv, DirectoryOK, InRoster
    <3>2. ~InRoster(r.worker) =>
             \A other \in log' : other.worker = r.worker => other.server = r.server
      BY <1>2, <1>3, <1>10, <2>1
    <3>3. \A u \in People : r.server = u => \E e \in history'[u] : Same(e, r)
      BY <1>5, <1>10, <2>1
    <3>4. r.id \in 1..(events + 1)
      BY <1>4, <1>10, <2>1
    <3> QED
      BY <1>10, <2>1, <3>1, <3>2, <3>3, <3>4
  <2>2. CASE r = row
    <3>1. event \in history'[q]
      BY <1>5
    <3>2. r.id = events + 1 /\ r.worker = i /\ r.server = s /\ IsLogRow(r)
          /\ Same(event, r)
      BY <1>3, <2>2
    <3>3. r.id \in 1..(events + 1) /\ r.worker \in 1..locals
      BY <1>4, <3>2
    <3>4. \A u \in People : r.server = u => \E e \in history'[u] : Same(e, r)
      BY <1>4, <3>1, <3>2, HistoryConstants
    <3>5. /\ r.server \in {"none", workers[r.worker].server}
          /\ \E e \in history'[workers[r.worker].person] : Same(e, r)
      BY <3>1, <3>2
    <3>6. InRoster(r.worker)
      BY <3>2
    <3> QED
      BY <3>2, <3>3, <3>4, <3>5, <3>6
  <2> QED
    BY <1>2, <2>1, <2>2
<1>12. LatestOK'
  <2> SUFFICES ASSUME NEW u \in People, NEW e \in history'[u],
                      \A f \in history'[u] : f.worker = e.worker => f.id <= e.id
               PROVE  \E r \in log' : Same(e, r) /\ (InRoster(e.worker) \/ r.server = u)
    BY <1>6 DEF LatestOK, Same
  <2>1. CASE e \in history[u]
    <3>1. \A f \in history[u] : f.worker = e.worker => f.id <= e.id
      BY <1>5
    <3>2. PICK r \in log : Same(e, r) /\ (InRoster(e.worker) \/ r.server = u)
      BY <2>1, <3>1 DEF HistoryInv, LatestOK
    <3> QED
      BY <1>2, <3>2
  <2>2. CASE e = event
    BY <1>2, <1>3, <2>2
  <2> QED
    BY <1>5, <2>1, <2>2
<1> QED
  BY <1>7, <1>9, <1>11, <1>12 DEF HistoryInv

\* A match in hand is of a row that was there.
HandOK == scan = History!NoScan \/ scan.worker \in 1..locals

LEMMA ClockingInv ==
    ASSUME HistoryInv, HandOK, History!Clocking
    PROVE  HistoryInv'
<1>1. CASE \E i \in 1..locals, given \in {"none", "clock_in", "clock_out"} :
              History!record_manual_attendance(i, given)
  <2>1. PICK i \in 1..locals, given \in {"none", "clock_in", "clock_out"} :
              History!record_manual_attendance(i, given)
    BY <1>1
  <2>2. /\ InRoster(i)
        /\ UNCHANGED <<enrolled, workers, locals>>
        /\ History!log_attendance(i, workers[i].person, workers[i].server, given)
    BY <2>1, HistoryConstants
       DEF History!record_manual_attendance, History!rosterVars, History!Here, InRoster,
           HistoryInv, DirectoryOK
  <2> QED
    BY <2>2, LogAttendanceInv
<1>2. CASE \/ \E i \in 1..locals : History!Match(i)
           \/ History!DropScan
  BY <1>2, HistoryStutterInv
     DEF History!Match, History!DropScan, History!rosterVars, History!logVars
<1>3. CASE History!log_recognized_attendance
  <2>1. /\ scan.worker \in 1..locals /\ scan.worker \in 1..MaxLocal
        /\ InRoster(scan.worker)
        /\ workers[scan.worker].server = scan.server
        /\ UNCHANGED <<enrolled, workers, locals>>
    BY <1>3, HistoryConstants
       DEF History!log_recognized_attendance, History!StillEnrolled, History!Here, HandOK,
           HistoryInv, DirectoryOK, InRoster, History!rosterVars
  <2>2. History!Owner(scan) = workers[scan.worker].person
    BY <2>1 DEF History!Owner, History!NoServer, HistoryInv, DirectoryOK
  <2>3. History!log_attendance(scan.worker, workers[scan.worker].person,
                               workers[scan.worker].server, "none")
    BY <1>3, <2>1, <2>2 DEF History!log_recognized_attendance
  <2> QED
    BY <2>1, <2>3, LogAttendanceInv
<1> QED
  BY <1>1, <1>2, <1>3 DEF History!Clocking

LEMMA HistoryNextInv ==
    ASSUME HistoryInv, HandOK, History!Next
    PROVE  HistoryInv' /\ HandOK'
<1>1. CASE \E t \in History!Wall : History!StepClock(t)
  <2>1. UNCHANGED <<enrolled, workers, locals, log, events, history, scan>>
    BY <1>1 DEF History!StepClock, History!rosterVars, History!logVars
  <2> QED
    BY <2>1, HistoryStutterInv DEF HandOK
<1>2. CASE History!Roster
  <2>1. HistoryInv'
    BY <1>2, RosterInv, RemoveWorkerInv DEF History!Roster
  <2>2. locals \in Nat
    BY DEF HistoryInv, DirectoryOK
  <2>3. scan' = scan /\ locals' \in {locals, locals + 1}
    <3>1. ASSUME NEW q \in People, NEW server, History!add_worker(q, server)
          PROVE  scan' = scan /\ locals' \in {locals, locals + 1}
      BY <3>1 DEF History!add_worker
    <3>2. ASSUME NEW q \in People, History!Restore(q)
          PROVE  scan' = scan /\ locals' \in {locals, locals + 1}
      BY <3>2 DEF History!Restore
    <3>3. ASSUME NEW i \in 1..locals, History!RemoveWorker(i)
          PROVE  scan' = scan /\ locals' \in {locals, locals + 1}
      BY <3>3 DEF History!RemoveWorker
    <3> QED
      BY <1>2, <3>1, <3>2, <3>3 DEF History!Roster
  <2> QED
    BY <2>1, <2>2, <2>3 DEF HandOK
<1>3. CASE History!Clocking
  <2>1. HistoryInv'
    BY <1>3, ClockingInv
  <2>2. HandOK'
    BY <1>3
       DEF HandOK, History!Clocking, History!record_manual_attendance, History!Match,
           History!DropScan, History!log_recognized_attendance, History!rosterVars
  <2> QED
    BY <2>1, <2>2
<1>4. CASE \E row \in log :
              \/ History!mark_synced(row)
              \/ History!prune_synced_history(row)
  <2>1. HistoryInv'
    BY <1>4, MarkSyncedInv, PruneInv
  <2>2. UNCHANGED <<scan, locals>>
    BY <1>4 DEF History!mark_synced, History!prune_synced_history, History!rosterVars
  <2> QED
    BY <2>1, <2>2 DEF HandOK
<1> QED
  BY <1>1, <1>2, <1>3, <1>4 DEF History!Next

LEMMA LastExists ==
    ASSUME NEW n \in Nat, NEW S, S # {}, \A x \in S : x.id \in 1..n
    PROVE  \E x \in S : \A y \in S : y.id <= x.id
<1> DEFINE D == {n - x.id : x \in S}
<1>1. D \in SUBSET Nat /\ D # {}
  OBVIOUS
<1>2. PICK d \in D : \A e \in D : <<e, d>> \notin OpToRel(<, Nat)
  BY <1>1, NatLessThanWellFounded, WFMin
<1>3. \A e \in D : ~(e < d)
  BY <1>1, <1>2 DEF OpToRel
<1>4. PICK x \in S : d = n - x.id
  OBVIOUS
<1>5. ASSUME NEW y \in S
      PROVE  y.id <= x.id
  <2>1. ~(n - y.id < n - x.id)
    BY <1>3, <1>4
  <2>2. x.id \in 1..n /\ y.id \in 1..n
    OBVIOUS
  <2> QED
    BY <2>1, <2>2
<1> QED
  BY <1>5

\* The kiosk finds the last event of those it should remember, or none.
LEMMA LastIsKnown ==
    ASSUME HistoryInv, NEW i \in 1..MaxLocal, InRoster(i)
    PROVE  /\ History!IsLast(History!_get_last_attendance(i), History!Remembered(i))
           /\ \A e \in History!Remembered(i), f \in history[workers[i].person] :
                (\A g \in History!Remembered(i) : g.id <= e.id) => f.id <= e.id
<1> DEFINE q == workers[i].person
           s == workers[i].server
           known == {event \in history[q] : s = "none" => event.worker = i}
           scope == {row \in log : row.worker = i \/ (s # "none" /\ row.server = s)}
<1>1. q \in People /\ s \in {"none", q} /\ q # "none" /\ events \in Nat
  BY HistoryConstants DEF HistoryInv, DirectoryOK
<1>2. /\ History!Remembered(i) = known
      /\ History!InScope(i) = scope
  BY DEF History!Remembered, History!InScope, History!NoServer
<1>3. \A e \in history[q] :
         /\ e.id \in 1..events /\ e.worker \in 1..locals /\ locals \in Nat
         /\ InRoster(e.worker) => workers[e.worker].person = q
         /\ e.worker <= i
         /\ \A f \in history[q] : e.worker < f.worker => e.id < f.id
  BY <1>1 DEF HistoryInv, EventsOK, DirectoryOK
<1>4. ASSUME NEW row \in scope
      PROVE  \E e \in known : Same(e, row)
  <2>1. CASE s = "none"
    <3>1. row.worker = i /\ row \in log
      BY <2>1
    <3>2. PICK e \in history[q] : Same(e, row)
      BY <3>1 DEF HistoryInv, LogOK
    <3> QED
      BY <3>1, <3>2 DEF Same
  <2>2. CASE s # "none"
    <3>1. s = q /\ row \in log
      BY <1>1, <2>2
    <3>2. \E e \in history[q] : Same(e, row)
      BY <1>1, <3>1 DEF HistoryInv, LogOK
    <3> QED
      BY <2>2, <3>2
  <2> QED
    BY <2>1, <2>2
<1>5. ASSUME NEW e \in known, \A g \in known : g.id <= e.id
      PROVE  \E row \in scope : Same(e, row)
  <2>1. \A f \in history[q] : f.worker = e.worker => f.id <= e.id
    BY <1>5
  <2>2. PICK row \in log : Same(e, row) /\ (InRoster(e.worker) \/ row.server = q)
    BY <1>1, <2>1 DEF HistoryInv, LatestOK
  <2>3. CASE InRoster(e.worker)
    <3>1. e.worker = i
      BY <1>3, <2>3 DEF HistoryInv, DirectoryOK, InRoster
    <3> QED
      BY <2>2, <3>1 DEF Same
  <2>4. CASE row.server = q /\ s # "none"
    BY <1>1, <2>2, <2>4
  <2>5. CASE s = "none"
    BY <2>2, <2>5 DEF Same
  <2> QED
    BY <2>2, <2>3, <2>4, <2>5
<1>6. \A row \in scope : row.id \in 1..events
  BY DEF HistoryInv, LogOK
<1>7. History!IsLast(History!_get_last_attendance(i), known)
  <2>1. CASE known = {}
    <3>1. scope = {}
      BY <1>4, <2>1
    <3> QED
      BY <1>2, <2>1, <3>1 DEF History!IsLast, History!_get_last_attendance
  <2>2. CASE known # {}
    <3>1. PICK e \in known : \A g \in known : g.id <= e.id
      BY <1>1, <1>3, <2>2, LastExists
    <3>2. PICK seen \in scope : Same(e, seen)
      BY <1>5, <3>1
    <3>3. PICK top \in scope : \A other \in scope : other.id <= top.id
      BY <1>1, <1>6, <3>2, LastExists
    <3> DEFINE row == CHOOSE row \in scope : \A other \in scope : other.id <= row.id
    <3>4. row \in scope /\ \A other \in scope : other.id <= row.id
      BY <3>3
    <3>5. History!_get_last_attendance(i) =
              [id |-> row.id, action |-> row.action, epoch |-> row.epoch]
      BY <1>2, <3>2 DEF History!_get_last_attendance
    <3> HIDE DEF row
    <3>6. PICK f \in known : Same(f, row)
      BY <1>4, <3>4
    <3>7. e.id <= f.id
      BY <3>2, <3>4, <3>6 DEF Same
    <3>8. \A g \in known : g.id <= f.id
      BY <1>1, <1>3, <3>1, <3>6, <3>7
    <3>9. History!_get_last_attendance(i) =
              [id |-> f.id, action |-> f.action, epoch |-> f.epoch]
      BY <3>5, <3>6 DEF Same
    <3> QED
      BY <2>2, <3>6, <3>8, <3>9 DEF History!IsLast
  <2> QED
    BY <2>1, <2>2
<1>8. ASSUME NEW e \in known, NEW f \in history[q], \A g \in known : g.id <= e.id
      PROVE  f.id <= e.id
  <2>1. CASE s # "none"
    BY <1>8, <2>1
  <2>2. CASE s = "none"
    <3>1. e.worker = i
      BY <2>2
    <3>2. CASE f.worker = i
      BY <1>8, <2>2, <3>2
    <3>3. CASE f.worker # i
      <4>1. f.worker < e.worker
        BY <1>3, <3>1, <3>3
      <4> QED
        BY <1>3, <4>1
    <3> QED
      BY <3>2, <3>3
  <2> QED
    BY <2>1, <2>2
<1> QED
  BY <1>2, <1>7, <1>8

LEMMA LastIsAlwaysKnown ==
    ASSUME HistoryInv
    PROVE  History!LastKnown
BY LastIsKnown DEF History!LastKnown, History!Here, History!Locals, InRoster

\* An event that is new was written for a row of the roster.
LEMMA NewEvents ==
    ASSUME HistoryInv, HandOK, History!Next,
           NEW q \in People, NEW event \in history'[q], event.id > events
    PROVE  \E i \in 1..locals, given \in {"none", "clock_in", "clock_out"} :
              /\ InRoster(i)
              /\ History!log_attendance(i, workers[i].person, workers[i].server, given)
<1>1. ~(event \in history[q])
  BY DEF HistoryInv, DirectoryOK, EventsOK
<1>2. ASSUME UNCHANGED history PROVE FALSE
  BY <1>1, <1>2
<1>3. ASSUME NEW i \in 1..locals, History!RemoveWorker(i) PROVE FALSE
  <2>1. /\ history' = IF workers[i].server # History!NoServer THEN history
                      ELSE [history EXCEPT ![workers[i].person] =
                               {e \in @ : e.worker # i}]
    BY <1>3 DEF History!RemoveWorker
  <2>2. history'[q] \subseteq history[q]
    BY <2>1 DEF HistoryInv, EventsOK
  <2> QED
    BY <1>1, <2>2
<1>4. CASE History!log_recognized_attendance
  <2>1. /\ scan.worker \in 1..locals /\ InRoster(scan.worker)
        /\ workers[scan.worker].server = scan.server
    BY <1>4, HistoryConstants
       DEF History!log_recognized_attendance, History!StillEnrolled, History!Here, HandOK,
           HistoryInv, DirectoryOK, InRoster
  <2>2. History!Owner(scan) = workers[scan.worker].person
    BY <2>1 DEF History!Owner, History!NoServer, HistoryInv, DirectoryOK, InRoster
  <2>3. History!log_attendance(scan.worker, workers[scan.worker].person,
                               workers[scan.worker].server, "none")
    BY <1>4, <2>1, <2>2 DEF History!log_recognized_attendance
  <2> QED
    BY <2>1, <2>3
<1>5. ASSUME NEW i \in 1..locals, NEW given \in {"none", "clock_in", "clock_out"},
             History!record_manual_attendance(i, given)
      PROVE  /\ InRoster(i)
             /\ History!log_attendance(i, workers[i].person, workers[i].server, given)
  BY <1>5, HistoryConstants
     DEF History!record_manual_attendance, History!Here, InRoster, HistoryInv, DirectoryOK
<1>6. ASSUME NEW t, History!StepClock(t) PROVE FALSE
  BY <1>2, <1>6 DEF History!StepClock, History!logVars
<1>7. ASSUME NEW u \in People, NEW server, History!add_worker(u, server) PROVE FALSE
  BY <1>2, <1>7 DEF History!add_worker, History!logVars
<1>8. ASSUME NEW u \in People, History!Restore(u) PROVE FALSE
  BY <1>2, <1>8 DEF History!Restore, History!logVars
<1>9. ASSUME NEW i, History!Match(i) PROVE FALSE
  BY <1>2, <1>9 DEF History!Match, History!logVars
<1>10. ASSUME History!DropScan PROVE FALSE
  BY <1>2, <1>10 DEF History!DropScan, History!logVars
<1>11. ASSUME NEW row, History!mark_synced(row) \/ History!prune_synced_history(row)
       PROVE  FALSE
  BY <1>2, <1>11 DEF History!mark_synced, History!prune_synced_history
<1> QED
  BY <1>3, <1>4, <1>5, <1>6, <1>7, <1>8, <1>9, <1>10, <1>11
     DEF History!Next, History!Roster, History!Clocking

\* An exit is inferred from a last event that is an entry.
LEMMA InferredOut ==
    ASSUME KioskType = "auto", NEW i, History!_infer_clock_action(i) = "clock_out"
    PROVE  History!_get_last_attendance(i).action = "clock_in"
BY Zenon DEF History!_infer_clock_action

LEMMA NoOutIsRepeated ==
    ASSUME HistoryInv, HandOK, History!Next, NEW q \in People, NEW event \in history'[q],
           KioskType = "auto", event.id > events, event.inferred,
           event.action = "clock_out"
    PROVE  \E last \in history[q] :
              /\ last.action = "clock_in"
              /\ \A other \in history[q] : other.id <= last.id
<1>1. PICK i \in 1..locals, given \in {"none", "clock_in", "clock_out"} :
              /\ InRoster(i)
              /\ History!log_attendance(i, workers[i].person, workers[i].server, given)
  BY NewEvents
<1>2. i \in 1..MaxLocal
  BY <1>1 DEF InRoster
<1>3. PICK action : action = IF given = "none" THEN History!_infer_clock_action(i)
                             ELSE given
  OBVIOUS
<1> DEFINE new == [id |-> events + 1, action |-> action, epoch |-> wall, worker |-> i,
                   inferred |-> given = "none"]
<1>4. history' = [history EXCEPT ![workers[i].person] = @ \cup {new}]
  BY <1>1, <1>3 DEF History!log_attendance
<1>5. new.action = action /\ (new.inferred => given = "none")
  OBVIOUS
<1> HIDE DEF new
<1>6. ~(event \in history[q])
  BY DEF HistoryInv, DirectoryOK, EventsOK
<1>7. q = workers[i].person /\ event = new
  BY <1>6, <1>4 DEF HistoryInv, EventsOK
<1>8. given = "none" /\ History!_infer_clock_action(i) = "clock_out"
  BY <1>3, <1>7, <1>5
<1>9. History!_get_last_attendance(i).action = "clock_in"
  BY <1>8, InferredOut
<1>10. /\ History!IsLast(History!_get_last_attendance(i), History!Remembered(i))
      /\ \A e \in History!Remembered(i), f \in history[workers[i].person] :
           (\A g \in History!Remembered(i) : g.id <= e.id) => f.id <= e.id
  BY <1>1, <1>2, LastIsKnown
<1>11. History!Remembered(i) # {}
  BY <1>9, <1>10 DEF History!IsLast, History!NoEvent
<1>12. PICK last \in History!Remembered(i) :
          /\ History!_get_last_attendance(i) =
                [id |-> last.id, action |-> last.action, epoch |-> last.epoch]
          /\ \A g \in History!Remembered(i) : g.id <= last.id
  BY <1>10, <1>11 DEF History!IsLast
<1>13. last.action = "clock_in"
  BY <1>9, <1>12
<1>14. last \in history[q] /\ \A other \in history[q] : other.id <= last.id
  BY <1>7, <1>10, <1>12 DEF History!Remembered
<1> QED
  BY <1>13, <1>14

-----------------------------------------------------------------------------
(* Recognition attempts and their reviews.                                 *)

Scanned == 1..Len(Decisions)
Keyless == {n \in Scanned : n \in Unkeyed}

LEMMA AttemptConstants ==
    /\ Len(Decisions) \in Nat /\ DOMAIN Decisions = Scanned
    /\ Unkeyed \subseteq Scanned /\ 1 \in Unkeyed
    /\ Attempts!Scans = Scanned /\ Attempts!Attempts = Scanned
    /\ Scanned \subseteq Nat /\ IsFiniteSet(Scanned)
<1>1. Len(Decisions) \in Nat /\ DOMAIN Decisions = Scanned
  BY AttemptsAssumption DEF Attempts!RecognitionReviewsAssumption, Scanned
<1>2. Unkeyed \subseteq Scanned /\ 1 \in Unkeyed
  BY <1>1, AttemptsAssumption DEF Attempts!RecognitionReviewsAssumption
<1>3. IsFiniteSet(Scanned)
  BY <1>1, FS_Interval DEF Scanned
<1> QED
  BY <1>1, <1>2, <1>3 DEF Attempts!Scans, Attempts!Attempts, Scanned

\* The ids of rows, old and new.
Ids == {<<>>} \cup {<<"row", k>> : k \in Nat} \cup {<<"uuid", n>> : n \in Scanned}

LEMMA IdFacts ==
    /\ Attempts!NoId \in Ids
    /\ \A n \in Scanned : /\ Attempts!Uuid(n) \in Ids /\ Attempts!Uuid(n) # Attempts!NoId
                          /\ Attempts!RowId(n) # Attempts!NoId
                          /\ rowOf[n] \in Nat => Attempts!RowId(n) \in Ids
    /\ \A n, k \in Scanned : /\ Attempts!Uuid(n) # Attempts!RowId(k)
                             /\ Attempts!Uuid(n) = Attempts!Uuid(k) => n = k
BY DEF Ids, Attempts!NoId, Attempts!Uuid, Attempts!RowId

AttemptLabels == {"", "seen", "confirmed", "ignored"}

AttemptRows ==
    [source : Ids, alias : Ids, evidence : Scanned, reviewed : BOOLEAN,
     label : AttemptLabels, note : Notes \cup {""}, updatedAt : Nat]

\* A card's row is given once; what is queued has ids.
CardOK ==
    /\ release \in {"old", "new"}
    /\ recorded \subseteq Scanned
    /\ queue \subseteq recorded /\ queue \cap Unkeyed = {}
    /\ aged \subseteq recorded /\ aged \cap Unkeyed = {}
    /\ release = "old" => \A n \in recorded : n \in Unkeyed \/ n \in aged
    /\ rowOf \in [Scanned -> Nat]
    /\ lastRow \in Nat

\* A row was sent by a release that names it so.
NamedOK(row) ==
    /\ row.evidence \in Unkeyed => row.source = Attempts!NoId /\ row.alias = Attempts!NoId
    /\ row.evidence \notin Unkeyed =>
          /\ row.evidence \in recorded
          /\ \/ /\ row.source = Attempts!RowId(row.evidence)
                /\ row.alias = Attempts!NoId
                /\ row.evidence \in aged
             \/ /\ row.source = Attempts!Uuid(row.evidence)
                /\ row.alias \in {Attempts!NoId, Attempts!RowId(row.evidence)}
                /\ release = "new"

\* No attempt is in the table twice, and no id.
OnceIn(t) ==
    /\ \A a, b \in DOMAIN t : t[a].evidence = t[b].evidence => a = b
    /\ \A a, b \in DOMAIN t :
          t[a].source = t[b].source /\ t[a].source # Attempts!NoId => a = b

TableOK(t) ==
    /\ t \in Seq(AttemptRows)
    /\ \A a \in DOMAIN t : NamedOK(t[a])
    /\ OnceIn(t)

\* A table after an upload: what was reviewed stays, and what is new is not.
SameReview(row, old) ==
    /\ row.evidence = old.evidence /\ row.reviewed = old.reviewed
    /\ row.label = old.label /\ row.note = old.note /\ row.updatedAt = old.updatedAt

Unreviewed(row) ==
    ~row.reviewed /\ row.label = "" /\ row.note = "" /\ row.updatedAt = 0

Uploaded(t, u) ==
    /\ DOMAIN t \subseteq DOMAIN u
    /\ \A a \in DOMAIN t : SameReview(u[a], t[a])
    /\ \A a \in DOMAIN u : a \in DOMAIN t \/ Unreviewed(u[a])

Has(t, n) == \E a \in DOMAIN t : t[a].evidence = n

LEMMA UploadedTwice ==
    ASSUME NEW t, NEW u, NEW v, Uploaded(t, u), Uploaded(u, v)
    PROVE  Uploaded(t, v)
<1>1. \A a \in DOMAIN t : SameReview(v[a], t[a])
  BY DEF Uploaded, SameReview
<1>2. \A a \in DOMAIN v : a \in DOMAIN t \/ Unreviewed(v[a])
  <2> SUFFICES ASSUME NEW a \in DOMAIN v, ~(a \in DOMAIN t)
               PROVE  Unreviewed(v[a])
    OBVIOUS
  <2>1. CASE a \in DOMAIN u
    <3>1. Unreviewed(u[a]) /\ SameReview(v[a], u[a])
      BY <2>1 DEF Uploaded
    <3> QED
      BY <3>1 DEF Unreviewed, SameReview
  <2>2. CASE ~(a \in DOMAIN u)
    BY <2>2 DEF Uploaded
  <2> QED
    BY <2>1, <2>2
<1> QED
  BY <1>1, <1>2 DEF Uploaded

LEMMA HasStays ==
    ASSUME NEW t, NEW u, Uploaded(t, u), NEW n, Has(t, n)
    PROVE  Has(u, n)
BY DEF Uploaded, SameReview, Has

LEMMA MessageFacts ==
    ASSUME CardOK, NEW n \in Scanned, n \in recorded \/ n \in Unkeyed
    PROVE  /\ Attempts!Message(n).evidence = n
           /\ Attempts!Message(n).source \in Ids /\ Attempts!Message(n).alias \in Ids
           /\ n \in Unkeyed => Attempts!Message(n).source = Attempts!NoId
           /\ n \notin Unkeyed =>
                \/ /\ Attempts!Message(n).source = Attempts!RowId(n)
                   /\ Attempts!Message(n).alias = Attempts!NoId
                   /\ release = "old" /\ n \in aged
                \/ /\ Attempts!Message(n).source = Attempts!Uuid(n)
                   /\ Attempts!Message(n).alias =
                         IF n \in aged THEN Attempts!RowId(n) ELSE Attempts!NoId
                   /\ release = "new"
BY IdFacts DEF CardOK, Attempts!Message

LEMMA ReplacedInSeq ==
    ASSUME NEW S, NEW s \in Seq(S), NEW i \in DOMAIN s, NEW x \in S,
           NEW u, u = [s EXCEPT ![i] = x]
    PROVE  /\ u \in Seq(S) /\ DOMAIN u = DOMAIN s
           /\ u[i] = x /\ \A a \in DOMAIN s : a # i => u[a] = s[a]
<1>1. i \in 1..Len(s) /\ DOMAIN s = 1..Len(s)
  OBVIOUS
<1>2. u \in Seq(S)
  BY <1>1, ExceptSeq
<1> QED
  BY <1>1, <1>2

\* A row that is new.
LEMMA AppendedOK ==
    ASSUME CardOK, NEW t, TableOK(t), NEW n \in Scanned, n \in recorded \/ n \in Unkeyed,
           NEW u, u = Append(t, Attempts!normalizeAttempt(Attempts!Message(n))),
           \A a \in DOMAIN t : t[a].evidence # n,
           \A a \in DOMAIN t :
              t[a].source = Attempts!Message(n).source => t[a].source = Attempts!NoId
    PROVE  TableOK(u) /\ Uploaded(t, u) /\ Has(u, n)
<1> DEFINE m == Attempts!Message(n)
<1>1. PICK row : row = Attempts!normalizeAttempt(m)
  OBVIOUS
<1>2. row = [source |-> m.source, alias |-> Attempts!NoId, evidence |-> n,
             reviewed |-> FALSE, label |-> "", note |-> "", updatedAt |-> 0]
  BY <1>1, MessageFacts DEF Attempts!normalizeAttempt
<1>3. row \in AttemptRows
  BY <1>2, MessageFacts, IdFacts DEF AttemptRows, AttemptLabels
<1>4. Unreviewed(row) /\ row.evidence = n /\ row.source = m.source
  BY <1>2 DEF Unreviewed
<1>5. NamedOK(row)
  BY <1>2, MessageFacts DEF NamedOK
<1>6. /\ Len(t) \in Nat /\ DOMAIN t = 1..Len(t)
      /\ u \in Seq(AttemptRows) /\ Len(u) = Len(t) + 1 /\ DOMAIN u = 1..(Len(t) + 1)
      /\ \A a \in 1..Len(t) : u[a] = t[a]
      /\ u[Len(t) + 1] = row
  <2>1. t \in Seq(AttemptRows) /\ u = Append(t, row)
    BY <1>1 DEF TableOK
  <2> QED
    BY <1>3, <2>1, AppendProperties
<1>7. \A a \in DOMAIN u : a \in DOMAIN t \/ (u[a] = row /\ a = Len(t) + 1)
  BY <1>6
<1>8. \A a \in DOMAIN u : NamedOK(u[a])
  <2> SUFFICES ASSUME NEW a \in DOMAIN u PROVE NamedOK(u[a])
    OBVIOUS
  <2>1. CASE a \in DOMAIN t
    BY <1>6, <2>1 DEF TableOK
  <2> QED
    BY <1>5, <1>7, <2>1
<1>9. OnceIn(u)
  BY <1>4, <1>6, <1>7 DEF TableOK, OnceIn
<1>10. Uploaded(t, u) /\ Has(u, n)
  BY <1>4, <1>6, <1>7 DEF Uploaded, SameReview, Has
<1> QED
  BY <1>6, <1>8, <1>9, <1>10 DEF TableOK

\* A row that is adopted under a UUID.
LEMMA AdoptedOK ==
    ASSUME CardOK, NEW t, TableOK(t), NEW i \in DOMAIN t,
           NEW n, n = t[i].evidence, n \notin Unkeyed, release = "new",
           NEW alias \in {Attempts!NoId, Attempts!RowId(n)},
           NEW u, u = [t EXCEPT ![i].source = Attempts!Uuid(n), ![i].alias = alias],
           \A a \in DOMAIN t : t[a].source # Attempts!Uuid(n)
    PROVE  TableOK(u) /\ Uploaded(t, u) /\ Has(u, n)
<1>1. /\ t \in Seq(AttemptRows) /\ t[i] \in AttemptRows /\ n \in Scanned
      /\ NamedOK(t[i]) /\ n \in recorded
  <2>1. t \in Seq(AttemptRows) /\ NamedOK(t[i])
    BY DEF TableOK
  <2>2. t[i] \in AttemptRows
    BY <2>1
  <2> QED
    BY <2>1, <2>2 DEF AttemptRows, NamedOK
<1>2. alias \in Ids /\ Attempts!Uuid(n) \in Ids
  BY <1>1, IdFacts DEF CardOK
<1>3. PICK row : row = [t[i] EXCEPT !.source = Attempts!Uuid(n), !.alias = alias]
  OBVIOUS
<1>4. /\ row \in AttemptRows
      /\ row.source = Attempts!Uuid(n) /\ row.alias = alias
      /\ SameReview(row, t[i])
  <2>1. row = [source |-> Attempts!Uuid(n), alias |-> alias, evidence |-> t[i].evidence,
               reviewed |-> t[i].reviewed, label |-> t[i].label, note |-> t[i].note,
               updatedAt |-> t[i].updatedAt]
    BY <1>1, <1>3 DEF AttemptRows
  <2>2. /\ t[i].evidence \in Scanned /\ t[i].reviewed \in BOOLEAN
        /\ t[i].label \in AttemptLabels /\ t[i].note \in Notes \cup {""}
        /\ t[i].updatedAt \in Nat
    BY <1>1 DEF AttemptRows
  <2> QED
    BY <1>2, <2>1, <2>2 DEF AttemptRows, SameReview
<1>5. u = [t EXCEPT ![i] = row]
  BY <1>1, <1>3
<1>6. /\ u \in Seq(AttemptRows) /\ DOMAIN u = DOMAIN t
      /\ u[i] = row /\ \A a \in DOMAIN t : a # i => u[a] = t[a]
  <2>1. i \in 1..Len(t)
    BY <1>1
  <2>2. u \in Seq(AttemptRows)
    <3>1. t \in Seq(AttemptRows) /\ row \in AttemptRows
      BY <1>1, <1>4
    <3>2. [t EXCEPT ![i] = row] \in Seq(AttemptRows)
      BY <2>1, <3>1, ExceptSeq, Zenon
    <3> QED
      BY <1>5, <3>2, Zenon
  <2> QED
    BY <1>1, <1>5, <2>2
<1>7. NamedOK(row)
  BY <1>1, <1>4 DEF NamedOK, SameReview
<1>8. \A a \in DOMAIN u : NamedOK(u[a])
  BY <1>6, <1>7 DEF TableOK
<1>9. \A a \in DOMAIN u : SameReview(u[a], t[a])
  BY <1>4, <1>6 DEF SameReview
<1>10. OnceIn(u)
  BY <1>4, <1>6, <1>9 DEF TableOK, OnceIn, SameReview
<1>11. Uploaded(t, u) /\ Has(u, n)
  BY <1>6, <1>9 DEF Uploaded, Has, SameReview
<1> QED
  BY <1>6, <1>8, <1>10, <1>11 DEF TableOK

LEMMA SameTableOK ==
    ASSUME NEW t, TableOK(t), NEW n, Has(t, n)
    PROVE  TableOK(t) /\ Uploaded(t, t) /\ Has(t, n)
BY DEF Uploaded, SameReview

\* One attempt of an upload.
LEMMA IngestOK ==
    ASSUME CardOK, NEW t, TableOK(t), NEW n \in Scanned, n \in recorded \/ n \in Unkeyed,
           NEW u \in Attempts!Ingest(t, Attempts!Message(n))
    PROVE  TableOK(u) /\ Uploaded(t, u) /\ Has(u, n)
<1> DEFINE m == Attempts!Message(n)
<1>1. /\ m.evidence = n
      /\ n \in Unkeyed => m.source = Attempts!NoId
      /\ n \notin Unkeyed => m.source # Attempts!NoId
  BY MessageFacts, IdFacts
<1>2. CASE n \in Unkeyed
  <2>1. u \in {IF Attempts!Without(t, m) # {} THEN t
               ELSE Append(t, Attempts!normalizeAttempt(m))}
    BY <1>1, <1>2 DEF Attempts!Ingest
  <2>2. CASE Attempts!Without(t, m) # {}
    <3>1. Has(t, n) /\ u = t
      BY <1>1, <2>1, <2>2 DEF Attempts!Without, Attempts!sameEvidence, Has
    <3> QED
      BY <3>1, SameTableOK
  <2>3. CASE Attempts!Without(t, m) = {}
    <3>1. \A a \in DOMAIN t : t[a].evidence # n
      BY <1>1, <1>2, <2>3
         DEF Attempts!Without, Attempts!sameEvidence, TableOK, NamedOK
    <3> QED
      BY <1>1, <1>2, <2>1, <2>3, <3>1, AppendedOK
  <2> QED
    BY <2>2, <2>3
<1>3. CASE n \notin Unkeyed
  <2>1. \A a \in DOMAIN t : t[a].evidence = n =>
            t[a].source \in {Attempts!RowId(n), Attempts!Uuid(n)}
    BY <1>3 DEF TableOK, NamedOK
  <2>2. DOMAIN t \subseteq Nat
    BY DEF TableOK
  <2>3. CASE Attempts!Named(t, m.source) # {}
    <3>1. /\ u = t
          /\ \E i \in Attempts!Named(t, m.source) : t[i].evidence = n
      BY <1>1, <1>3, <2>3 DEF Attempts!Ingest, Attempts!sameEvidence
    <3>2. Has(t, n)
      BY <3>1 DEF Attempts!Named, Attempts!Earliest, Has
    <3> QED
      BY <3>1, <3>2, SameTableOK
  <2>4. CASE Attempts!Named(t, m.source) = {}
    <3>1. \A a \in DOMAIN t : t[a].source # m.source
      <4> SUFFICES ASSUME NEW a \in DOMAIN t, t[a].source = m.source
                   PROVE  FALSE
        OBVIOUS
      <4>1. \A b \in DOMAIN t : t[b].source = m.source => b = a
        BY <1>1, <1>3 DEF TableOK, OnceIn
      <4>2. a \in Attempts!Named(t, m.source)
        BY <2>2, <4>1 DEF Attempts!Named, Attempts!Earliest
      <4> QED
        BY <2>4, <4>2
    <3>2. CASE Attempts!Adopts(t, m) # {}
      <4>1. PICK i \in Attempts!Adopts(t, m) :
                u = [t EXCEPT ![i].source = m.source, ![i].alias = m.alias]
        BY <1>1, <1>3, <2>4, <3>2 DEF Attempts!Ingest
      <4>2. /\ m.alias # Attempts!NoId
            /\ i \in DOMAIN t /\ t[i].evidence = n
        BY <1>1, <4>1 DEF Attempts!Adopts, Attempts!Earliest, Attempts!sameEvidence
      <4>3. /\ m.source = Attempts!Uuid(n) /\ release = "new"
            /\ m.alias \in {Attempts!NoId, Attempts!RowId(n)}
        BY <1>3, <4>2, MessageFacts
      <4> QED
        BY <1>3, <3>1, <4>1, <4>2, <4>3, AdoptedOK
    <3>3. CASE Attempts!Adopts(t, m) = {}
      <4>1. u = Append(t, Attempts!normalizeAttempt(m))
        BY <1>1, <1>3, <2>4, <3>3 DEF Attempts!Ingest
      <4>2. \A a \in DOMAIN t : t[a].evidence # n
        <5> SUFFICES ASSUME NEW a \in DOMAIN t, t[a].evidence = n
                     PROVE  FALSE
          OBVIOUS
        <5>1. NamedOK(t[a])
          BY DEF TableOK
        <5>2. CASE m.source = Attempts!RowId(n) /\ release = "old"
          BY <1>3, <3>1, <5>1, <5>2 DEF NamedOK
        <5>3. CASE /\ m.source = Attempts!Uuid(n) /\ release = "new"
                   /\ m.alias = IF n \in aged THEN Attempts!RowId(n) ELSE Attempts!NoId
          <6>1. t[a].source = Attempts!RowId(n) /\ n \in aged
            BY <1>3, <3>1, <5>1, <5>3 DEF NamedOK
          <6>2. m.alias = Attempts!RowId(n) /\ m.alias # Attempts!NoId
            BY <5>3, <6>1, IdFacts
          <6>3. \A b \in DOMAIN t : t[b].source = m.alias => b = a
            BY <6>1, <6>2 DEF TableOK, OnceIn
          <6>4. a \in Attempts!Earliest({i \in DOMAIN t : t[i].source = m.alias})
            BY <2>2, <6>1, <6>2, <6>3 DEF Attempts!Earliest
          <6>5. a \in Attempts!Adopts(t, m)
            BY <1>1, <6>2, <6>4 DEF Attempts!Adopts, Attempts!sameEvidence
          <6> QED
            BY <3>3, <6>5
        <5> QED
          BY <1>3, <5>2, <5>3, MessageFacts
      <4> QED
        BY <3>1, <4>1, <4>2, AppendedOK
    <3> QED
      BY <3>2, <3>3
  <2> QED
    BY <2>3, <2>4
<1> QED
  BY <1>2, <1>3

\* A batch of the queue.
IsBatch(batch) ==
    /\ Len(batch) \in {1, 2}
    /\ \A i \in 1..Len(batch) :
          \E n \in recorded : n \notin Unkeyed /\ batch[i] = Attempts!Message(n)

LEMMA AttemptCardinality ==
    ASSUME NEW S
    PROVE  Attempts!Cardinality(S) = Cardinality(S)
BY DEF Attempts!Cardinality, Cardinality

LEMMA BatchFacts ==
    ASSUME CardOK, NEW scans \in Attempts!Requests
    PROVE  /\ IsBatch(Attempts!Batch(scans))
           /\ \A n \in scans : \E i \in 1..Len(Attempts!Batch(scans)) :
                 Attempts!Batch(scans)[i] = Attempts!Message(n)
<1>1. /\ scans \subseteq queue /\ scans \subseteq Scanned /\ scans \subseteq recorded
      /\ \A n \in scans : n \notin Unkeyed
      /\ IsFiniteSet(scans) /\ scans \subseteq Nat
      /\ Cardinality(scans) \in 1..2
  <2>1. scans \subseteq queue /\ Cardinality(scans) \in 1..2
    BY AttemptCardinality DEF Attempts!Requests
  <2>2. queue \subseteq Scanned /\ queue \subseteq recorded
        /\ \A n \in queue : n \notin Unkeyed
    BY DEF CardOK
  <2> QED
    BY <2>1, <2>2, AttemptConstants, FS_Subset
<1> DEFINE Below(n) == {k \in scans : k <= n}
           Nth(i) == CHOOSE n \in scans : Attempts!Cardinality(Below(n)) = i
           batch == Attempts!Batch(scans)
<1>2. batch = [i \in 1..Cardinality(scans) |-> Attempts!Message(Nth(i))]
  <2>1. Attempts!Cardinality(scans) = Cardinality(scans)
    BY AttemptCardinality
  <2> QED
    BY <2>1 DEF Attempts!Batch
<1>3. CASE Cardinality(scans) = 1
  <2>1. PICK n : scans = {n}
    BY <1>1, <1>3, FS_Singleton
  <2>2. n \in Nat /\ Below(n) = {n}
    BY <1>1, <2>1
  <2>3. Attempts!Cardinality(Below(n)) = 1
    BY <2>2, FS_Singleton, AttemptCardinality
  <2>4. Nth(1) = n
    BY <2>1, <2>3
  <2>5. 1 \in 1..1 /\ batch = [i \in 1..1 |-> Attempts!Message(Nth(i))]
    BY <1>2, <1>3
  <2> HIDE DEF Nth, batch
  <2>6. Len(batch) = 1 /\ 1..Len(batch) = {1} /\ batch[1] = Attempts!Message(n)
    BY <2>4, <2>5
  <2> QED
    BY <1>1, <2>1, <2>6 DEF IsBatch, batch
<1>4. CASE Cardinality(scans) = 2
  <2>1. PICK x \in scans : TRUE
    <3>1. Cardinality({}) = 0
      BY FS_EmptySet
    <3>2. scans # {}
      BY <1>4, <3>1
    <3> QED
      BY <3>2
  <2>2. IsFiniteSet(scans \ {x}) /\ Cardinality(scans \ {x}) = 1
    <3>1. IsFiniteSet(scans)
      BY <1>1
    <3>2. /\ IsFiniteSet(scans \ {x})
          /\ Cardinality(scans \ {x}) =
                IF x \in scans THEN Cardinality(scans) - 1 ELSE Cardinality(scans)
      BY <3>1, FS_RemoveElement
    <3> QED
      BY <1>4, <3>2
  <2>3. PICK y : scans \ {x} = {y}
    BY <2>2, FS_Singleton
  <2>4. PICK a \in scans, b \in scans : scans = {a, b} /\ a < b
    <3>1. scans = {x, y} /\ x # y /\ x \in Nat /\ y \in Nat
      BY <1>1, <2>1, <2>3
    <3> QED
      BY <3>1
  <2>5. a \in Nat /\ b \in Nat /\ Below(a) = {a} /\ Below(b) = {a, b}
    BY <1>1, <2>4
  <2>6. Attempts!Cardinality(Below(a)) = 1 /\ Attempts!Cardinality(Below(b)) = 2
    BY <1>4, <2>4, <2>5, FS_Singleton, AttemptCardinality
  <2>7. Nth(1) = a /\ Nth(2) = b
    BY <2>4, <2>6
  <2>8. batch = [i \in 1..2 |-> Attempts!Message(Nth(i))]
    BY <1>2, <1>4
  <2> HIDE DEF Nth, batch
  <2>9. /\ Len(batch) = 2 /\ 1..Len(batch) = {1, 2}
        /\ batch[1] = Attempts!Message(a) /\ batch[2] = Attempts!Message(b)
    BY <2>7, <2>8
  <2> QED
    BY <1>1, <2>4, <2>9 DEF IsBatch, batch
<1> QED
  BY <1>1, <1>3, <1>4

\* An upload: the table stays one, and has all that was sent.
LEMMA BatchOK ==
    ASSUME CardOK, TableOK(rows), NEW batch, IsBatch(batch),
           NEW u \in Attempts!ingestAttemptBatch(batch)
    PROVE  /\ TableOK(u) /\ Uploaded(rows, u)
           /\ \A n \in Scanned, i \in 1..Len(batch) :
                 n \in recorded /\ batch[i] = Attempts!Message(n) => Has(u, n)
<1>1. PICK n1 \in recorded : n1 \notin Unkeyed /\ batch[1] = Attempts!Message(n1)
  BY DEF IsBatch
<1>2. recorded \subseteq Scanned
  BY DEF CardOK
<1>3. \A n \in Scanned, k \in Scanned :
         /\ n \in recorded /\ k \in recorded
         /\ Attempts!Message(n) = Attempts!Message(k)
         => n = k
  BY MessageFacts
<1>4. CASE Len(batch) = 1
  <2>1. u \in Attempts!Ingest(rows, Attempts!Message(n1))
    BY <1>1, <1>4 DEF Attempts!ingestAttemptBatch
  <2>2. TableOK(u) /\ Uploaded(rows, u) /\ Has(u, n1)
    BY <1>2, <2>1, IngestOK
  <2> QED
    BY <1>1, <1>2, <1>3, <1>4, <2>2
<1>5. CASE Len(batch) = 2
  <2>1. PICK n2 \in recorded : n2 \notin Unkeyed /\ batch[2] = Attempts!Message(n2)
    BY <1>5 DEF IsBatch
  <2>2. PICK t \in Attempts!Ingest(rows, Attempts!Message(n1)) :
            u \in Attempts!Ingest(t, Attempts!Message(n2))
    BY <1>1, <1>5, <2>1 DEF Attempts!ingestAttemptBatch
  <2>3. TableOK(t) /\ Uploaded(rows, t) /\ Has(t, n1)
    BY <1>2, <2>2, IngestOK
  <2>4. TableOK(u) /\ Uploaded(t, u) /\ Has(u, n2)
    BY <1>2, <2>2, <2>3, IngestOK
  <2>5. Uploaded(rows, u) /\ Has(u, n1)
    BY <2>3, <2>4, UploadedTwice, HasStays
  <2>6. \A i \in 1..Len(batch) : i = 1 \/ i = 2
    BY <1>5
  <2> QED
    BY <1>1, <1>2, <1>3, <2>1, <2>4, <2>5, <2>6
<1> QED
  BY <1>4, <1>5 DEF IsBatch

\* What is shown is what the latest review made of it.
Meets(shown, x) == shown.status = x.status /\ shown.note \in x.notes

LEMMA RecordMeets ==
    ASSUME NEW status, NEW note, NEW x, x.status = status, note \in x.notes
    PROVE  Meets([status |-> status, note |-> note], x)
BY DEF Meets

\* A review is shown as it was made, and what has none is open.
ReviewsOK ==
    /\ time \in Nat
    /\ explicit \in [Scanned -> [status : {"open", "reviewed", "ignored"},
                                 note : Notes \cup {""}, at : Nat]]
    /\ expected \in [Scanned -> [status : {"open", "reviewed", "ignored"},
                                 notes : SUBSET (Notes \cup {""})]]
    /\ \A a \in Scanned : explicit[a].at <= time
    /\ \A a \in DOMAIN rows : rows[a].updatedAt <= time /\ Meets(Attempts!Shown(a), expected[a])
    /\ \A a \in Scanned : a \in DOMAIN rows
          \/ (explicit[a].at = 0 /\ expected[a] = Attempts!NotReviewed)

AttemptsInv ==
    /\ CardOK
    /\ TableOK(rows)
    /\ \A n \in recorded : n \in queue \/ n \in lost \/ Has(rows, n)
    /\ \A batch \in late : IsBatch(batch)
    /\ ReviewsOK

\* There are no more rows than scans.
LEMMA RowsAreFew ==
    ASSUME NEW t, TableOK(t)
    PROVE  DOMAIN t \subseteq Scanned
<1>1. /\ Len(t) \in Nat /\ DOMAIN t = 1..Len(t)
      /\ \A a \in DOMAIN t : t[a].evidence \in Scanned
  <2>1. t \in Seq(AttemptRows)
    BY DEF TableOK
  <2>2. ASSUME NEW a \in DOMAIN t
        PROVE  t[a] \in AttemptRows
    BY <2>1
  <2>3. \A a \in DOMAIN t : t[a].evidence \in Scanned
    BY <2>2 DEF AttemptRows
  <2> QED
    BY <2>1, <2>3
<1>2. Len(t) <= Len(Decisions)
  <2> SUFFICES ASSUME ~(Len(t) <= Len(Decisions))
               PROVE  FALSE
    OBVIOUS
  <2> DEFINE S == 1..Len(t)
             f == [a \in S |-> t[a].evidence]
  <2>1. /\ IsFiniteSet(S) /\ Cardinality(S) = Len(t)
        /\ IsFiniteSet(Scanned) /\ Cardinality(Scanned) = Len(Decisions)
    <3>1. 1 \in Int /\ Len(t) \in Int /\ Len(Decisions) \in Int
      BY <1>1, AttemptConstants
    <3>2. /\ IsFiniteSet(1..Len(t)) /\ IsFiniteSet(1..Len(Decisions))
          /\ Cardinality(1..Len(t)) = IF 1 > Len(t) THEN 0 ELSE Len(t) - 1 + 1
          /\ Cardinality(1..Len(Decisions)) =
                IF 1 > Len(Decisions) THEN 0 ELSE Len(Decisions) - 1 + 1
      BY <3>1, FS_Interval
    <3> QED
      BY <1>1, <3>2, AttemptConstants DEF Scanned
  <2>2. Cardinality(Scanned) < Cardinality(S) /\ f \in [S -> Scanned]
    <3>1. \A a \in S : t[a].evidence \in Scanned
      BY <1>1
    <3>2. f \in [S -> Scanned]
      BY <3>1
    <3> QED
      BY <1>1, <2>1, <3>2, AttemptConstants
  <2>3. PICK x \in S, y \in S : x # y /\ f[x] = f[y]
    <3> HIDE DEF f, S
    <3> QED
      BY <2>1, <2>2, FS_PigeonHole
  <2> QED
    BY <1>1, <2>3 DEF TableOK, OnceIn
<1> QED
  BY <1>1, <1>2, AttemptConstants DEF Scanned

\* What is shown of an attempt.
LEMMA ShownFacts ==
    ASSUME NEW a
    PROVE  /\ Attempts!explicitReviewIsNewer(a) =>
                 Attempts!Shown(a) = [status |-> explicit[a].status,
                                      note |-> explicit[a].note]
           /\ ~Attempts!explicitReviewIsNewer(a) /\ ~Attempts!Completed(rows[a]) =>
                 Attempts!Shown(a) = [status |-> "open", note |-> rows[a].note]
           /\ /\ ~Attempts!explicitReviewIsNewer(a) /\ Attempts!Completed(rows[a])
              /\ Attempts!Label(rows[a]) = "ignored"
              => Attempts!Shown(a) = [status |-> "ignored", note |-> rows[a].note]
           /\ /\ ~Attempts!explicitReviewIsNewer(a) /\ Attempts!Completed(rows[a])
              /\ Attempts!Label(rows[a]) # "ignored"
              => Attempts!Shown(a) = [status |-> "reviewed", note |-> rows[a].note]
BY DEF Attempts!Shown

LEMMA AttemptsInitInv ==
    ASSUME Attempts!Init
    PROVE  AttemptsInv
<1> USE AttemptConstants
<1>1. CardOK
  BY DEF Attempts!Init, CardOK
<1>2. PICK row : row = [source |-> Attempts!NoId, alias |-> Attempts!NoId, evidence |-> 1,
                        reviewed |-> TRUE, label |-> "seen", note |-> "", updatedAt |-> 0]
  OBVIOUS
<1>3. row \in AttemptRows /\ NamedOK(row)
  BY <1>2, IdFacts DEF AttemptRows, AttemptLabels, NamedOK
<1>4. /\ row.evidence = 1 /\ row.updatedAt = 0 /\ row.reviewed /\ row.label = "seen"
      /\ row.note = ""
  BY <1>2
<1>5. rows = <<row>>
  BY <1>2 DEF Attempts!Init
<1>6. /\ rows \in Seq(AttemptRows) /\ DOMAIN rows = {1} /\ rows[1] = row
  BY <1>3, <1>5
<1>7. TableOK(rows) /\ Has(rows, 1)
  BY <1>3, <1>4, <1>6 DEF TableOK, OnceIn, Has
<1>8. /\ explicit = [a \in Scanned |-> [status |-> "open", note |-> "", at |-> 0]]
      /\ expected = [a \in Scanned |-> Attempts!NotReviewed]
      /\ time = 0 /\ late = {} /\ recorded = {1}
  BY DEF Attempts!Init
<1>9. 1 \in Scanned /\ explicit[1].at = 0 /\ expected[1] = Attempts!NotReviewed
  BY <1>8
<1>10. Meets(Attempts!Shown(1), expected[1])
  <2>1. ~Attempts!explicitReviewIsNewer(1)
    BY <1>9 DEF Attempts!explicitReviewIsNewer
  <2>2. ~Attempts!Completed(rows[1])
    BY <1>4, <1>6 DEF Attempts!Completed, Attempts!Label, Attempts!Labels
  <2>3. Attempts!Shown(1) = [status |-> "open", note |-> ""]
    BY <1>4, <1>6, <2>1, <2>2, ShownFacts
  <2>4. Attempts!NotReviewed.status = "open" /\ "" \in Attempts!NotReviewed.notes
    BY DEF Attempts!NotReviewed
  <2>5. Meets([status |-> "open", note |-> ""], Attempts!NotReviewed)
    BY <2>4, RecordMeets
  <2> QED
    BY <1>9, <2>3, <2>5, Zenon
<1>11. ReviewsOK
  <2>1. /\ Attempts!NotReviewed = [status |-> "open", notes |-> {""}]
        /\ time \in Nat
    BY <1>8 DEF Attempts!NotReviewed
  <2>2. /\ explicit \in [Scanned -> [status : {"open", "reviewed", "ignored"},
                                     note : Notes \cup {""}, at : Nat]]
        /\ expected \in [Scanned -> [status : {"open", "reviewed", "ignored"},
                                     notes : SUBSET (Notes \cup {""})]]
    BY <1>8, <2>1
  <2>3. ASSUME NEW a \in Scanned
        PROVE  /\ explicit[a].at = 0 /\ explicit[a].at <= time
               /\ expected[a] = Attempts!NotReviewed
    <3>1. explicit[a] = [status |-> "open", note |-> "", at |-> 0]
          /\ expected[a] = Attempts!NotReviewed
      BY <1>8
    <3>2. 0 <= 0
      OBVIOUS
    <3>3. explicit[a].at = 0 /\ time = 0
      BY <1>8, <3>1
    <3> QED
      BY <3>1, <3>2, <3>3
  <2>4. ASSUME NEW a \in DOMAIN rows
        PROVE  rows[a].updatedAt <= time /\ Meets(Attempts!Shown(a), expected[a])
    <3>1. a = 1 /\ rows[a] = row
      BY <1>6
    <3>2. 0 <= 0
      OBVIOUS
    <3>3. rows[a].updatedAt = 0 /\ time = 0
      BY <1>4, <1>8, <3>1
    <3> QED
      BY <1>10, <3>1, <3>2, <3>3
  <2> QED
    BY <2>1, <2>2, <2>3, <2>4 DEF ReviewsOK
<1> QED
  BY <1>1, <1>7, <1>8, <1>11 DEF AttemptsInv

\* What the exceptions show of a row with its review.
Effective(row, e) ==
    IF e.at > 0 /\ e.at > row.updatedAt
    THEN [status |-> e.status, note |-> e.note]
    ELSE [status |-> IF ~Attempts!Completed(row) THEN "open"
                     ELSE IF Attempts!Label(row) = "ignored" THEN "ignored"
                     ELSE "reviewed",
          note |-> row.note]

LEMMA ShownIsEffective ==
    /\ \A a : Attempts!Shown(a) = Effective(rows[a], explicit[a])
    /\ \A a : Attempts!Shown(a)' = Effective(rows'[a], explicit'[a])
BY DEF Attempts!Shown, Attempts!explicitReviewIsNewer, Effective

LEMMA SameEffective ==
    ASSUME NEW row, NEW old, NEW e, SameReview(row, old)
    PROVE  Effective(row, e) = Effective(old, e)
BY DEF SameReview, Effective, Attempts!Completed, Attempts!Label

LEMMA UnreviewedIsOpen ==
    ASSUME NEW row, NEW e, Unreviewed(row), e.at = 0
    PROVE  Meets(Effective(row, e), Attempts!NotReviewed)
<1>1. ~(0 > 0)
  OBVIOUS
<1>2. ~(e.at > 0 /\ e.at > row.updatedAt)
  BY <1>1
<1> QED
  BY <1>2 DEF Unreviewed, Effective, Attempts!Completed, Attempts!NotReviewed, Meets

\* The kiosk's part of the invariant, and what an upload leaves of the table.
LEMMA TableNext ==
    ASSUME CardOK, NEW u, TableOK(u), rows' = u,
           recorded \subseteq recorded', aged \subseteq aged',
           release' = release \/ release' = "new",
           \A k \in recorded : rowOf'[k] = rowOf[k]
    PROVE  TableOK(rows)'
<1>1. ASSUME NEW a \in DOMAIN u
      PROVE  NamedOK(u[a])'
  <2>1. NamedOK(u[a])
    BY DEF TableOK
  <2>2. CASE u[a].evidence \in Unkeyed
    BY <2>1, <2>2 DEF NamedOK, Attempts!NoId
  <2>3. CASE u[a].evidence \notin Unkeyed
    <3>1. u[a].evidence \in recorded
      BY <2>1, <2>3 DEF NamedOK
    <3>2. Attempts!RowId(u[a].evidence)' = Attempts!RowId(u[a].evidence)
      BY <3>1 DEF Attempts!RowId
    <3> QED
      BY <2>1, <2>3, <3>1, <3>2 DEF NamedOK, Attempts!NoId, Attempts!Uuid
  <2> QED
    BY <2>2, <2>3
<1>2. u \in Seq(AttemptRows) /\ OnceIn(u)
  BY DEF TableOK
<1>3. OnceIn(rows)'
  BY <1>2 DEF OnceIn, Attempts!NoId
<1>4. (rows \in Seq(AttemptRows))'
  BY <1>2
<1>5. (\A a \in DOMAIN rows : NamedOK(rows[a]))'
  BY <1>1
<1> QED
  BY <1>3, <1>4, <1>5 DEF TableOK

LEMMA MessagesStay ==
    ASSUME release' = release, NEW n, rowOf'[n] = rowOf[n], n \in aged' <=> n \in aged
    PROVE  Attempts!Message(n)' = Attempts!Message(n)
BY DEF Attempts!Message, Attempts!RowId, Attempts!Uuid, Attempts!NoId

LEMMA ReviewsUpload ==
    ASSUME ReviewsOK, NEW u, u = rows', TableOK(u), Uploaded(rows, u),
           UNCHANGED <<explicit, time, expected>>
    PROVE  ReviewsOK'
<1>1. DOMAIN u \subseteq Scanned
  BY RowsAreFew
<1>2. DOMAIN rows \subseteq DOMAIN u
  BY DEF Uploaded
<1>3. ASSUME NEW a \in DOMAIN u
      PROVE  u[a].updatedAt <= time /\ Meets(Effective(u[a], explicit[a]), expected[a])
  <2>1. CASE a \in DOMAIN rows
    <3>1. SameReview(u[a], rows[a])
      BY <2>1 DEF Uploaded
    <3>2. rows[a].updatedAt <= time /\ Meets(Effective(rows[a], explicit[a]), expected[a])
      BY <2>1, ShownIsEffective DEF ReviewsOK
    <3>3. u[a].updatedAt = rows[a].updatedAt
      BY <3>1 DEF SameReview
    <3> QED
      BY <3>1, <3>2, <3>3, SameEffective
  <2>2. CASE ~(a \in DOMAIN rows)
    <3>1. Unreviewed(u[a])
      BY <2>2 DEF Uploaded
    <3>2. explicit[a].at = 0 /\ expected[a] = Attempts!NotReviewed
      BY <1>1, <2>2 DEF ReviewsOK
    <3>3. time \in Nat
      BY DEF ReviewsOK
    <3>4. u[a].updatedAt = 0
      BY <3>1 DEF Unreviewed
    <3> QED
      BY <3>1, <3>2, <3>3, <3>4, UnreviewedIsOpen
  <2> QED
    BY <2>1, <2>2
<1>4. (\A a \in DOMAIN rows : rows[a].updatedAt <= time /\ Meets(Attempts!Shown(a), expected[a]))'
  BY <1>3, ShownIsEffective
<1>5. /\ time \in Nat
      /\ explicit \in [Scanned -> [status : {"open", "reviewed", "ignored"},
                                   note : Notes \cup {""}, at : Nat]]
      /\ expected \in [Scanned -> [status : {"open", "reviewed", "ignored"},
                                   notes : SUBSET (Notes \cup {""})]]
      /\ \A a \in Scanned : explicit[a].at <= time
      /\ \A a \in Scanned : a \in DOMAIN u
            \/ (explicit[a].at = 0 /\ expected[a] = Attempts!NotReviewed)
  BY <1>2 DEF ReviewsOK
<1> QED
  BY <1>4, <1>5 DEF ReviewsOK, Attempts!NotReviewed

\* Reviews that change neither the table nor themselves.
LEMMA ReviewsStay ==
    ASSUME ReviewsOK, UNCHANGED <<rows, explicit, time, expected>>
    PROVE  ReviewsOK'
<1>1. \A a : Attempts!Shown(a)' = Attempts!Shown(a)
  BY ShownIsEffective
<1> QED
  BY <1>1 DEF ReviewsOK, Attempts!NotReviewed

LEMMA AttemptRecordedInv ==
    ASSUME AttemptsInv, Attempts!Record
    PROVE  AttemptsInv'
<1>1. PICK n \in Scanned \ (recorded \cup Unkeyed) :
        /\ recorded' = recorded \cup {n}
        /\ queue' = queue \cup {n}
        /\ lastRow' = lastRow + 1
        /\ rowOf' = [rowOf EXCEPT ![n] = lastRow + 1]
        /\ aged' = IF release = "old" THEN aged \cup {n} ELSE aged
        /\ UNCHANGED <<release, lost, resets, late, rows, explicit, time, expected>>
  BY AttemptConstants DEF Attempts!Record, Attempts!portalVars
<1>2. CardOK /\ n \in Scanned /\ n \notin recorded /\ n \notin Unkeyed
  BY <1>1 DEF AttemptsInv
<1>3. CardOK'
  <2>1. aged' \subseteq aged \cup {n} /\ aged \subseteq aged'
        /\ (release = "old" => n \in aged')
    BY <1>1
  <2>2. /\ recorded' \subseteq Scanned /\ queue' \subseteq recorded'
        /\ queue' \cap Unkeyed = {} /\ aged' \subseteq recorded' /\ aged' \cap Unkeyed = {}
    BY <1>1, <1>2, <2>1 DEF CardOK
  <2>3. rowOf' \in [Scanned -> Nat] /\ lastRow' \in Nat
    BY <1>1, <1>2 DEF CardOK
  <2>4. release' \in {"old", "new"}
        /\ (release' = "old" => \A k \in recorded' : k \in Unkeyed \/ k \in aged')
    BY <1>1, <1>2, <2>1 DEF CardOK
  <2> QED
    BY <2>2, <2>3, <2>4 DEF CardOK
<1>4. \A k \in recorded : rowOf'[k] = rowOf[k]
  BY <1>1, <1>2 DEF CardOK
<1>5. TableOK(rows)'
  <2>1. aged \subseteq aged' /\ recorded \subseteq recorded'
    BY <1>1
  <2>2. PICK u : u = rows /\ TableOK(u)
    BY DEF AttemptsInv
  <2> QED
    BY <1>1, <1>2, <1>4, <2>1, <2>2, TableNext
<1>6. (\A k \in recorded : k \in queue \/ k \in lost \/ Has(rows, k))'
  BY <1>1 DEF AttemptsInv, Has
<1>7. \A k \in recorded : Attempts!Message(k)' = Attempts!Message(k)
  <2> SUFFICES ASSUME NEW k \in recorded
               PROVE  Attempts!Message(k)' = Attempts!Message(k)
    OBVIOUS
  <2>1. k # n /\ rowOf'[k] = rowOf[k] /\ release' = release
    BY <1>1, <1>2, <1>4
  <2>2. k \in aged' <=> k \in aged
    BY <1>1, <2>1
  <2> QED
    BY <2>1, <2>2, MessagesStay
<1>8. (\A batch \in late : IsBatch(batch))'
  BY <1>1, <1>7 DEF AttemptsInv, IsBatch
<1>9. ReviewsOK'
  BY <1>1, ReviewsStay DEF AttemptsInv
<1> QED
  BY <1>3, <1>5, <1>6, <1>8, <1>9 DEF AttemptsInv

LEMMA UpdateInv ==
    ASSUME AttemptsInv, Attempts!Update
    PROVE  AttemptsInv'
<1>1. /\ late = {} /\ late' = {} /\ release' = "new"
      /\ UNCHANGED <<recorded, rowOf, lastRow, aged, queue, lost, rows, explicit, time,
                     expected>>
  BY DEF Attempts!Update, Attempts!portalVars
<1>2. CardOK'
  BY <1>1 DEF AttemptsInv, CardOK
<1>3. TableOK(rows)'
  <2>1. PICK u : u = rows /\ TableOK(u) /\ CardOK
    BY DEF AttemptsInv
  <2> QED
    BY <1>1, <2>1, TableNext
<1>4. (\A k \in recorded : k \in queue \/ k \in lost \/ Has(rows, k))'
  BY <1>1 DEF AttemptsInv, Has
<1>5. ReviewsOK'
  BY <1>1, ReviewsStay DEF AttemptsInv
<1>6. (\A batch \in late : IsBatch(batch))'
  BY <1>1
<1> QED
  BY <1>2, <1>3, <1>4, <1>5, <1>6 DEF AttemptsInv

LEMMA ResetInv ==
    ASSUME AttemptsInv, Attempts!Reset
    PROVE  AttemptsInv'
<1>1. /\ lost' = lost \cup queue /\ queue' = {} /\ lastRow' = 0
      /\ UNCHANGED <<release, recorded, rowOf, aged, late, rows, explicit, time, expected>>
  BY DEF Attempts!Reset, Attempts!portalVars
<1>2. CardOK'
  BY <1>1 DEF AttemptsInv, CardOK
<1>3. TableOK(rows)'
  <2>1. PICK u : u = rows /\ TableOK(u) /\ CardOK
    BY DEF AttemptsInv
  <2> QED
    BY <1>1, <2>1, TableNext
<1>4. (\A k \in recorded : k \in queue \/ k \in lost \/ Has(rows, k))'
  BY <1>1 DEF AttemptsInv, Has
<1>5. ReviewsOK'
  BY <1>1, ReviewsStay DEF AttemptsInv
<1>6. \A k : Attempts!Message(k)' = Attempts!Message(k)
  BY <1>1, MessagesStay
<1>7. (\A batch \in late : IsBatch(batch))'
  BY <1>1, <1>6 DEF AttemptsInv, IsBatch
<1> QED
  BY <1>2, <1>3, <1>4, <1>5, <1>7 DEF AttemptsInv

\* An upload, whatever the kiosk learns of it.
LEMMA UploadInv ==
    ASSUME AttemptsInv, NEW u, u = rows', TableOK(u), Uploaded(rows, u),
           UNCHANGED <<release, recorded, rowOf, lastRow, aged, lost, explicit, time,
                       expected>>,
           queue' \subseteq queue, \A n \in queue : n \in queue' \/ Has(u, n),
           \A batch \in late' : IsBatch(batch)
    PROVE  AttemptsInv'
<1>1. CardOK'
  BY DEF AttemptsInv, CardOK
<1>2. TableOK(rows)'
  BY TableNext DEF AttemptsInv
<1>3. (\A k \in recorded : k \in queue \/ k \in lost \/ Has(rows, k))'
  <2> SUFFICES ASSUME NEW k \in recorded
               PROVE  k \in queue' \/ k \in lost \/ Has(u, k)
    BY DEF Has
  <2>1. CASE Has(rows, k)
    BY <2>1, HasStays
  <2>2. CASE k \in queue \/ k \in lost
    BY <2>2
  <2> QED
    BY <2>1, <2>2 DEF AttemptsInv
<1>4. ReviewsOK'
  BY ReviewsUpload DEF AttemptsInv
<1>5. \A k : Attempts!Message(k)' = Attempts!Message(k)
  BY MessagesStay
<1>6. (\A batch \in late : IsBatch(batch))'
  BY <1>5 DEF IsBatch
<1> QED
  BY <1>1, <1>2, <1>3, <1>4, <1>6 DEF AttemptsInv

LEMMA AttemptActionsInv ==
    ASSUME AttemptsInv,
           \/ Attempts!Acknowledge \/ Attempts!LoseAnswer \/ Attempts!GiveUp
           \/ Attempts!AnswerLate \/ Attempts!PostUnkeyed
    PROVE  AttemptsInv'
<1> USE DEF Attempts!kioskVars, Attempts!portalVars
<1>0. CardOK /\ TableOK(rows) /\ \A batch \in late : IsBatch(batch)
  BY DEF AttemptsInv
<1>1. CASE Attempts!Acknowledge
  <2>1. PICK scans \in Attempts!Requests :
            /\ rows' \in Attempts!ingestAttemptBatch(Attempts!Batch(scans))
            /\ queue' = queue \ scans
            /\ UNCHANGED <<release, recorded, rowOf, lastRow, aged, lost, late, explicit,
                           time, expected>>
    BY <1>1 DEF Attempts!Acknowledge
  <2>2. PICK u \in Attempts!ingestAttemptBatch(Attempts!Batch(scans)) : u = rows'
    BY <2>1
  <2>3. /\ IsBatch(Attempts!Batch(scans))
        /\ \A n \in scans : \E i \in 1..Len(Attempts!Batch(scans)) :
              Attempts!Batch(scans)[i] = Attempts!Message(n)
    BY <1>0, BatchFacts
  <2>4. /\ TableOK(u) /\ Uploaded(rows, u)
        /\ \A n \in Scanned, i \in 1..Len(Attempts!Batch(scans)) :
              n \in recorded /\ Attempts!Batch(scans)[i] = Attempts!Message(n) => Has(u, n)
    BY <1>0, <2>3, BatchOK
  <2>5. \A n \in queue : n \in queue' \/ Has(u, n)
    <3> SUFFICES ASSUME NEW n \in queue, n \in scans
                 PROVE  Has(u, n)
      BY <2>1
    <3>1. n \in Scanned /\ n \in recorded
      BY <1>0 DEF CardOK
    <3> QED
      BY <2>3, <2>4, <3>1
  <2>6. queue' \subseteq queue /\ \A batch \in late' : IsBatch(batch)
    BY <1>0, <2>1
  <2> QED
    BY <2>1, <2>2, <2>4, <2>5, <2>6, UploadInv
<1>2. CASE Attempts!LoseAnswer
  <2>1. PICK scans \in Attempts!Requests :
            /\ rows' \in Attempts!ingestAttemptBatch(Attempts!Batch(scans))
            /\ UNCHANGED <<release, recorded, rowOf, lastRow, aged, queue, lost, late,
                           explicit, time, expected>>
    BY <1>2 DEF Attempts!LoseAnswer
  <2>2. PICK u \in Attempts!ingestAttemptBatch(Attempts!Batch(scans)) : u = rows'
    BY <2>1
  <2>3. TableOK(u) /\ Uploaded(rows, u)
    BY <1>0, BatchFacts, BatchOK
  <2> QED
    BY <1>0, <2>1, <2>2, <2>3, UploadInv
<1>3. CASE Attempts!GiveUp
  <2>1. PICK scans \in Attempts!Requests :
            /\ late' = late \cup {Attempts!Batch(scans)}
            /\ UNCHANGED <<release, recorded, rowOf, lastRow, aged, queue, lost, rows,
                           explicit, time, expected>>
    BY <1>3 DEF Attempts!GiveUp
  <2>2. IsBatch(Attempts!Batch(scans))
    BY <1>0, BatchFacts
  <2>3. PICK u : u = rows' /\ u = rows /\ TableOK(u) /\ Uploaded(rows, u)
    BY <1>0, <2>1 DEF Uploaded, SameReview
  <2>4. \A batch \in late' : IsBatch(batch)
    BY <1>0, <2>1, <2>2
  <2> QED
    BY <2>1, <2>3, <2>4, UploadInv
<1>4. CASE Attempts!AnswerLate
  <2>1. PICK batch \in late :
            /\ late' = late \ {batch}
            /\ rows' \in Attempts!ingestAttemptBatch(batch) \cup {rows}
            /\ UNCHANGED <<release, recorded, rowOf, lastRow, aged, queue, lost,
                           explicit, time, expected>>
    BY <1>4 DEF Attempts!AnswerLate
  <2>2. PICK u : u = rows'
    OBVIOUS
  <2>3. TableOK(u) /\ Uploaded(rows, u)
    <3>1. CASE u = rows
      BY <1>0, <3>1 DEF Uploaded, SameReview
    <3>2. CASE u \in Attempts!ingestAttemptBatch(batch)
      BY <1>0, <3>2, BatchOK
    <3> QED
      BY <2>1, <2>2, <3>1, <3>2
  <2>4. \A b \in late' : IsBatch(b)
    BY <1>0, <2>1
  <2> QED
    BY <2>1, <2>2, <2>3, <2>4, UploadInv
<1>5. CASE Attempts!PostUnkeyed
  <2>1. PICK n \in Unkeyed :
            /\ rows' \in Attempts!ingestAttemptBatch(<<Attempts!Message(n)>>)
            /\ UNCHANGED <<release, recorded, rowOf, lastRow, aged, queue, lost, late,
                           explicit, time, expected>>
    BY <1>5 DEF Attempts!PostUnkeyed
  <2>2. PICK u \in Attempts!ingestAttemptBatch(<<Attempts!Message(n)>>) : u = rows'
    BY <2>1
  <2>3. u \in Attempts!Ingest(rows, Attempts!Message(n))
    <3>1. Len(<<Attempts!Message(n)>>) = 1 /\ <<Attempts!Message(n)>>[1] = Attempts!Message(n)
      OBVIOUS
    <3> QED
      BY <2>2, <3>1 DEF Attempts!ingestAttemptBatch
  <2>4. n \in Scanned
    BY AttemptConstants
  <2>5. TableOK(u) /\ Uploaded(rows, u)
    BY <1>0, <2>3, <2>4, IngestOK
  <2> QED
    BY <1>0, <2>1, <2>2, <2>5, UploadInv
<1> QED
  BY <1>1, <1>2, <1>3, <1>4, <1>5

\* Of what is noted, and of nothing.
LEMMA NoteFacts ==
    ASSUME NEW n
    PROVE  (CHOOSE x \in {n} : TRUE) = n
OBVIOUS

LEMMA NotLater ==
    ASSUME NEW i \in Nat, NEW j \in Nat, i <= j
    PROVE  ~(i > j)
OBVIOUS

\* The row that a review in the Lab leaves.
ReviewedRow(row, label, note, at) ==
    [source |-> row.source, alias |-> row.alias, evidence |-> row.evidence,
     reviewed |-> label # "unreviewed",
     label |-> IF label = "unreviewed" THEN row.label ELSE label,
     note |-> note, updatedAt |-> at]

LabStatus(label) ==
    CASE label = "unreviewed" -> "open"
      [] label = "ignored" -> "ignored"
      [] OTHER -> "reviewed"

LEMMA RowIsOfTable ==
    ASSUME NEW t, TableOK(t), NEW a \in DOMAIN t
    PROVE  t[a] \in AttemptRows
BY DEF TableOK

LEMMA ReviewedRowIs ==
    ASSUME NEW row \in AttemptRows, NEW label, NEW note, NEW at,
           NEW new, new = [row EXCEPT !.reviewed = label # "unreviewed",
                                      !.label = IF label = "unreviewed" THEN @ ELSE label,
                                      !.note = note, !.updatedAt = at]
    PROVE  new = ReviewedRow(row, label, note, at)
BY DEF ReviewedRow, AttemptRows

NotAfter(e, at) == e.at <= at /\ e.at \in Nat

AsReviewed(new, row, label, note, at, e) ==
    /\ new \in AttemptRows /\ NamedOK(new)
    /\ new.evidence = row.evidence /\ new.source = row.source
    /\ new.updatedAt = at /\ new.note = note
    /\ Effective(new, e) = [status |-> LabStatus(label), note |-> note]

LEMMA ReviewedRowFacts ==
    ASSUME NEW row \in AttemptRows, NEW label \in {"confirmed", "ignored", "unreviewed"},
           NEW note \in Notes \cup {""}, NEW at \in Nat, NEW e, NotAfter(e, at),
           NamedOK(row), NEW new, new = ReviewedRow(row, label, note, at)
    PROVE  AsReviewed(new, row, label, note, at, e)
<1> DEFINE status == LabStatus(label)
<1>1. /\ new.evidence = row.evidence /\ new.source = row.source /\ new.alias = row.alias
      /\ new.updatedAt = at /\ new.note = note /\ new.reviewed = (label # "unreviewed")
      /\ label # "unreviewed" => new.label = label
  BY DEF ReviewedRow
<1>2. new \in AttemptRows
  BY DEF ReviewedRow, AttemptRows, AttemptLabels
<1>3. NamedOK(new)
  <2> QED
    BY <1>1 DEF NamedOK
<1>4. ~(e.at > new.updatedAt)
  <2>1. ~(e.at > at)
    BY NotLater DEF NotAfter
  <2> QED
    BY <1>1, <2>1, Zenon
<1>5. CASE label = "unreviewed"
  <2>1. status = "open"
    BY <1>5 DEF LabStatus
  <2>2. ~Attempts!Completed(new)
    BY <1>1, <1>5 DEF Attempts!Completed
  <2> HIDE DEF status
  <2>3. Effective(new, e) = [status |-> status, note |-> note]
    BY <1>1, <1>4, <2>1, <2>2 DEF Effective
  <2> QED
    BY <1>1, <1>2, <1>3, <2>3 DEF status, AsReviewed
<1>6. CASE label = "ignored"
  <2>1. status = "ignored"
    BY <1>6 DEF LabStatus
  <2>2. Attempts!Completed(new) /\ Attempts!Label(new) = "ignored"
    BY <1>1, <1>6 DEF Attempts!Completed, Attempts!Label, Attempts!Labels
  <2> HIDE DEF status
  <2>3. Effective(new, e) = [status |-> status, note |-> note]
    BY <1>1, <1>4, <2>1, <2>2 DEF Effective
  <2> QED
    BY <1>1, <1>2, <1>3, <2>3 DEF status, AsReviewed
<1>7. CASE label = "confirmed"
  <2>1. status = "reviewed"
    BY <1>7 DEF LabStatus
  <2>2. Attempts!Completed(new) /\ Attempts!Label(new) = "confirmed"
    BY <1>1, <1>7 DEF Attempts!Completed, Attempts!Label, Attempts!Labels
  <2> HIDE DEF status
  <2>3. Effective(new, e) = [status |-> status, note |-> note]
    BY <1>1, <1>4, <2>1, <2>2 DEF Effective
  <2> QED
    BY <1>1, <1>2, <1>3, <2>3 DEF status, AsReviewed
<1> QED
  BY <1>5, <1>6, <1>7

\* A review: the row, the exception's review and what should be shown then.
ReviewStep(a, row, e, x) ==
    /\ UNCHANGED <<release, recorded, rowOf, lastRow, aged, queue, lost, late>>
    /\ time' = time + 1
    /\ row \in AttemptRows /\ NamedOK(row)
    /\ row.updatedAt <= time'
    /\ row.evidence = rows[a].evidence /\ row.source = rows[a].source
    /\ rows' = [rows EXCEPT ![a] = row]
    /\ e \in [status : {"open", "reviewed", "ignored"}, note : Notes \cup {""}, at : Nat]
    /\ e.at <= time'
    /\ explicit' = [explicit EXCEPT ![a] = e]
    /\ x \in [status : {"open", "reviewed", "ignored"}, notes : SUBSET (Notes \cup {""})]
    /\ expected' = [expected EXCEPT ![a] = x]
    /\ Meets(Effective(row, e), x)

LEMMA NotLess ==
    ASSUME NEW i \in Nat, NEW j \in Nat, NEW k, i <= j, k = j + 1
    PROVE  i <= k /\ k \in Nat /\ k <= k
OBVIOUS

LEMMA ReviewInv ==
    ASSUME AttemptsInv, NEW a \in DOMAIN rows, NEW row, NEW e, NEW x,
           ReviewStep(a, row, e, x)
    PROVE  AttemptsInv'
<1>1. /\ CardOK /\ TableOK(rows) /\ ReviewsOK
      /\ rows \in Seq(AttemptRows) /\ a \in Scanned /\ DOMAIN rows \subseteq Scanned
  <2>1. CardOK /\ TableOK(rows) /\ ReviewsOK
    BY DEF AttemptsInv
  <2>2. DOMAIN rows \subseteq Scanned
    BY <2>1, RowsAreFew
  <2> QED
    BY <2>1, <2>2 DEF TableOK
<1>2. PICK u : u = rows' /\ u = [rows EXCEPT ![a] = row]
  BY DEF ReviewStep
<1>3. /\ u \in Seq(AttemptRows) /\ DOMAIN u = DOMAIN rows
      /\ u[a] = row /\ \A b \in DOMAIN rows : b # a => u[b] = rows[b]
  <2>1. rows \in Seq(AttemptRows) /\ row \in AttemptRows /\ u = [rows EXCEPT ![a] = row]
    BY <1>1, <1>2 DEF ReviewStep
  <2> QED
    BY <2>1, ReplacedInSeq
<1>4. \A b \in DOMAIN u : u[b].evidence = rows[b].evidence /\ u[b].source = rows[b].source
  BY <1>3 DEF ReviewStep
<1>5. TableOK(u)
  <2>1. \A b \in DOMAIN u : NamedOK(u[b])
    BY <1>1, <1>3 DEF TableOK, ReviewStep
  <2>2. OnceIn(u)
    <3>1. OnceIn(rows) /\ DOMAIN u = DOMAIN rows
      BY <1>1, <1>3 DEF TableOK
    <3> QED
      BY <1>4, <3>1 DEF OnceIn
  <2> QED
    BY <1>3, <2>1, <2>2 DEF TableOK
<1>6. CardOK'
  BY <1>1 DEF CardOK, ReviewStep
<1>7. TableOK(rows)'
  BY <1>1, <1>2, <1>5, TableNext DEF ReviewStep
<1>8. (\A k \in recorded : k \in queue \/ k \in lost \/ Has(rows, k))'
  <2>1. \A k : Has(rows, k) => Has(u, k)
    BY <1>3, <1>4 DEF Has
  <2> QED
    BY <1>2, <2>1 DEF AttemptsInv, Has, ReviewStep
<1>9. \A k : Attempts!Message(k)' = Attempts!Message(k)
  BY MessagesStay DEF ReviewStep
<1>10. (\A batch \in late : IsBatch(batch))'
  BY <1>9 DEF AttemptsInv, IsBatch, ReviewStep
<1>11. /\ explicit'[a] = e /\ \A b \in Scanned : b # a => explicit'[b] = explicit[b]
       /\ expected'[a] = x /\ \A b \in Scanned : b # a => expected'[b] = expected[b]
       /\ explicit' \in [Scanned -> [status : {"open", "reviewed", "ignored"},
                                     note : Notes \cup {""}, at : Nat]]
       /\ expected' \in [Scanned -> [status : {"open", "reviewed", "ignored"},
                                     notes : SUBSET (Notes \cup {""})]]
  BY <1>1 DEF ReviewsOK, ReviewStep
<1>12. time \in Nat /\ time' = time + 1
  BY <1>1 DEF ReviewsOK, ReviewStep
<1>13. time' \in Nat
  BY <1>12
<1>14. \A b \in Scanned : explicit'[b].at <= time'
  <2> SUFFICES ASSUME NEW b \in Scanned
               PROVE  explicit'[b].at <= time'
    OBVIOUS
  <2>1. CASE b = a
    BY <1>11, <2>1 DEF ReviewStep
  <2>2. CASE b # a
    <3>1. explicit[b] \in [status : {"open", "reviewed", "ignored"},
                           note : Notes \cup {""}, at : Nat]
      BY <1>1 DEF ReviewsOK
    <3>2. explicit[b].at <= time /\ explicit[b].at \in Nat
      BY <1>1, <3>1 DEF ReviewsOK
    <3>3. explicit[b].at <= time'
      BY <1>12, <3>2, NotLess
    <3> QED
      BY <1>11, <2>2, <3>3
  <2> QED
    BY <2>1, <2>2
<1>15. ASSUME NEW b \in DOMAIN u
       PROVE  u[b].updatedAt <= time' /\ Meets(Effective(u[b], explicit'[b]), expected'[b])
  <2>1. CASE b = a
    <3>1. u[b] = row /\ explicit'[b] = e /\ expected'[b] = x
      BY <1>3, <1>11, <2>1
    <3> QED
      BY <3>1 DEF ReviewStep
  <2>2. CASE b # a
    <3>1. /\ u[b] = rows[b] /\ explicit'[b] = explicit[b] /\ expected'[b] = expected[b]
          /\ b \in DOMAIN rows
      BY <1>1, <1>3, <1>11, <2>2
    <3>2. rows[b].updatedAt <= time /\ Meets(Effective(rows[b], explicit[b]), expected[b])
      BY <1>1, <3>1, ShownIsEffective DEF ReviewsOK
    <3>3. rows[b] \in AttemptRows
      BY <1>1, <3>1
    <3>4. rows[b].updatedAt \in Nat
      BY <3>3 DEF AttemptRows
    <3>5. rows[b].updatedAt <= time'
      BY <1>12, <3>2, <3>4, NotLess
    <3> QED
      BY <3>1, <3>2, <3>5
  <2> QED
    BY <2>1, <2>2
<1>16. \A b \in Scanned : b \in DOMAIN u
          \/ (explicit'[b].at = 0 /\ expected'[b] = Attempts!NotReviewed)
  <2> SUFFICES ASSUME NEW b \in Scanned, ~(b \in DOMAIN u)
               PROVE  explicit'[b].at = 0 /\ expected'[b] = Attempts!NotReviewed
    OBVIOUS
  <2>1. b # a /\ ~(b \in DOMAIN rows)
    BY <1>3
  <2>2. explicit[b].at = 0 /\ expected[b] = Attempts!NotReviewed
    BY <1>1, <2>1 DEF ReviewsOK
  <2> QED
    BY <1>11, <2>1, <2>2
<1>17. ReviewsOK'
  <2>1. (\A b \in DOMAIN rows : rows[b].updatedAt <= time /\ Meets(Attempts!Shown(b), expected[b]))'
    BY <1>2, <1>15, ShownIsEffective
  <2>2. (\A b \in Scanned : b \in DOMAIN rows
            \/ (explicit[b].at = 0 /\ expected[b] = Attempts!NotReviewed))'
    BY <1>2, <1>16 DEF Attempts!NotReviewed
  <2> QED
    BY <1>11, <1>13, <1>14, <2>1, <2>2 DEF ReviewsOK
<1> QED
  BY <1>6, <1>7, <1>8, <1>10, <1>17 DEF AttemptsInv

LEMMA ReviewInLabInv ==
    ASSUME AttemptsInv, Attempts!ReviewInLab
    PROVE  AttemptsInv'
<1>1. PICK a \in DOMAIN rows, label \in Attempts!Labels \cup {"unreviewed"},
           given \in {{}} \cup {{n} : n \in Notes \ {""}} :
        /\ time' = time + 1
        /\ Attempts!updateReview(a, label, given)
        /\ UNCHANGED <<release, recorded, rowOf, lastRow, aged, queue, lost, late,
                       explicit>>
  BY DEF Attempts!ReviewInLab, Attempts!kioskVars
<1>2. /\ rows \in Seq(AttemptRows) /\ rows[a] \in AttemptRows /\ NamedOK(rows[a])
      /\ time \in Nat /\ a \in Scanned /\ ReviewsOK
      /\ label \in {"confirmed", "ignored", "unreviewed"}
  <2>1. rows \in Seq(AttemptRows) /\ NamedOK(rows[a]) /\ ReviewsOK /\ time \in Nat
    BY DEF AttemptsInv, TableOK, ReviewsOK
  <2>2. a \in Scanned
    BY RowsAreFew DEF AttemptsInv
  <2>3. label \in {"confirmed", "ignored", "unreviewed"}
    BY <1>1 DEF Attempts!Labels
  <2>4. rows[a] \in AttemptRows
    BY RowIsOfTable DEF AttemptsInv
  <2> QED
    BY <2>1, <2>2, <2>3, <2>4
<1>3. PICK note : note = IF given = {} THEN rows[a].note ELSE CHOOSE n \in given : TRUE
  OBVIOUS
<1>4. note \in Notes \cup {""}
  <2>1. CASE given = {}
    BY <1>2, <1>3, <2>1 DEF AttemptRows
  <2>2. CASE given # {}
    <3>1. PICK n \in Notes : given = {n}
      BY <1>1, <2>2
    <3> QED
      BY <1>3, <2>2, <3>1, NoteFacts
  <2> QED
    BY <2>1, <2>2
<1>5. PICK row : row = [rows[a] EXCEPT !.reviewed = label # "unreviewed",
                           !.label = IF label = "unreviewed" THEN @ ELSE label,
                           !.note = note, !.updatedAt = time']
  OBVIOUS
<1>6. rows' = [rows EXCEPT ![a] = row] /\ row = ReviewedRow(rows[a], label, note, time')
  <2>1. rows' = [rows EXCEPT
                   ![a].reviewed = label # "unreviewed",
                   ![a].label = IF label = "unreviewed" THEN @ ELSE label,
                   ![a].note = IF given = {} THEN @ ELSE CHOOSE n \in given : TRUE,
                   ![a].updatedAt = time']
    BY <1>1 DEF Attempts!updateReview
  <2>2. rows' = [rows EXCEPT
                   ![a].reviewed = label # "unreviewed",
                   ![a].label = IF label = "unreviewed" THEN @ ELSE label,
                   ![a].note = note, ![a].updatedAt = time']
    BY <1>2, <1>3, <2>1
  <2>3. rows' = [rows EXCEPT ![a] = row]
    BY <1>2, <1>5, <2>2
  <2>4. PICK t : t = time'
    OBVIOUS
  <2>5. PICK old \in AttemptRows : old = rows[a]
    BY <1>2
  <2>6. row = [old EXCEPT !.reviewed = label # "unreviewed",
                          !.label = IF label = "unreviewed" THEN @ ELSE label,
                          !.note = note, !.updatedAt = t]
    BY <1>5, <2>4, <2>5
  <2>7. row = ReviewedRow(old, label, note, t)
    BY <2>6, ReviewedRowIs, Zenon
  <2> QED
    BY <2>3, <2>4, <2>5, <2>7
<1>7. PICK status : status = LabStatus(label)
  OBVIOUS
<1>8. /\ row \in AttemptRows /\ NamedOK(row)
      /\ row.evidence = rows[a].evidence /\ row.source = rows[a].source
      /\ row.updatedAt = time' /\ row.note = note
      /\ Effective(row, explicit[a]) = [status |-> status, note |-> note]
  <2>1. explicit[a] \in [status : {"open", "reviewed", "ignored"},
                         note : Notes \cup {""}, at : Nat]
    BY <1>2 DEF ReviewsOK
  <2>2. explicit[a].at <= time /\ explicit[a].at \in Nat
    BY <1>2, <2>1 DEF ReviewsOK
  <2>3. PICK t : t = time'
    OBVIOUS
  <2>4. t = time + 1
    BY <1>1, <2>3
  <2>5. explicit[a].at <= t /\ t \in Nat
    BY <1>2, <2>2, <2>4, NotLess
  <2>6. PICK e : e = explicit[a]
    OBVIOUS
  <2>7. row = ReviewedRow(rows[a], label, note, t)
    BY <1>6, <2>3
  <2>8. PICK old \in AttemptRows : old = rows[a] /\ NamedOK(old)
    BY <1>2
  <2>9. row = ReviewedRow(old, label, note, t) /\ e.at <= t /\ e.at \in Nat
    BY <2>2, <2>5, <2>6, <2>7, <2>8
  <2>10. /\ label \in {"confirmed", "ignored", "unreviewed"} /\ note \in Notes \cup {""}
         /\ old \in AttemptRows /\ NamedOK(old) /\ t \in Nat /\ NotAfter(e, t)
    BY <1>2, <1>4, <2>5, <2>8, <2>9 DEF NotAfter
  <2>11. /\ row \in AttemptRows /\ NamedOK(row)
         /\ row.evidence = old.evidence /\ row.source = old.source
         /\ row.updatedAt = t /\ row.note = note
         /\ Effective(row, e) = [status |-> LabStatus(label), note |-> note]
    <3>1. AsReviewed(row, old, label, note, t, e)
      BY <2>9, <2>10, ReviewedRowFacts
    <3> QED
      BY <3>1 DEF AsReviewed
  <2> QED
    BY <1>7, <2>3, <2>6, <2>8, <2>11
<1>9. status \in {"open", "reviewed", "ignored"}
  <2>1. CASE label = "unreviewed"
    BY <1>7, <2>1 DEF LabStatus
  <2>2. CASE label = "ignored"
    BY <1>7, <2>2 DEF LabStatus
  <2>3. CASE label = "confirmed"
    BY <1>7, <2>3 DEF LabStatus
  <2> QED
    BY <1>2, <2>1, <2>2, <2>3
<1>10. PICK x : x = [status |-> status,
                     notes |-> IF given = {} THEN Notes \cup {""} ELSE given]
  OBVIOUS
<1>11. /\ x \in [status : {"open", "reviewed", "ignored"},
                  notes : SUBSET (Notes \cup {""})]
       /\ x.status = status /\ note \in x.notes
  <2>1. CASE given = {}
    <3>1. x = [status |-> status, notes |-> Notes \cup {""}]
      BY <1>10, <2>1
    <3> QED
      BY <1>4, <1>9, <3>1
  <2>2. CASE given # {}
    <3>1. PICK n \in Notes : given = {n}
      BY <1>1, <2>2
    <3>2. note = n /\ x = [status |-> status, notes |-> {n}]
      BY <1>3, <1>10, <2>2, <3>1, NoteFacts
    <3> QED
      BY <1>9, <3>2
  <2> QED
    BY <2>1, <2>2
<1>12. expected' = [expected EXCEPT ![a] = x]
  <2>1. expected' = [expected EXCEPT ![a] =
                       [status |-> CASE label = "unreviewed" -> "open"
                                     [] label = "ignored" -> "ignored"
                                     [] OTHER -> "reviewed",
                        notes |-> IF given = {} THEN Notes \cup {""} ELSE given]]
    BY <1>1 DEF Attempts!updateReview
  <2> QED
    BY <1>7, <1>10, <2>1 DEF LabStatus
<1>13. PICK e \in [status : {"open", "reviewed", "ignored"}, note : Notes \cup {""},
                   at : Nat] : e = explicit[a]
  BY <1>2 DEF ReviewsOK
<1>14. explicit' = [explicit EXCEPT ![a] = e]
  BY <1>1, <1>2, <1>13 DEF ReviewsOK
<1>15. e.at <= time' /\ row.updatedAt <= time'
  <2>1. e.at <= time /\ e.at \in Nat
    BY <1>2, <1>13 DEF ReviewsOK
  <2>2. time' = time + 1 /\ time \in Nat
    BY <1>1, <1>2
  <2>3. e.at <= time' /\ time' <= time'
    BY <2>1, <2>2, NotLess
  <2> QED
    BY <1>8, <2>3
<1>16. Meets(Effective(row, e), x)
  <2>1. Meets([status |-> status, note |-> note], x)
    BY <1>11, RecordMeets
  <2>2. Effective(row, e) = [status |-> status, note |-> note]
    BY <1>8, <1>13, Zenon
  <2> QED
    BY <2>1, <2>2, Zenon
<1> QED
  <2>1. ReviewStep(a, row, e, x)
    BY <1>1, <1>6, <1>8, <1>11, <1>12, <1>13, <1>14, <1>15, <1>16 DEF ReviewStep
  <2> QED
    BY <2>1, ReviewInv

LEMMA ExceptionReviewInv ==
    ASSUME AttemptsInv, Attempts!review
    PROVE  AttemptsInv'
<1>1. PICK a \in DOMAIN rows, status \in {"open", "reviewed", "ignored"},
           given \in {{}} \cup {{n} : n \in Notes} :
        /\ time' = time + 1
        /\ explicit' = [explicit EXCEPT ![a] =
                          [status |-> status,
                           note |-> IF given = {} THEN Attempts!currentReviewNote(a)
                                    ELSE CHOOSE n \in given : TRUE,
                           at |-> time']]
        /\ expected' = [expected EXCEPT ![a] =
                          [status |-> status,
                           notes |-> IF given = {} THEN {Attempts!Shown(a).note}
                                     ELSE given]]
        /\ UNCHANGED <<release, recorded, rowOf, lastRow, aged, queue, lost, late, rows>>
  BY DEF Attempts!review, Attempts!kioskVars
<1>2. /\ rows \in Seq(AttemptRows) /\ rows[a] \in AttemptRows /\ NamedOK(rows[a])
      /\ time \in Nat /\ a \in Scanned /\ ReviewsOK
  <2>1. rows \in Seq(AttemptRows) /\ NamedOK(rows[a]) /\ ReviewsOK /\ time \in Nat
    BY DEF AttemptsInv, TableOK, ReviewsOK
  <2>2. a \in Scanned
    BY RowsAreFew DEF AttemptsInv
  <2> QED
    BY <2>1, <2>2
<1>3. PICK note : note = IF given = {} THEN Attempts!Shown(a).note
                         ELSE CHOOSE n \in given : TRUE
  OBVIOUS
<1>4. note \in Notes \cup {""} /\ (given # {} => given = {note})
  <2>1. CASE given = {}
    <3>1. /\ Meets(Attempts!Shown(a), expected[a])
          /\ expected[a].notes \in SUBSET (Notes \cup {""})
      BY <1>2 DEF ReviewsOK
    <3> QED
      BY <1>3, <2>1, <3>1 DEF Meets
  <2>2. CASE given # {}
    <3>1. PICK n \in Notes : given = {n}
      BY <1>1, <2>2
    <3> QED
      BY <1>3, <2>2, <3>1, NoteFacts
  <2> QED
    BY <2>1, <2>2
<1>5. Attempts!currentReviewNote(a) = Attempts!Shown(a).note
  BY DEF Attempts!Shown, Attempts!currentReviewNote
<1>6. PICK e : e = [status |-> status, note |-> note, at |-> time']
  OBVIOUS
<1>7. PICK x : x = [status |-> status, notes |-> {note}]
  OBVIOUS
<1>8. explicit' = [explicit EXCEPT ![a] = e]
  BY <1>1, <1>3, <1>5, <1>6
<1>9. expected' = [expected EXCEPT ![a] = x]
  <2>1. {note} = IF given = {} THEN {Attempts!Shown(a).note} ELSE given
    BY <1>3, <1>4
  <2> QED
    BY <1>1, <1>7, <2>1
<1>10. /\ e \in [status : {"open", "reviewed", "ignored"}, note : Notes \cup {""}, at : Nat]
       /\ x \in [status : {"open", "reviewed", "ignored"}, notes : SUBSET (Notes \cup {""})]
       /\ e.at = time' /\ time' \in Nat
  <2>1. PICK t \in Nat : t = time'
    BY <1>1, <1>2
  <2>2. e = [status |-> status, note |-> note, at |-> t]
    BY <1>6, <2>1
  <2>3. e \in [status : {"open", "reviewed", "ignored"}, note : Notes \cup {""}, at : Nat]
        /\ e.at = t
    BY <1>4, <2>1, <2>2
  <2>4. x \in [status : {"open", "reviewed", "ignored"}, notes : SUBSET (Notes \cup {""})]
    BY <1>4, <1>7
  <2> QED
    BY <2>1, <2>3, <2>4
<1>11. rows[a].updatedAt \in Nat /\ rows[a].updatedAt <= time
  BY <1>2 DEF ReviewsOK, AttemptRows
<1>12. e.at > 0 /\ e.at > rows[a].updatedAt /\ rows[a].updatedAt <= time' /\ e.at <= time'
  <2>1. e.at = time + 1 /\ time' = time + 1 /\ time \in Nat
    BY <1>1, <1>2, <1>10
  <2> QED
    BY <1>11, <2>1
<1>13. Meets(Effective(rows[a], e), x)
  BY <1>6, <1>7, <1>12 DEF Effective, Meets
<1>14. PICK row : row = rows[a]
  OBVIOUS
<1>15. rows' = [rows EXCEPT ![a] = row]
  BY <1>1, <1>2, <1>14
<1> QED
  <2>1. ReviewStep(a, row, e, x)
    BY <1>1, <1>2, <1>8, <1>9, <1>10, <1>12, <1>13, <1>14, <1>15 DEF ReviewStep
  <2> QED
    BY <2>1, ReviewInv

LEMMA AttemptsNextInv ==
    ASSUME AttemptsInv, Attempts!Next \/ UNCHANGED attemptVars
    PROVE  AttemptsInv'
<1>1. CASE Attempts!Next
  BY <1>1, AttemptRecordedInv, UpdateInv, ResetInv, AttemptActionsInv, ReviewInLabInv,
     ExceptionReviewInv
     DEF Attempts!Next
<1>2. CASE UNCHANGED attemptVars
  <2>1. PICK u : u = rows' /\ u = rows /\ TableOK(u) /\ Uploaded(rows, u)
    BY <1>2 DEF AttemptsInv, attemptVars, Uploaded, SameReview
  <2>2. \A batch \in late' : IsBatch(batch)
    BY <1>2 DEF AttemptsInv, attemptVars
  <2> QED
    BY <1>2, <2>1, <2>2, UploadInv DEF attemptVars
<1> QED
  BY <1>1, <1>2

LEMMA AttemptsAreOnce ==
    ASSUME AttemptsInv
    PROVE  Attempts!EvidenceOnce /\ Attempts!LatestReviewWins
<1>1. \A a, b \in DOMAIN rows : rows[a].evidence = rows[b].evidence => a = b
  BY DEF AttemptsInv, TableOK, OnceIn
<1>2. \A n \in recorded \ (queue \cup lost) : \E a \in DOMAIN rows : rows[a].evidence = n
  BY DEF AttemptsInv, Has
<1>3. Attempts!LatestReviewWins
  BY DEF AttemptsInv, ReviewsOK, Attempts!LatestReviewWins, Meets
<1> QED
  BY <1>1, <1>2, <1>3 DEF Attempts!EvidenceOnce

-----------------------------------------------------------------------------
(* The Recognition Lab.                                                    *)

LabScans == 1..Len(Attempted)

LEMMA LabConstants ==
    /\ Len(Attempted) \in Nat /\ Lab!Rows = LabScans
    /\ Stored \subseteq LabScans
    /\ ReadLimit \in Nat /\ FewShown \in Nat /\ 1 <= FewShown /\ FewShown <= ReadLimit
    /\ LabScans \subseteq Nat /\ IsFiniteSet(LabScans) /\ 0 \notin LabScans
<1>1. Len(Attempted) \in Nat /\ DOMAIN Attempted = LabScans
  BY LabAssumption DEF Lab!RecognitionLabAssumption, LabScans
<1>2. Stored \subseteq DOMAIN Attempted /\ ReadLimit \in Nat /\ FewShown \in 1..ReadLimit
  BY LabAssumption DEF Lab!RecognitionLabAssumption
<1>3. FewShown \in Nat /\ 1 <= FewShown /\ FewShown <= ReadLimit
  BY <1>2
<1>4. IsFiniteSet(LabScans)
  BY <1>1, FS_Interval DEF LabScans
<1>5. LabScans \subseteq Nat /\ 0 \notin LabScans
  BY <1>1 DEF LabScans
<1> QED
  BY <1>1, <1>2, <1>3, <1>4, <1>5 DEF Lab!Rows

LEMMA LabCardinality ==
    ASSUME NEW S
    PROVE  Lab!Cardinality(S) = Cardinality(S)
BY DEF Lab!Cardinality, Cardinality

\* A set of scans has a first and a last one.
LEMMA FirstScan ==
    ASSUME NEW S \in SUBSET Nat, S # {}
    PROVE  \E m \in S : \A k \in S : m <= k
<1>1. PICK m \in S : \A k \in S : <<k, m>> \notin OpToRel(<, Nat)
  BY NatLessThanWellFounded, WFMin
<1>2. \A k \in S : ~(k < m)
  BY <1>1 DEF OpToRel
<1> QED
  BY <1>2

LEMMA LastScan ==
    ASSUME NEW n \in Nat, NEW S \in SUBSET (1..n), S # {}
    PROVE  \E m \in S : \A k \in S : k <= m
<1> DEFINE D == {n - k : k \in S}
<1>1. D \in SUBSET Nat /\ D # {}
  <2>1. \A k \in S : n - k \in Nat
    <3>1. \A k \in S : k \in 1..n
      OBVIOUS
    <3> QED
      BY <3>1
  <2>2. PICK k \in S : TRUE
    OBVIOUS
  <2>3. n - k \in D
    OBVIOUS
  <2> QED
    BY <2>1, <2>3
<1>2. PICK d \in D : \A k \in D : d <= k
  <2> HIDE DEF D
  <2> QED
    BY <1>1, FirstScan
<1>3. PICK m \in S : d = n - m
  OBVIOUS
<1>4. ASSUME NEW k \in S
      PROVE  k <= m
  <2>1. n - m <= n - k
    BY <1>2, <1>3
  <2> QED
    BY <2>1
<1> QED
  BY <1>4

LEMMA LatestFacts ==
    ASSUME NEW S \in SUBSET LabScans, NEW limit \in Nat
    PROVE  /\ \A key : Lab!Latest(S, key, limit) \subseteq S
           /\ IsFiniteSet(S)
           /\ \A key : \A n \in S :
                 n \in Lab!Latest(S, key, limit) <=>
                    Cardinality({k \in S : key[k] >= key[n]}) <= limit
<1>1. \A T : Lab!Cardinality(T) = Cardinality(T)
  BY LabCardinality
<1>2. IsFiniteSet(S)
  BY LabConstants, FS_Subset
<1>3. \A key : Lab!Latest(S, key, limit) =
          {n \in S : Cardinality({k \in S : key[k] >= key[n]}) <= limit}
  <2> SUFFICES ASSUME NEW key
               PROVE  Lab!Latest(S, key, limit) =
                        {n \in S : Cardinality({k \in S : key[k] >= key[n]}) <= limit}
    OBVIOUS
  <2>1. \A n \in S : Lab!Cardinality({k \in S : key[k] >= key[n]}) =
                     Cardinality({k \in S : key[k] >= key[n]})
    BY <1>1
  <2>2. Lab!Latest(S, key, limit) =
          {n \in S : Lab!Cardinality({k \in S : key[k] >= key[n]}) <= limit}
    BY DEF Lab!Latest
  <2> QED
    BY <2>1, <2>2
<1> QED
  BY <1>2, <1>3

\* A set that fits is shown whole.
LEMMA LatestIsAll ==
    ASSUME NEW S \in SUBSET LabScans, NEW limit \in Nat, NEW key,
           Cardinality(S) <= limit
    PROVE  Lab!Latest(S, key, limit) = S
<1>1. ASSUME NEW n \in S
      PROVE  n \in Lab!Latest(S, key, limit)
  <2> DEFINE T == {k \in S : key[k] >= key[n]}
  <2>1. IsFiniteSet(S) /\ T \in SUBSET S
    BY LatestFacts
  <2>2. Cardinality(T) <= Cardinality(S) /\ Cardinality(T) \in Nat /\ Cardinality(S) \in Nat
    <3> HIDE DEF T
    <3> QED
      BY <2>1, FS_Subset, FS_CardinalityType
  <2>3. Cardinality(T) <= limit
    <3> HIDE DEF T
    <3> QED
      BY <2>2
  <2> QED
    BY <2>3, LatestFacts
<1> QED
  BY <1>1, LatestFacts

\* What is later than a scan of the latest is one of them.
LEMMA LatestIsUpward ==
    ASSUME NEW S \in SUBSET LabScans, NEW limit \in Nat,
           NEW m \in Lab!Latest(S, Lab!StoredOrder, limit), NEW n \in S, m <= n
    PROVE  n \in Lab!Latest(S, Lab!StoredOrder, limit)
<1> DEFINE T(i) == {k \in S : Lab!StoredOrder[k] >= Lab!StoredOrder[i]}
<1>1. m \in S /\ IsFiniteSet(S)
  BY LatestFacts
<1>2. \A k \in S : Lab!StoredOrder[k] = k /\ k \in Nat
  BY LabConstants DEF Lab!StoredOrder
<1>3. T(n) \in SUBSET T(m) /\ T(m) \in SUBSET S
  BY <1>1, <1>2
<1>4. Cardinality(T(m)) <= limit
  BY <1>1, LatestFacts
<1>5. IsFiniteSet(T(m))
  BY <1>1, <1>3, FS_Subset
<1>6. /\ Cardinality(T(n)) <= Cardinality(T(m))
      /\ Cardinality(T(n)) \in Nat /\ Cardinality(T(m)) \in Nat
  <2> HIDE DEF T
  <2> QED
    BY <1>3, <1>5, FS_Subset, FS_CardinalityType
<1>7. Cardinality(T(n)) <= limit
  <2> HIDE DEF T
  <2> QED
    BY <1>4, <1>6
<1> QED
  BY <1>7, LatestFacts

\* A capped set that is not full is whole.
LEMMA LatestIsFull ==
    ASSUME NEW S \in SUBSET LabScans, NEW limit \in Nat,
           ~(Cardinality(Lab!Latest(S, Lab!StoredOrder, limit)) >= limit)
    PROVE  Lab!Latest(S, Lab!StoredOrder, limit) = S
<1> DEFINE L == Lab!Latest(S, Lab!StoredOrder, limit)
<1>1. IsFiniteSet(S) /\ L \in SUBSET S
  BY LatestFacts
<1>2. IsFiniteSet(L) /\ Cardinality(L) \in Nat
  <2> HIDE DEF L
  <2> QED
    BY <1>1, FS_Subset, FS_CardinalityType
<1>3. \A k \in S : Lab!StoredOrder[k] = k /\ k \in Nat
  BY LabConstants DEF Lab!StoredOrder
<1> SUFFICES ASSUME S \ L # {}
             PROVE  FALSE
  BY <1>1
<1>4. PICK n \in S \ L : \A k \in S \ L : k <= n
  <2>1. S \ L \in SUBSET (1..Len(Attempted))
    BY DEF LabScans
  <2> HIDE DEF L
  <2> QED
    BY <2>1, LabConstants, LastScan
<1> DEFINE T == {k \in S : Lab!StoredOrder[k] >= Lab!StoredOrder[n]}
<1>5. ~(Cardinality(T) <= limit)
  BY <1>4, LatestFacts
<1>6. n \in T /\ T \in SUBSET S
  BY <1>3
<1>7. T \ {n} \in SUBSET L
  <2> SUFFICES ASSUME NEW k \in T, k # n, ~(k \in L)
               PROVE  FALSE
    OBVIOUS
  <2>1. k \in S \ L /\ k \in Nat /\ n \in Nat /\ n <= k
    BY <1>3
  <2> QED
    BY <1>4, <2>1
<1>8. /\ IsFiniteSet(T) /\ Cardinality(T) \in Nat
      /\ Cardinality(T \ {n}) = Cardinality(T) - 1
      /\ Cardinality(T \ {n}) <= Cardinality(L)
  <2> HIDE DEF T, L
  <2>1. IsFiniteSet(T) /\ Cardinality(T) \in Nat
    BY <1>1, <1>6, FS_Subset, FS_CardinalityType
  <2>2. Cardinality(T \ {n}) = Cardinality(T) - 1
    BY <1>6, <2>1, FS_RemoveElement
  <2>3. Cardinality(T \ {n}) <= Cardinality(L)
    BY <1>2, <1>7, FS_Subset
  <2> QED
    BY <2>1, <2>2, <2>3
<1>9. ~(Cardinality(L) >= limit)
  OBVIOUS
<1> QED
  <2> HIDE DEF T, L
  <2> QED
    BY <1>2, <1>5, <1>8, <1>9

LEMMA LatestIsSome ==
    ASSUME NEW S \in SUBSET LabScans, NEW limit \in Nat, 1 <= limit, S # {}
    PROVE  Lab!Latest(S, Lab!StoredOrder, limit) # {}
<1>1. PICK m \in S : \A k \in S : k <= m
  <2>1. S \in SUBSET (1..Len(Attempted))
    BY DEF LabScans
  <2> QED
    BY <2>1, LabConstants, LastScan
<1>2. \A k \in S : Lab!StoredOrder[k] = k /\ k \in Nat
  BY LabConstants DEF Lab!StoredOrder
<1>3. {k \in S : Lab!StoredOrder[k] >= Lab!StoredOrder[m]} = {m}
  BY <1>1, <1>2
<1>4. Cardinality({m}) = 1
  BY FS_Singleton
<1>5. m \in S /\ Cardinality({k \in S : Lab!StoredOrder[k] >= Lab!StoredOrder[m]}) <= limit
  BY <1>3, <1>4
<1>6. m \in Lab!Latest(S, Lab!StoredOrder, limit)
  BY <1>5, LatestFacts
<1> QED
  BY <1>6

-----------------------------------------------------------------------------
(* What the Lab keeps true: of the table, of the page's place in it, and   *)
(* of the list that is shown.                                              *)

LabRow == [reviewed : BOOLEAN, label : {"absent", "", "seen", "confirmed", "ignored"}]

\* Rows stay rows.
LabTable(t) ==
    /\ t \in [LabScans -> LabRow]
    /\ \A n \in LabScans : t[n] = Lab!Absent \/ t[n].label # "absent"
    /\ \A n \in Stored : t[n] # Lab!Absent

\* The date of a linked attempt is its own, and only windows have cursors.
LabPlace ==
    /\ target # 0 => target \in Stored /\ date = Attempted[target].day
    /\ backend \in {"array", "windows"}
    /\ window \in [cursor : LabScans \cup {0}, all : BOOLEAN]
    /\ window.cursor # 0 \/ payload.next # 0 => backend = "windows"
    /\ patch # Lab!NoPatch => patch.scan \in Lab!Present /\ patch.status \in Lab!Labels

\* A list of window w, for target g, where k matched all along and o was shown:
\* it is honest, and all of k before the windows to come was shown.
LabList(list, w, g, k, o, there, matching) ==
    /\ list.next \in LabScans \cup {0}
    /\ list.shown \subseteq there
    /\ ~list.truncated => list.unlisted = {}
    /\ list.uncounted \subseteq list.limited
    /\ list.read /\ g # 0 => list.shown \subseteq {g} /\ list.unlisted = {}
    /\ g = 0 =>
        /\ k \subseteq matching
        /\ w.cursor # 0 => \A n \in k : n >= w.cursor => n \in o
        /\ list.read /\ list.shown = list.counted /\ list.next # 0 =>
              \A n \in k : n >= list.next => n \in o
        /\ /\ list.read /\ list.shown = list.counted /\ list.next = 0
           /\ list.truncated => w.cursor # 0
           => k \subseteq o

LabInv ==
    /\ LabTable(table)
    /\ LabPlace
    /\ LabList(payload, window, target, kept, offered, Lab!Present, Lab!Matching)

LEMMA LabIsAlwaysHonest ==
    ASSUME LabInv
    PROVE  Lab!LabIsHonest
<1>1. Lab!SummaryIsHonest /\ Lab!LinkIsFollowed
  BY DEF LabInv, LabList, Lab!SummaryIsHonest, Lab!LinkIsFollowed
<1>2. Lab!NothingIsPassedOver
  BY DEF LabInv, LabList, Lab!NothingIsPassedOver, Lab!allMatchesShown
<1> QED
  BY <1>1, <1>2 DEF Lab!LabIsHonest

-----------------------------------------------------------------------------
(* Answers.                                                                *)

Wanted == IF target # 0 THEN {target} ELSE Lab!Matching

LabAnswer(s, c, t, l, x) ==
    [read |-> FALSE, shown |-> s, counted |-> c, truncated |-> t, limited |-> l,
     next |-> x, unlisted |-> {}, uncounted |-> {}]

\* What every backend's answer is good for.
AnswerOK(s, c, t, l, x) ==
    /\ s \subseteq Lab!Present /\ x \in LabScans \cup {0}
    /\ ~t => Wanted \subseteq s
    /\ \A category \in Lab!Categories, n \in Wanted \ c :
          Lab!In(n, category) => category \in l
    /\ target # 0 => s \subseteq {target} /\ Wanted \subseteq s /\ x = 0
    /\ x # 0 => backend = "windows"
    /\ target = 0 /\ s = c /\ x = 0 /\ (t => window.cursor # 0) =>
          \A n \in Lab!Matching : window.cursor = 0 \/ n < window.cursor => n \in s
    /\ target = 0 /\ s = c /\ x # 0 =>
          \A n \in Lab!Matching :
             n >= x /\ (window.cursor = 0 \/ n < window.cursor) => n \in s

LEMMA LabPresent ==
    ASSUME LabTable(table)
    PROVE  /\ Lab!Present \subseteq LabScans /\ Lab!Matching \subseteq Lab!Present
           /\ Stored \subseteq Lab!Present
           /\ \A f : Lab!Indexed(f) \subseteq Lab!Present
           /\ \A n \in Lab!Present :
                 /\ table[n].reviewed \in BOOLEAN
                 /\ table[n].label \in {"", "seen", "confirmed", "ignored"}
<1>1. Lab!Present \subseteq LabScans /\ Lab!Matching \subseteq Lab!Present
  BY LabConstants DEF Lab!Present, Lab!Matching
<1>2. Stored \subseteq Lab!Present
  BY LabConstants DEF Lab!Present, LabTable
<1>3. \A f : Lab!Indexed(f) \subseteq Lab!Present
  BY DEF Lab!Indexed
<1>4. ASSUME NEW n \in Lab!Present
      PROVE  /\ table[n].reviewed \in BOOLEAN
             /\ table[n].label \in {"", "seen", "confirmed", "ignored"}
  <2>1. n \in LabScans /\ table[n] # Lab!Absent
    BY <1>1 DEF Lab!Present
  <2>2. table[n] \in LabRow /\ table[n].label # "absent"
    BY <2>1 DEF LabTable
  <2> QED
    BY <2>2 DEF LabRow
<1> QED
  BY <1>1, <1>2, <1>3, <1>4

\* A label asks the index for reviewed rows, and every match is reviewed then.
LEMMA MatchIsIndexed ==
    ASSUME LabTable(table), NEW n \in Lab!Matching
    PROVE  n \in Lab!Indexed(filter)
<1>1. n \in Lab!Present /\ table[n].reviewed \in BOOLEAN
  BY LabPresent
<1>2. filter.status \in {"all", Lab!ReviewStatus(table[n])}
  BY DEF Lab!Matching, Lab!Matches
<1>3. Lab!AsksReviewed(filter) => table[n].reviewed = (filter.status # "unreviewed")
  <2> SUFFICES ASSUME Lab!AsksReviewed(filter)
               PROVE  table[n].reviewed = TRUE /\ filter.status # "unreviewed"
    OBVIOUS
  <2>1. filter.status \notin {"all", "unreviewed"}
    BY DEF Lab!AsksReviewed
  <2>2. Lab!ReviewStatus(table[n]) # "unreviewed"
    BY <1>2, <2>1
  <2>3. table[n].reviewed
    BY <2>2 DEF Lab!ReviewStatus
  <2> QED
    BY <1>1, <2>1, <2>3
<1> QED
  BY <1>1, <1>3 DEF Lab!Indexed

\* Only a category that the filter rules out has no match.
LEMMA PossibleIfIn ==
    ASSUME LabTable(table), NEW n \in Lab!Matching, NEW category \in Lab!Categories,
           Lab!In(n, category)
    PROVE  Lab!possibleCounts(category)
<1>1. n \in Lab!Present /\ table[n].reviewed \in BOOLEAN
  BY LabPresent
<1>2. /\ filter.decision \in {"all", Attempted[n].decision}
      /\ filter.status \in {"all", Lab!ReviewStatus(table[n])}
  BY DEF Lab!Matching, Lab!Matches
<1>3. CASE category = "low_margin_accepted"
  BY <1>2, <1>3 DEF Lab!In, Lab!possibleCounts
<1>4. CASE category = "review_backlog"
  <2>1. ~table[n].reviewed \/ table[n].label \notin Lab!Labels \cup {""}
    BY <1>4 DEF Lab!In
  <2>2. Lab!ReviewStatus(table[n]) = "unreviewed"
    BY <2>1 DEF Lab!ReviewStatus, Lab!Label
  <2> QED
    BY <1>2, <1>4, <2>2 DEF Lab!possibleCounts
<1>5. CASE category = "total"
  BY <1>5 DEF Lab!possibleCounts
<1>6. CASE category = "accepted"
  <2>1. Attempted[n].decision = "accepted"
    BY <1>6 DEF Lab!In
  <2> QED
    BY <1>2, <1>6, <2>1 DEF Lab!possibleCounts
<1>7. CASE category \in {"rejected", "unknown", "near_miss"}
  <2>1. Attempted[n].decision = category
    BY <1>7 DEF Lab!In
  <2> QED
    BY <1>2, <1>7, <2>1 DEF Lab!possibleCounts
<1> QED
  BY <1>3, <1>4, <1>5, <1>6, <1>7 DEF Lab!Categories

\* The window read, and the cursor that it ends at.
LEMMA PageFacts ==
    ASSUME LabTable(table), LabPlace
    PROVE  /\ Lab!After(window.cursor) \subseteq LabScans
           /\ Lab!After(window.cursor) \subseteq Lab!Present
           /\ Lab!Page(window.cursor) \subseteq Lab!After(window.cursor)
           /\ \A m \in Lab!Page(window.cursor), n \in Lab!After(window.cursor) :
                 m <= n => n \in Lab!Page(window.cursor)
           /\ TRUE \in Lab!PageIsDone(window.cursor) =>
                 Lab!After(window.cursor) = Lab!Page(window.cursor)
           /\ FALSE \in Lab!PageIsDone(window.cursor) =>
                 Lab!ContinueCursor(window.cursor) \in Lab!Page(window.cursor)
           /\ Lab!PageIsDone(window.cursor) \subseteq BOOLEAN
<1> DEFINE A == Lab!After(window.cursor)
           P == Lab!Page(window.cursor)
<1>1. A \subseteq Lab!Present /\ A \in SUBSET LabScans
  BY LabPresent DEF Lab!After
<1>2. P = Lab!Latest(A, Lab!StoredOrder, ReadLimit)
  BY DEF Lab!Page
<1>3. P \subseteq A
  <2> HIDE DEF A, P
  <2> QED
    BY <1>1, <1>2, LatestFacts, LabConstants
<1>4. \A m \in P, n \in A : m <= n => n \in P
  <2> HIDE DEF A, P
  <2> QED
    BY <1>1, <1>2, LatestIsUpward, LabConstants
<1>5. /\ TRUE \in Lab!PageIsDone(window.cursor) => A = P
      /\ Lab!PageIsDone(window.cursor) \subseteq BOOLEAN
  BY DEF Lab!PageIsDone
<1>6. ASSUME FALSE \in Lab!PageIsDone(window.cursor)
      PROVE  Lab!ContinueCursor(window.cursor) \in P
  <2>1. P # {}
    <3>1. CASE A # P
      <4>1. A # {}
        BY <1>3, <3>1
      <4> QED
        <5> HIDE DEF A, P
        <5> QED
          BY <4>1, <1>1, <1>2, LatestIsSome, LabConstants
    <3>2. CASE A = P
      <4>1. ~(Lab!Cardinality(P) < ReadLimit)
        BY <1>6, <3>2 DEF Lab!PageIsDone
      <4>2. SUFFICES ASSUME P = {}
                     PROVE  FALSE
        OBVIOUS
      <4>3. Lab!Cardinality(P) = 0
        BY <4>2, LabCardinality, FS_EmptySet
      <4> QED
        BY <4>1, <4>3, LabConstants
    <3> QED
      BY <3>1, <3>2
  <2>2. P \in SUBSET Nat
    BY <1>1, <1>3, LabConstants
  <2>3. \E m \in P : \A k \in P : m <= k
    <3> HIDE DEF P
    <3> QED
      BY <2>1, <2>2, FirstScan
  <2> QED
    BY <2>3 DEF Lab!ContinueCursor
<1> QED
  BY <1>1, <1>3, <1>4, <1>5, <1>6

LEMMA ContinueIsFirst ==
    ASSUME LabTable(table), LabPlace, FALSE \in Lab!PageIsDone(window.cursor)
    PROVE  /\ Lab!ContinueCursor(window.cursor) \in LabScans
           /\ Lab!ContinueCursor(window.cursor) # 0
BY PageFacts, LabConstants

\* The linked attempt, whole.
LEMMA LinkedAnswers ==
    ASSUME LabTable(table), LabPlace, target # 0
    PROVE  AnswerOK(Lab!ById(target), Lab!ById(target), FALSE, {}, 0)
<1>1. target \in Lab!Present /\ Attempted[target].day = date
  BY LabPresent DEF LabPlace
<1>2. Lab!ById(target) = {target}
  BY <1>1 DEF Lab!ById
<1> QED
  BY <1>1, <1>2 DEF AnswerOK, Wanted

\* The backend before: whole unless it is full.
LEMMA ArrayAnswers ==
    ASSUME LabTable(table), LabPlace, target = 0, backend = "array",
           NEW full, full = (Cardinality(Lab!ListArray) >= Lab!Limit),
           NEW matched, matched = {n \in Lab!ListArray : Lab!Matches(n, filter)}
    PROVE  AnswerOK(matched, matched, full, IF full THEN Lab!Categories ELSE {}, 0)
<1> DEFINE S == {n \in Lab!Indexed(filter) : Attempted[n].day = date}
<1>1. S \in SUBSET LabScans /\ S \subseteq Lab!Present
  BY LabPresent
<1>2. Lab!Limit \in Nat
  BY LabConstants DEF Lab!Limit
<1>3. Lab!ListArray = Lab!Latest(S, Lab!StoredOrder, Lab!Limit)
  BY DEF Lab!ListArray
<1>4. matched \subseteq Lab!Present
  <2> HIDE DEF S
  <2> QED
    BY <1>1, <1>2, <1>3, LatestFacts
<1>5. ASSUME ~full
      PROVE  Lab!Matching \subseteq matched
  <2>1. Lab!ListArray = S
    <3> HIDE DEF S
    <3> QED
      BY <1>1, <1>2, <1>3, <1>5, LatestIsFull
  <2>2. ASSUME NEW n \in Lab!Matching
        PROVE  n \in S /\ Lab!Matches(n, filter)
    BY <2>2, MatchIsIndexed DEF Lab!Matching, Lab!Matches
  <2> QED
    BY <2>1, <2>2
<1>6. Wanted = Lab!Matching
  BY DEF Wanted
<1>7. window.cursor = 0
  BY DEF LabPlace
<1> HIDE DEF S
<1> QED
  BY <1>4, <1>5, <1>6, <1>7 DEF AnswerOK

\* One window: what it shows, and what it says of the others.
LEMMA WindowAnswers ==
    ASSUME LabTable(table), LabPlace, target = 0, backend = "windows",
           NEW done \in Lab!PageIsDone(window.cursor),
           NEW matched, matched = {n \in Lab!Page(window.cursor) : Lab!Matches(n, filter)},
           NEW shownNow, shownNow = Lab!Latest(matched, Lab!InstantOrder, Lab!Limit),
           NEW capped, capped = (window.cursor # 0 \/ ~done),
           NEW limits, limits = {c \in Lab!Categories : capped /\ Lab!possibleCounts(c)},
           NEW cut, cut = (capped \/ Lab!Cardinality(matched) > Lab!Limit),
           NEW next, next = IF done THEN 0 ELSE Lab!ContinueCursor(window.cursor)
    PROVE  AnswerOK(shownNow, matched, cut, limits, next)
<1>1. Lab!Limit \in Nat
  BY LabConstants DEF Lab!Limit
<1>2. matched \subseteq Lab!Present /\ matched \in SUBSET LabScans
  BY PageFacts
<1>3. shownNow \subseteq matched /\ IsFiniteSet(matched) /\ Cardinality(matched) \in Nat
  BY <1>1, <1>2, LatestFacts, FS_CardinalityType
<1>4. Wanted = Lab!Matching
  BY DEF Wanted
<1>5. done \in BOOLEAN
  BY PageFacts
<1>6. ASSUME NEW n \in Lab!Matching, window.cursor = 0 \/ n < window.cursor
      PROVE  n \in Lab!After(window.cursor) /\ Lab!Matches(n, filter)
  BY <1>6, MatchIsIndexed DEF Lab!After, Lab!Matching
<1>7. ASSUME done, NEW n \in Lab!Matching, window.cursor = 0 \/ n < window.cursor
      PROVE  n \in matched
  <2>1. Lab!After(window.cursor) = Lab!Page(window.cursor)
    BY <1>5, <1>7, PageFacts
  <2> QED
    BY <1>6, <1>7, <2>1
<1>8. next \in LabScans \cup {0} /\ (next = 0 => done)
  BY <1>5, ContinueIsFirst
<1>9. ASSUME ~cut
      PROVE  Lab!Matching \subseteq shownNow
  <2>1. window.cursor = 0 /\ done /\ ~(Lab!Cardinality(matched) > Lab!Limit)
    BY <1>5, <1>9
  <2>2. Lab!Matching \subseteq matched
    BY <1>7, <2>1
  <2>3. Cardinality(matched) <= Lab!Limit
    BY <1>1, <1>3, <2>1, LabCardinality
  <2>4. shownNow = matched
    BY <1>1, <1>2, <2>3, LatestIsAll
  <2> QED
    BY <2>2, <2>4
<1>10. ASSUME NEW category \in Lab!Categories, NEW n \in Lab!Matching \ matched,
              Lab!In(n, category)
       PROVE  category \in limits
  <2>1. capped
    BY <1>5, <1>7, <1>10
  <2>2. Lab!possibleCounts(category)
    BY <1>10, PossibleIfIn
  <2> QED
    BY <2>1, <2>2
<1>11. ASSUME next # 0, NEW n \in Lab!Matching, n >= next,
              window.cursor = 0 \/ n < window.cursor
       PROVE  n \in matched
  <2>1. ~done /\ next = Lab!ContinueCursor(window.cursor)
    BY <1>5, <1>11
  <2>2. FALSE \in Lab!PageIsDone(window.cursor)
    BY <1>5, <2>1
  <2>3. next \in Lab!Page(window.cursor)
    BY <2>1, <2>2, PageFacts
  <2>4. n \in Lab!After(window.cursor) /\ Lab!Matches(n, filter)
    BY <1>6, <1>11
  <2>5. next \in Nat /\ n \in Nat
    BY <2>3, <2>4, PageFacts, LabConstants
  <2>6. next <= n
    BY <1>11, <2>5
  <2>7. n \in Lab!Page(window.cursor)
    BY <2>3, <2>4, <2>6, PageFacts
  <2> QED
    BY <2>4, <2>7
<1>12. shownNow = matched /\ next = 0 =>
          \A n \in Lab!Matching : window.cursor = 0 \/ n < window.cursor => n \in shownNow
  BY <1>7, <1>8
<1>13. shownNow = matched /\ next # 0 =>
          \A n \in Lab!Matching :
             n >= next /\ (window.cursor = 0 \/ n < window.cursor) => n \in shownNow
  BY <1>11
<1>14. shownNow \subseteq Lab!Present
  BY <1>2, <1>3
<1>15. \A category \in Lab!Categories, n \in Lab!Matching \ matched :
          Lab!In(n, category) => category \in limits
  BY <1>10
<1> QED
  BY <1>4, <1>8, <1>9, <1>12, <1>13, <1>14, <1>15 DEF AnswerOK

LEMMA AnswersAreOK ==
    ASSUME LabTable(table), LabPlace, NEW answer \in Lab!GET
    PROVE  \E s, c, t, l, x : answer = LabAnswer(s, c, t, l, x) /\ AnswerOK(s, c, t, l, x)
<1>1. CASE target # 0
  <2> DEFINE s == Lab!ById(target)
  <2>1. answer = Lab!Linked
    BY <1>1 DEF Lab!GET
  <2>2. answer = LabAnswer(s, s, FALSE, {}, 0)
    BY <2>1 DEF Lab!Linked, Lab!NoPayload, LabAnswer
  <2>3. AnswerOK(s, s, FALSE, {}, 0)
    BY <1>1, LinkedAnswers
  <2> QED
    BY <2>2, <2>3
<1>2. CASE target = 0 /\ backend = "array"
  <2> DEFINE full == Cardinality(Lab!ListArray) >= Lab!Limit
             matched == {n \in Lab!ListArray : Lab!Matches(n, filter)}
             limits == IF full THEN Lab!Categories ELSE {}
  <2>1. answer = Lab!FromArray
    BY <1>2 DEF Lab!GET
  <2>2. (Lab!Cardinality(Lab!ListArray) >= Lab!Limit) = full
    BY LabCardinality
  <2>3. answer = LabAnswer(matched, matched, full, limits, 0)
    BY <2>1, <2>2 DEF Lab!FromArray, Lab!NoPayload, LabAnswer
  <2>4. AnswerOK(matched, matched, full, limits, 0)
    BY <1>2, ArrayAnswers
  <2> QED
    BY <2>3, <2>4
<1>3. CASE target = 0 /\ backend = "windows"
  <2>1. answer \in Lab!ListByDate
    BY <1>3 DEF Lab!GET
  <2>2. PICK done \in Lab!PageIsDone(window.cursor) :
          LET matches == {n \in Lab!Page(window.cursor) : Lab!Matches(n, filter)}
              capped == window.cursor # 0 \/ ~done
          IN answer = LabAnswer(
                Lab!Latest(matches, Lab!InstantOrder, Lab!Limit), matches,
                capped \/ Lab!Cardinality(matches) > Lab!Limit,
                {c \in Lab!Categories : capped /\ Lab!possibleCounts(c)},
                IF done THEN 0 ELSE Lab!ContinueCursor(window.cursor))
    BY <2>1 DEF Lab!ListByDate, Lab!NoPayload, LabAnswer
  <2> DEFINE matches == {n \in Lab!Page(window.cursor) : Lab!Matches(n, filter)}
             capped == window.cursor # 0 \/ ~done
             s == Lab!Latest(matches, Lab!InstantOrder, Lab!Limit)
             t == capped \/ Lab!Cardinality(matches) > Lab!Limit
             l == {c \in Lab!Categories : capped /\ Lab!possibleCounts(c)}
             x == IF done THEN 0 ELSE Lab!ContinueCursor(window.cursor)
  <2>3. AnswerOK(s, matches, t, l, x)
    BY <1>3, WindowAnswers
  <2>4. answer = LabAnswer(s, matches, t, l, x)
    BY <2>2
  <2> QED
    BY <2>3, <2>4
<1> QED
  BY <1>1, <1>2, <1>3 DEF LabPlace

LEMMA NothingIsList ==
    ASSUME NEW w, NEW g, NEW k, NEW o, NEW there, NEW matching,
           g = 0 => k \subseteq matching,
           g = 0 /\ w.cursor # 0 => \A n \in k : n >= w.cursor => n \in o
    PROVE  LabList(Lab!NoPayload, w, g, k, o, there, matching)
BY DEF LabList, Lab!NoPayload

LEMMA AnswerIsList ==
    ASSUME LabTable(table), LabPlace,
           LabList(payload, window, target, kept, offered, Lab!Present, Lab!Matching),
           NEW s, NEW c, NEW t, NEW l, NEW x, AnswerOK(s, c, t, l, x),
           NEW u, u = Wanted \ s,
           NEW v, v = {category \in Lab!Categories :
                          \E n \in Wanted \ c : Lab!In(n, category)},
           NEW k, k = (IF window.cursor = 0 THEN Wanted ELSE kept),
           NEW o, o = (IF window.cursor = 0 THEN {} ELSE offered) \cup s,
           NEW list,
           list.read = TRUE /\ list.shown = s /\ list.counted = c,
           list.truncated = t /\ list.limited = l /\ list.next = x,
           list.unlisted = u /\ list.uncounted = v
    PROVE  LabList(list, window, target, k, o, Lab!Present, Lab!Matching)
<1>1. /\ x \in LabScans \cup {0} /\ s \subseteq Lab!Present
      /\ ~t => u = {}
      /\ v \subseteq l
      /\ target # 0 => s \subseteq {target} /\ u = {}
  BY DEF AnswerOK
<1>2. ASSUME target = 0
      PROVE  /\ k \subseteq Lab!Matching
             /\ window.cursor # 0 => \A n \in k : n >= window.cursor => n \in offered
             /\ Lab!Matching \subseteq LabScans
             /\ window.cursor \in Nat
             /\ LabScans \subseteq Nat
  <2>1. Wanted = Lab!Matching
    BY <1>2 DEF Wanted
  <2>2. LabScans \subseteq Nat /\ Lab!Matching \subseteq LabScans
    BY LabConstants, LabPresent
  <2>3. window.cursor \in LabScans \cup {0}
    BY DEF LabPlace
  <2> QED
    <3>1. kept \subseteq Lab!Matching
      BY <1>2 DEF LabList
    <3>2. window.cursor # 0 => \A n \in kept : n >= window.cursor => n \in offered
      BY <1>2 DEF LabList
    <3>3. window.cursor \in Nat
      <4>1. CASE window.cursor = 0
        <5>1. 0 \in Nat
          OBVIOUS
        <5> QED
          BY <4>1, <5>1
      <4>2. CASE window.cursor \in LabScans
        BY <2>2, <4>2
      <4> QED
        BY <2>3, <4>1, <4>2
    <3>4. k \subseteq Lab!Matching
      BY <2>1, <3>1
    <3>5. window.cursor # 0 => \A n \in k : n >= window.cursor => n \in offered
      BY <3>2
    <3> QED
      BY <2>2, <3>3, <3>4, <3>5
<1>3. ASSUME target = 0, window.cursor # 0, NEW n \in k, n >= window.cursor
      PROVE  n \in o
  BY <1>2, <1>3
<1>4. ASSUME target = 0, s = c, x # 0, NEW n \in k, n >= x
      PROVE  n \in o
  <2>1. n \in Lab!Matching /\ n \in Nat /\ window.cursor \in Nat
    BY <1>2, <1>4
  <2>2. CASE window.cursor # 0 /\ n >= window.cursor
    BY <1>3, <1>4, <2>2
  <2>3. CASE window.cursor = 0 \/ n < window.cursor
    <3>1. n \in s
      BY <1>4, <2>1, <2>3 DEF AnswerOK
    <3> QED
      BY <3>1
  <2> QED
    BY <2>1, <2>2, <2>3
<1>5. ASSUME target = 0, s = c, x = 0, t => window.cursor # 0, NEW n \in k
      PROVE  n \in o
  <2>1. n \in Lab!Matching /\ n \in Nat /\ window.cursor \in Nat
    BY <1>2, <1>5
  <2>2. CASE window.cursor # 0 /\ n >= window.cursor
    BY <1>3, <1>5, <2>2
  <2>3. CASE window.cursor = 0 \/ n < window.cursor
    <3>1. n \in s
      BY <1>5, <2>1, <2>3 DEF AnswerOK
    <3> QED
      BY <3>1
  <2> QED
    BY <2>1, <2>2, <2>3
<1>6. target = 0 => k \subseteq Lab!Matching
  BY <1>2
<1>7. target = 0 /\ window.cursor # 0 => \A n \in k : n >= window.cursor => n \in o
  BY <1>3
<1>8. target = 0 /\ s = c /\ x # 0 => \A n \in k : n >= x => n \in o
  BY <1>4
<1>9. target = 0 /\ s = c /\ x = 0 /\ (t => window.cursor # 0) => k \subseteq o
  BY <1>5
<1> QED
  BY <1>1, <1>6, <1>7, <1>8, <1>9 DEF LabList

-----------------------------------------------------------------------------
(* Every step of the Lab keeps what it should.                             *)

LEMMA LabSame ==
    ASSUME table' = table, date' = date, filter' = filter
    PROVE  Lab!Present' = Lab!Present /\ Lab!Matching' = Lab!Matching
BY DEF Lab!Present, Lab!Matching, Lab!Matches

LEMMA LabStutterInv ==
    ASSUME LabInv, UNCHANGED labVars
    PROVE  LabInv'
<1>1. Lab!Present' = Lab!Present /\ Lab!Matching' = Lab!Matching
  BY LabSame DEF labVars
<1>2. LabTable(table')
  BY DEF LabInv, labVars
<1>3. LabPlace'
  BY <1>1 DEF LabInv, LabPlace, labVars
<1>4. LabList(payload', window', target', kept', offered', Lab!Present', Lab!Matching')
  BY <1>1 DEF LabInv, labVars
<1> QED
  BY <1>2, <1>3, <1>4 DEF LabInv

LEMMA LabInitInv ==
    ASSUME Lab!Init
    PROVE  LabInv
<1>1. LabTable(table)
  <2>1. table = [n \in LabScans |->
                    IF n \in Labelled THEN [reviewed |-> TRUE, label |-> "seen"]
                    ELSE IF n \in Stored THEN Lab!Fresh ELSE Lab!Absent]
    BY LabConstants DEF Lab!Init
  <2>2. /\ [reviewed |-> TRUE, label |-> "seen"] \in LabRow
        /\ Lab!Fresh \in LabRow /\ Lab!Absent \in LabRow
    BY DEF LabRow, Lab!Fresh, Lab!Absent
  <2>3. table \in [LabScans -> LabRow]
    BY <2>1, <2>2
  <2>4. Lab!Absent.label = "absent" /\ Lab!Fresh.label = ""
    BY DEF Lab!Absent, Lab!Fresh
  <2>5. \A n \in LabScans : table[n] = Lab!Absent \/ table[n].label \in {"", "seen"}
    BY <2>1, <2>4
  <2>6. \A n \in Stored : table[n].label \in {"", "seen"}
    BY <2>1, <2>4, LabConstants
  <2> QED
    BY <2>3, <2>4, <2>5, <2>6 DEF LabTable
<1>2. url \in Lab!Links /\ target = url.target /\ date = url.date
  BY DEF Lab!Init
<1>3. target # 0 => target \in Stored /\ date = Attempted[target].day
  BY <1>2 DEF Lab!Links
<1>4. LabPlace
  BY <1>3 DEF LabPlace, Lab!Init, Lab!FirstWindow, Lab!NoPayload
<1>5. LabList(payload, window, target, kept, offered, Lab!Present, Lab!Matching)
  <2>1. payload = Lab!NoPayload /\ kept = {} /\ window.cursor = 0
    BY DEF Lab!Init, Lab!FirstWindow
  <2> QED
    BY <2>1, NothingIsList
<1> QED
  BY <1>1, <1>4, <1>5 DEF LabInv

LEMMA SelectInv ==
    ASSUME LabInv, Lab!Select,
           target' # 0 => target' \in Stored /\ date' = Attempted[target'].day
    PROVE  LabInv'
<1>1. /\ table' = table /\ backend' = backend /\ patch' = patch
      /\ window' = Lab!FirstWindow /\ payload' = Lab!NoPayload /\ kept' = {}
  BY DEF Lab!Select, Lab!tableVars
<1>2. Lab!Present' = Lab!Present
  BY <1>1 DEF Lab!Present
<1>3. window'.cursor = 0 /\ window' \in [cursor : LabScans \cup {0}, all : BOOLEAN]
  BY <1>1 DEF Lab!FirstWindow
<1>4. payload'.next = 0
  BY <1>1 DEF Lab!NoPayload
<1>5. LabPlace'
  BY <1>1, <1>2, <1>3, <1>4 DEF LabInv, LabPlace
<1>6. LabList(payload', window', target', kept', offered', Lab!Present', Lab!Matching')
  BY <1>1, <1>3, NothingIsList
<1> QED
  BY <1>1, <1>5, <1>6 DEF LabInv

LEMMA FollowInv ==
    ASSUME LabInv, Lab!Follow
    PROVE  LabInv'
<1>1. PICK link \in Lab!Links \ {url} :
        /\ target' = link.target /\ date' = Lab!DateOf(link) /\ Lab!Select
  BY DEF Lab!Follow
<1>2. link.target # 0 => link.target \in Stored /\ link.date = Attempted[link.target].day
  BY <1>1 DEF Lab!Links
<1>3. link.target # 0 => Lab!DateOf(link) = link.date
  BY DEF Lab!DateOf
<1> QED
  BY <1>1, <1>2, <1>3, SelectInv

LEMMA ChooseInv ==
    ASSUME LabInv, Lab!Choose
    PROVE  LabInv'
BY SelectInv DEF Lab!Choose

LEMMA ReloadInv ==
    ASSUME LabInv, NEW w \in [cursor : LabScans \cup {0}, all : BOOLEAN], Lab!Reload(w),
           w.cursor # 0 => backend = "windows",
           target = 0 /\ w.cursor # 0 => \A n \in kept : n >= w.cursor => n \in offered
    PROVE  LabInv'
<1>1. /\ table' = table /\ backend' = backend /\ patch' = patch
      /\ target' = target /\ date' = date /\ filter' = filter
      /\ window' = w /\ payload' = Lab!NoPayload /\ kept' = kept /\ offered' = offered
  BY DEF Lab!Reload, Lab!tableVars, Lab!selectionVars, Lab!historyVars
<1>2. Lab!Present' = Lab!Present /\ Lab!Matching' = Lab!Matching
  BY <1>1, LabSame
<1>3. payload'.next = 0
  BY <1>1 DEF Lab!NoPayload
<1>4. LabPlace'
  BY <1>1, <1>2, <1>3 DEF LabInv, LabPlace
<1>5. target = 0 => kept \subseteq Lab!Matching
  BY DEF LabInv, LabList
<1>6. LabList(Lab!NoPayload, w, target, kept, offered, Lab!Present, Lab!Matching)
  BY <1>5, NothingIsList
<1>7. LabList(payload', window', target', kept', offered', Lab!Present', Lab!Matching')
  BY <1>1, <1>2, <1>6
<1> QED
  BY <1>1, <1>4, <1>7 DEF LabInv

LEMMA WindowsInv ==
    ASSUME LabInv,
           \/ Lab!Refresh \/ Lab!ShowAllMatches \/ Lab!NextWindow \/ Lab!BackToFirst
    PROVE  LabInv'
<1>1. /\ window \in [cursor : LabScans \cup {0}, all : BOOLEAN]
      /\ window.cursor # 0 \/ payload.next # 0 => backend = "windows"
      /\ payload.next \in LabScans \cup {0}
  BY DEF LabInv, LabPlace, LabList
<1>2. target = 0 /\ window.cursor # 0 =>
         \A n \in kept : n >= window.cursor => n \in offered
  BY DEF LabInv, LabList
<1>3. CASE Lab!Refresh
  BY <1>1, <1>2, <1>3, ReloadInv DEF Lab!Refresh
<1>4. CASE Lab!ShowAllMatches
  <2> DEFINE w == [window EXCEPT !.all = TRUE]
  <2>1. w \in [cursor : LabScans \cup {0}, all : BOOLEAN] /\ w.cursor = window.cursor
    BY <1>1
  <2>2. Lab!Reload(w)
    BY <1>4 DEF Lab!ShowAllMatches
  <2> HIDE DEF w
  <2> QED
    BY <1>1, <1>2, <2>1, <2>2, ReloadInv
<1>5. CASE Lab!NextWindow
  <2> DEFINE w == [cursor |-> payload.next, all |-> FALSE]
  <2>1. w \in [cursor : LabScans \cup {0}, all : BOOLEAN] /\ w.cursor = payload.next
    BY <1>1
  <2>2. Lab!Reload(w) /\ payload.next # 0 /\ payload.shown = payload.counted /\ payload.read
    BY <1>5 DEF Lab!NextWindow, Lab!allMatchesShown, Lab!Reload
  <2>3. target = 0 => \A n \in kept : n >= payload.next => n \in offered
    BY <2>2 DEF LabInv, LabList
  <2> HIDE DEF w
  <2> QED
    BY <1>1, <2>1, <2>2, <2>3, ReloadInv
<1>6. CASE Lab!BackToFirst
  <2> DEFINE w == Lab!FirstWindow
  <2>1. w \in [cursor : LabScans \cup {0}, all : BOOLEAN] /\ w.cursor = 0
    BY DEF Lab!FirstWindow
  <2>2. Lab!Reload(w)
    BY <1>6 DEF Lab!BackToFirst
  <2> HIDE DEF w
  <2> QED
    BY <2>1, <2>2, ReloadInv
<1> QED
  BY <1>3, <1>4, <1>5, <1>6

LEMMA ReadInv ==
    ASSUME LabInv, Lab!Read
    PROVE  LabInv'
<1>1. /\ table' = table /\ backend' = backend /\ patch' = patch /\ window' = window
      /\ target' = target /\ date' = date /\ filter' = filter
  BY DEF Lab!Read, Lab!tableVars, Lab!selectionVars
<1>2. LabTable(table) /\ LabPlace
  BY DEF LabInv
<1>3. PICK answer \in Lab!GET :
        /\ payload' = [answer EXCEPT
               !.read = TRUE,
               !.unlisted = Wanted \ answer.shown,
               !.uncounted = {c \in Lab!Categories :
                                 \E n \in Wanted \ answer.counted : Lab!In(n, c)}]
        /\ kept' = IF window.cursor = 0 THEN Wanted ELSE kept
        /\ offered' = (IF window.cursor = 0 THEN {} ELSE offered) \cup answer.shown
  BY DEF Lab!Read, Wanted
<1>4. PICK s, c, t, l, x : answer = LabAnswer(s, c, t, l, x) /\ AnswerOK(s, c, t, l, x)
  BY <1>2, AnswersAreOK
<1>5. answer.shown = s /\ answer.counted = c
  BY <1>4 DEF LabAnswer
<1> DEFINE u == Wanted \ s
           v == {category \in Lab!Categories :
                    \E n \in Wanted \ c : Lab!In(n, category)}
<1>6. payload' = [answer EXCEPT !.read = TRUE, !.unlisted = u, !.uncounted = v]
  BY <1>3, <1>5
<1>7. /\ payload'.read = TRUE /\ payload'.shown = s /\ payload'.counted = c
      /\ payload'.truncated = t /\ payload'.limited = l /\ payload'.next = x
      /\ payload'.unlisted = u /\ payload'.uncounted = v
  <2> HIDE DEF u, v
  <2> QED
    BY <1>4, <1>6 DEF LabAnswer
<1>8. offered' = (IF window.cursor = 0 THEN {} ELSE offered) \cup s
  BY <1>3, <1>5
<1>9. LabList(payload', window, target, kept', offered', Lab!Present, Lab!Matching)
  <2>1. LabList(payload, window, target, kept, offered, Lab!Present, Lab!Matching)
    BY DEF LabInv
  <2>2. kept' = IF window.cursor = 0 THEN Wanted ELSE kept
    BY <1>3
  <2> QED
    BY <1>2, <1>4, <1>7, <1>8, <2>1, <2>2, AnswerIsList
<1>10. Lab!Present' = Lab!Present /\ Lab!Matching' = Lab!Matching
  BY <1>1, LabSame
<1>11. LabPlace'
  <2>1. payload'.next # 0 => backend = "windows"
    BY <1>4, <1>7 DEF AnswerOK
  <2> QED
    BY <1>1, <1>2, <1>10, <2>1 DEF LabPlace
<1>12. LabList(payload', window', target', kept', offered', Lab!Present', Lab!Matching')
  BY <1>1, <1>9, <1>10
<1> QED
  BY <1>1, <1>2, <1>11, <1>12 DEF LabInv

LEMMA reviewAttemptInv ==
    ASSUME LabInv, Lab!reviewAttempt
    PROVE  LabInv'
<1>1. /\ table' = table /\ backend' = backend /\ window' = window /\ payload' = payload
      /\ target' = target /\ date' = date /\ filter' = filter
      /\ kept' = kept /\ offered' = offered
  BY DEF Lab!reviewAttempt, Lab!tableVars, Lab!selectionVars, Lab!historyVars
<1>2. Lab!Present' = Lab!Present /\ Lab!Matching' = Lab!Matching
  BY <1>1, LabSame
<1>3. patch'.scan \in Lab!Present /\ patch'.status \in Lab!Labels
  <2>1. payload.shown \subseteq Lab!Present
    BY DEF LabInv, LabList
  <2> QED
    BY <2>1 DEF Lab!reviewAttempt
<1>4. Lab!Labels' = Lab!Labels
  BY DEF Lab!Labels
<1>5. LabPlace'
  BY <1>1, <1>2, <1>3, <1>4 DEF LabInv, LabPlace
<1>6. LabList(payload', window', target', kept', offered', Lab!Present', Lab!Matching')
  BY <1>1, <1>2 DEF LabInv
<1> QED
  BY <1>1, <1>5, <1>6 DEF LabInv

\* A row that is written stays one, and what matches no more is not expected.
LEMMA WriteInv ==
    ASSUME LabInv, NEW n \in LabScans, NEW row \in LabRow, row.label # "absent",
           Lab!Write(n, row), window' = window,
           payload' = payload \/ payload' = Lab!NoPayload,
           patch' = patch \/ patch' = Lab!NoPatch
    PROVE  LabInv'
<1>1. /\ table' = [table EXCEPT ![n] = row] /\ backend' = backend
      /\ target' = target /\ date' = date /\ filter' = filter
      /\ offered' = offered /\ kept' = kept \cap Lab!Matching'
  BY DEF Lab!Write, Lab!selectionVars
<1>2. row # Lab!Absent
  BY DEF Lab!Absent
<1>3. LabTable(table')
  BY <1>1, <1>2 DEF LabInv, LabTable
<1>4. Lab!Present \subseteq Lab!Present'
  BY <1>1, <1>2, LabConstants DEF LabInv, LabTable, Lab!Present
<1>5. payload'.next \in {0, payload.next}
  BY DEF Lab!NoPayload
<1>6. LabPlace'
  BY <1>1, <1>4, <1>5 DEF LabInv, LabPlace
<1>7. LabList(payload, window, target, kept, offered, Lab!Present, Lab!Matching)
  BY DEF LabInv
<1>8. LabList(payload, window, target, kept', offered, Lab!Present', Lab!Matching')
  <2>1. kept' \subseteq kept /\ kept' \subseteq Lab!Matching'
    BY <1>1
  <2> QED
    BY <1>4, <1>7, <2>1 DEF LabList
<1>9. LabList(Lab!NoPayload, window, target, kept', offered, Lab!Present', Lab!Matching')
  <2>1. target = 0 => kept' \subseteq Lab!Matching'
    BY <1>1
  <2>2. target = 0 /\ window.cursor # 0 =>
           \A k \in kept' : k >= window.cursor => k \in offered
    BY <1>1, <1>7 DEF LabList
  <2> QED
    BY <2>1, <2>2, NothingIsList
<1>10. LabList(payload', window', target', kept', offered', Lab!Present', Lab!Matching')
  BY <1>1, <1>8, <1>9
<1> QED
  BY <1>3, <1>6, <1>10 DEF LabInv

LEMMA RowOfReview ==
    ASSUME LabInv, NEW n \in Lab!Present, NEW status \in Lab!Labels \cup {"unreviewed"}
    PROVE  /\ n \in LabScans
           /\ Lab!WithReview(n, status) \in LabRow
           /\ Lab!WithReview(n, status).label # "absent"
<1>1. n \in LabScans /\ table[n] # Lab!Absent
  BY LabConstants DEF Lab!Present
<1>2. table[n] \in LabRow /\ table[n].label # "absent"
  BY <1>1 DEF LabInv, LabTable
<1> QED
  BY <1>1, <1>2 DEF Lab!WithReview, Lab!Labels, LabRow

LEMMA TableInv ==
    ASSUME LabInv, Lab!Arrive \/ Lab!ReviewElsewhere
    PROVE  LabInv'
<1>1. CASE Lab!Arrive
  <2>1. PICK n \in Lab!Rows \ Lab!Present : Lab!Write(n, Lab!Fresh)
    BY <1>1 DEF Lab!Arrive
  <2>2. n \in LabScans
    BY <2>1, LabConstants
  <2>3. Lab!Fresh \in LabRow /\ Lab!Fresh.label # "absent"
    BY DEF Lab!Fresh, LabRow
  <2>4. window' = window /\ payload' = payload /\ patch' = patch
    BY <1>1 DEF Lab!Arrive
  <2> QED
    BY <2>1, <2>2, <2>3, <2>4, WriteInv
<1>2. CASE Lab!ReviewElsewhere
  <2>1. PICK n \in Lab!Present, status \in Lab!Labels \cup {"unreviewed"} :
          Lab!Write(n, Lab!WithReview(n, status))
    BY <1>2 DEF Lab!ReviewElsewhere
  <2>2. window' = window /\ payload' = payload /\ patch' = patch
    BY <1>2 DEF Lab!ReviewElsewhere
  <2> QED
    BY <2>1, <2>2, RowOfReview, WriteInv
<1> QED
  BY <1>1, <1>2

LEMMA PatchInv ==
    ASSUME LabInv, Lab!PatchAnswered \/ Lab!PatchFailed
    PROVE  LabInv'
<1>1. patch # Lab!NoPatch /\ patch' = Lab!NoPatch /\ window' = window
  BY DEF Lab!PatchAnswered, Lab!PatchFailed
<1>2. patch.scan \in Lab!Present /\ patch.status \in Lab!Labels
  BY <1>1 DEF LabInv, LabPlace
<1>3. payload' = payload \/ payload' = Lab!NoPayload
  BY DEF Lab!PatchAnswered, Lab!PatchFailed
<1>4. CASE Lab!Write(patch.scan, Lab!WithReview(patch.scan, patch.status))
  <2> DEFINE row == Lab!WithReview(patch.scan, patch.status)
  <2>1. patch.scan \in LabScans /\ row \in LabRow /\ row.label # "absent"
    BY <1>2, RowOfReview
  <2> HIDE DEF row
  <2> QED
    <3>1. Lab!Write(patch.scan, row)
      BY <1>4 DEF row
    <3> QED
      BY <1>1, <1>3, <2>1, <3>1, WriteInv
<1>5. CASE /\ Lab!PatchFailed
           /\ UNCHANGED <<Lab!tableVars, Lab!selectionVars, moves, Lab!historyVars>>
  <2>1. /\ table' = table /\ backend' = backend /\ payload' = payload
        /\ target' = target /\ date' = date /\ filter' = filter
        /\ kept' = kept /\ offered' = offered
    BY <1>5 DEF Lab!PatchFailed, Lab!tableVars, Lab!selectionVars, Lab!historyVars
  <2>2. Lab!Present' = Lab!Present /\ Lab!Matching' = Lab!Matching
    BY <2>1, LabSame
  <2>3. LabPlace'
    BY <1>1, <2>1, <2>2 DEF LabInv, LabPlace
  <2>4. LabList(payload', window', target', kept', offered', Lab!Present', Lab!Matching')
    BY <1>1, <2>1, <2>2 DEF LabInv
  <2> QED
    BY <2>1, <2>3, <2>4 DEF LabInv
<1> QED
  BY <1>4, <1>5 DEF Lab!PatchAnswered, Lab!PatchFailed

LEMMA DeployInv ==
    ASSUME LabInv, Lab!Deploy
    PROVE  LabInv'
<1>1. /\ table' = table /\ backend' = "windows" /\ window' = window
      /\ payload' = payload /\ patch' = patch
      /\ target' = target /\ date' = date /\ filter' = filter
      /\ kept' = kept /\ offered' = offered
  BY DEF Lab!Deploy, Lab!pageVars, Lab!selectionVars, Lab!historyVars
<1>2. Lab!Present' = Lab!Present /\ Lab!Matching' = Lab!Matching
  BY <1>1, LabSame
<1>3. LabPlace'
  BY <1>1, <1>2 DEF LabInv, LabPlace
<1>4. LabList(payload', window', target', kept', offered', Lab!Present', Lab!Matching')
  BY <1>1, <1>2 DEF LabInv
<1> QED
  BY <1>1, <1>3, <1>4 DEF LabInv

LEMMA LabNextInv ==
    ASSUME LabInv, Lab!Next \/ UNCHANGED labVars
    PROVE  LabInv'
<1>1. CASE Lab!Follow \/ Lab!Choose
  BY <1>1, FollowInv, ChooseInv
<1>2. CASE Lab!Read \/ Lab!reviewAttempt
  BY <1>2, ReadInv, reviewAttemptInv
<1>3. CASE Lab!Refresh \/ Lab!ShowAllMatches \/ Lab!NextWindow \/ Lab!BackToFirst
  BY <1>3, WindowsInv
<1>4. CASE Lab!PatchAnswered \/ Lab!PatchFailed
  BY <1>4, PatchInv
<1>5. CASE Lab!Arrive \/ Lab!ReviewElsewhere
  BY <1>5, TableInv
<1>6. CASE Lab!Deploy
  BY <1>6, DeployInv
<1>7. CASE UNCHANGED labVars
  BY <1>7, LabStutterInv
<1> QED
  BY <1>1, <1>2, <1>3, <1>4, <1>5, <1>6, <1>7 DEF Lab!Next

-----------------------------------------------------------------------------
(* The kiosk: a behaviour is about one part, and the others stay.          *)

DeviceInv == ScanInv /\ HistoryInv /\ HandOK /\ AttemptsInv /\ LabInv

LEMMA DeviceInitInv ==
    ASSUME MCInit
    PROVE  DeviceInv
<1>1. ScanInv /\ HistoryInv
  BY ScanInitInv, HistoryInitInv DEF MCInit
<1>2. HandOK
  BY DEF MCInit, History!Init, HandOK
<1>3. AttemptsInv
  BY AttemptsInitInv DEF MCInit
<1>4. LabInv
  BY LabInitInv DEF MCInit
<1> QED
  BY <1>1, <1>2, <1>3, <1>4 DEF DeviceInv

LEMMA DeviceNextInv ==
    ASSUME DeviceInv, [MCNext]_<<part, vars, historyVars, attemptVars, labVars>>
    PROVE  DeviceInv'
<1>1. [Next]_vars
  BY DEF MCNext
<1>2. History!Next \/ UNCHANGED historyVars
  BY DEF MCNext
<1>3. ScanInv'
  BY <1>1, ScanNextInv DEF DeviceInv
<1>4. HistoryInv' /\ HandOK'
  <2>1. CASE History!Next
    BY <2>1, HistoryNextInv DEF DeviceInv
  <2>2. CASE UNCHANGED historyVars
    BY <2>2, HistoryStutterInv DEF DeviceInv, HandOK, historyVars
  <2> QED
    BY <1>2, <2>1, <2>2
<1>5. AttemptsInv'
  <2>1. Attempts!Next \/ UNCHANGED attemptVars
    BY DEF MCNext
  <2> QED
    BY <2>1, AttemptsNextInv DEF DeviceInv
<1>6. LabInv'
  <2>1. Lab!Next \/ UNCHANGED labVars
    BY DEF MCNext
  <2> QED
    BY <2>1, LabNextInv DEF DeviceInv
<1> QED
  BY <1>3, <1>4, <1>5, <1>6 DEF DeviceInv

LEMMA DeviceAlwaysInv ==
    MCSpec => []DeviceInv
<1>1. MCInit => DeviceInv
  BY DeviceInitInv
<1>2. DeviceInv /\ [MCNext]_<<part, vars, historyVars, attemptVars, labVars>> => DeviceInv'
  BY DeviceNextInv
<1> QED
  BY <1>1, <1>2, PTL DEF MCSpec

\* Automatic attendance is attested by its worker, when the site requires a blink,
\* and not written twice within the debounce time, for any number of workers,
\* frames, faults and restarts.  (main.py _run, record_clock)
THEOREM ScansAlwaysJust ==
    MCSpec => ScansAreJust
<1>1. ASSUME DeviceInv, [MCNext]_<<part, vars, historyVars, attemptVars, labVars>>
      PROVE  /\ [\A w \in Workers : LivenessRequired /\ Clocks(w) =>
                    /\ \E f, g \in blinkers : f.closed /\ ~g.closed /\ f.ts < g.ts
                    /\ \A f \in blinkers :
                          f.face = w /\ f.gen = camera_generation /\ f.ts < writing.ts]_vars
             /\ [\A w \in Workers :
                    Clocks(w) /\ clocked[w] > 0 => clocked'[w] - clocked[w] > Debounce]_vars
  <2>1. [Next]_vars
    BY <1>1 DEF MCNext
  <2> QED
    BY <1>1, <2>1, ScanStep DEF DeviceInv, Clocks
<1> QED
  BY <1>1, DeviceAlwaysInv, PTL DEF MCSpec, ScansAreJust, Attested, NoDoubleScan

\* The kiosk infers directions from the last event of the person, and never two
\* exits in a row, for any number of people, rows, events and clock steps.
\* (database.py _get_last_attendance, main.py _infer_clock_action)
THEOREM DirectionsAlwaysFollow ==
    MCSpec => DirectionsFollow
<1>1. DeviceInv => (part = "history" => History!LastKnown)
  BY LastIsAlwaysKnown DEF DeviceInv
<1>2. ASSUME DeviceInv, [MCNext]_<<part, vars, historyVars, attemptVars, labVars>>
      PROVE  [History!OutAfterIn]_History!vars
  <2>1. History!Next \/ UNCHANGED historyVars
    BY <1>2 DEF MCNext
  <2>2. CASE UNCHANGED historyVars
    BY <2>2 DEF historyVars, History!vars, History!rosterVars, History!logVars
  <2>3. CASE History!Next
    BY <1>2, <2>3, NoOutIsRepeated DEF DeviceInv, History!OutAfterIn
  <2> QED
    BY <2>1, <2>2, <2>3
<1> QED
  BY <1>1, <1>2, DeviceAlwaysInv, PTL DEF MCSpec, DirectionsFollow, History!NoRepeatedOut

\* An attempt is in the table once whatever is lost, late or repeated, for any
\* number of scans, resets and requests.  (recognitionAttempts.ts ingestAttemptBatch)
THEOREM EvidenceIsOnce ==
    MCSpec => []EvidenceOnce
<1>1. DeviceInv => EvidenceOnce
  BY AttemptsAreOnce DEF DeviceInv, EvidenceOnce
<1> QED
  BY <1>1, DeviceAlwaysInv, PTL

\* The latest review of an attempt is the one shown; and what supervisors are shown
\* of a day says where it is capped, passes over nothing that matched all along,
\* and follows the link to an attempt, for any number of attempts, windows,
\* arrivals, reviews and answers lost.  (recognitionAttempts.ts listByDate, route.ts
\* GET, RecognitionCalibrationLab.tsx)
THEOREM ReviewsAreAlwaysShown ==
    MCSpec => []ReviewsAreShown
<1>1. DeviceInv => ReviewsAreShown
  BY AttemptsAreOnce, LabIsAlwaysHonest DEF DeviceInv, ReviewsAreShown
<1> QED
  BY <1>1, DeviceAlwaysInv, PTL
=============================================================================

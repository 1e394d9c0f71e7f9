---------------------------- MODULE ScanPipeline ----------------------------
(***************************************************************************)
(* Automatic attendance at the door: the camera loop of main.py, its       *)
(* detection thread and the blink that binds a scan to a live person.      *)
(*                                                                         *)
(* The camera loop stamps each frame and leaves it for the detector, which *)
(* matches it against the roster some time later and publishes a result.   *)
(* A matched worker must then blink: every frame that advances the blink   *)
(* is matched again, and only a result from a frame taken after the blink  *)
(* lets the scan be written.  Meanwhile the camera may fail and come back, *)
(* people may change places between two frames and the program may restart. *)
(*                                                                         *)
(* Time is the number of frames taken.  The recognizer tells two workers   *)
(* apart; it may fail to recognize either: the averaging over recent       *)
(* frames, a roster that is reloaded and a worker's row that changes only  *)
(* ever reject, so they are reasons to fail.                               *)
(***************************************************************************)
EXTENDS Integers

CONSTANTS
    Workers,            \* rows of the local workers table
    Nobody,             \* no face in the frame, or one that is not recognized
    MaxAge,             \* is_fresh_scan max_age_seconds
    Wait,               \* LIVENESS_WAIT_SEC
    Debounce,           \* CLOCK_DEBOUNCE_MINUTES
    Hold,               \* DISPLAY_TIME_SUCCESS_SEC
    MaxTime,            \* frames taken
    MaxFaults           \* camera failures and restarts

ASSUME ConstantsAssumption ==
    /\ Nobody \notin Workers
    /\ {MaxAge, Wait, Debounce, Hold, MaxTime, MaxFaults} \subseteq Nat

Faces == Workers \cup {Nobody}
Frames == [face : Faces, closed : BOOLEAN, ts : 0..MaxTime, gen : 0..MaxFaults]
NoFrame == [face |-> Nobody, closed |-> FALSE, ts |-> 0, gen |-> 0]

\* A result names the worker it found.
Results == [worker : Faces, ts : 0..MaxTime, gen : 0..MaxFaults]
NoResult == [worker |-> Nobody, ts |-> 0, gen |-> 0]

VARIABLES
    clocked,            \* the database: a worker's last automatic attendance; 0 for none
    \* shared by the two threads under detect_lock
    pending_frame,
    current_result,
    camera_generation,
    \* the detection thread
    taken,              \* the frame it works on
    found,              \* the result it is about to publish
    \* the camera loop
    now,
    step,
    frame,              \* the frame of this round
    pending,            \* pending_clock
    writing,            \* the result record_clock was called with
    invalidatedAt,
    displayUntil,
    last_clocks,        \* the same in memory
    LivenessRequired,   \* LIVENESS_REQUIRED, which the site chooses
    checker,            \* the liveness checker is loaded
    sawChecker,         \* and the loop knows it
    blinkers,           \* frames that advanced the blink so far
    faults

clockVars == <<clocked, last_clocks>>
sharedVars == <<pending_frame, current_result, camera_generation>>
detectorVars == <<taken, found>>
livenessVars == <<LivenessRequired, checker, sawChecker, blinkers>>
loopVars == <<now, step, frame, pending, writing, invalidatedAt, displayUntil>>
vars == <<clockVars, sharedVars, detectorVars, loopVars, livenessVars, faults>>

NoClock == [worker |-> Nobody, gen |-> 0, deadline |-> 0, confirmed |-> FALSE, at |-> 0]

Init ==
    /\ clocked = [w \in Workers |-> 0]
    /\ last_clocks = clocked
    /\ pending_frame = NoFrame
    /\ current_result = NoResult
    /\ camera_generation = 0
    /\ taken = NoFrame
    /\ found = NoResult
    /\ now = 0
    /\ step = "capture"
    /\ frame = NoFrame
    /\ pending = NoClock
    /\ writing = NoResult
    /\ invalidatedAt = 0
    /\ displayUntil = 0
    /\ LivenessRequired \in BOOLEAN
    /\ checker = LivenessRequired
    /\ sawChecker = LivenessRequired
    /\ blinkers = {}
    /\ faults = 0

-----------------------------------------------------------------------------
(* The detection thread.                                                   *)

TakeFrame ==
    /\ taken = NoFrame /\ found = NoResult
    /\ pending_frame # NoFrame
    /\ taken' = pending_frame
    /\ pending_frame' = NoFrame
    /\ UNCHANGED <<clockVars, current_result, camera_generation, found, loopVars,
                   livenessVars, faults>>

Match ==
    /\ taken # NoFrame
    /\ \E worker \in {taken.face, Nobody} :
           found' = [worker |-> worker, ts |-> taken.ts, gen |-> taken.gen]
    /\ taken' = NoFrame
    /\ UNCHANGED <<clockVars, sharedVars, loopVars, livenessVars, faults>>

\* A slip: a detector that was busy when the camera failed publishes all the same.
AnyGeneration(result) == TRUE

SameGeneration(result) == result.gen = camera_generation

publish_detection ==
    /\ found # NoResult
    /\ current_result' = IF SameGeneration(found) THEN found ELSE current_result
    /\ found' = NoResult
    /\ UNCHANGED <<clockVars, pending_frame, camera_generation, taken, loopVars,
                   livenessVars, faults>>

\* An exception in the detector publishes that there is no result.
DetectionError ==
    /\ taken # NoFrame
    /\ current_result' = IF taken.gen = camera_generation THEN NoResult ELSE current_result
    /\ taken' = NoFrame
    /\ UNCHANGED <<clockVars, pending_frame, camera_generation, found, loopVars,
                   livenessVars, faults>>

-----------------------------------------------------------------------------
(* The camera loop: one round is Capture, then Decide and perhaps Write.   *)

ResetBlink == blinkers' = {}

\* A recovered or lost checker starts the verification again.
Capture(face, closed) ==
    /\ step = "capture"
    /\ now < MaxTime
    /\ now' = now + 1
    /\ frame' = [face |-> face, closed |-> closed, ts |-> now', gen |-> camera_generation]
    /\ pending_frame' = frame'
    /\ \/ sawChecker = checker /\ UNCHANGED <<pending, current_result>>
       \/ sawChecker # checker /\ pending' = NoClock /\ current_result' = NoResult
    /\ sawChecker' = checker
    /\ step' = "decide"
    /\ UNCHANGED <<clockVars, camera_generation, detectorVars, writing, invalidatedAt,
                   displayUntil, LivenessRequired, checker, blinkers, faults>>

CaptureError ==
    /\ step = "capture"
    /\ faults < MaxFaults
    /\ faults' = faults + 1
    /\ camera_generation' = camera_generation + 1
    /\ invalidatedAt' = now
    /\ pending_frame' = NoFrame
    /\ current_result' = NoResult
    /\ pending' = NoClock
    /\ displayUntil' = 0
    /\ ResetBlink
    /\ sawChecker' = checker
    /\ UNCHANGED <<clockVars, detectorVars, now, step, frame, writing, LivenessRequired,
                   checker>>

is_fresh_scan(result) ==
    /\ result # NoResult
    /\ result.ts >= invalidatedAt
    /\ now - result.ts <= MaxAge

\* What this round consumes, if anything.
Consumed ==
    IF current_result.gen = camera_generation /\ is_fresh_scan(current_result)
    THEN current_result ELSE NoResult

Finish(nextStep) == step' = nextStep /\ frame' = NoFrame
NextRound == Finish("capture")

Deciding == step = "decide"

Blocked == LivenessRequired /\ ~sawChecker

\* Without its checker, or while a message is shown, the loop drops results.
Skip ==
    /\ Deciding
    /\ Blocked \/ now < displayUntil
    /\ current_result' = NoResult
    /\ pending' = IF Blocked THEN NoClock ELSE pending
    /\ NextRound
    /\ UNCHANGED <<clockVars, pending_frame, camera_generation, detectorVars, now,
                   writing, invalidatedAt, displayUntil, livenessVars, faults>>

Active == Deciding /\ ~Blocked /\ now >= displayUntil

Expired == pending.gen # camera_generation \/ now > pending.deadline

IdentityChanged == Consumed # NoResult /\ Consumed.worker # pending.worker

\* The attempt ends; a consumed result is spent on it.
Interrupted ==
    /\ Active
    /\ pending # NoClock
    /\ \/ Expired \/ IdentityChanged
    /\ pending' = NoClock
    /\ \/ UNCHANGED displayUntil
       \/ ~Expired /\ displayUntil' = now + Hold
    /\ current_result' = NoResult
    /\ ResetBlink
    /\ NextRound
    /\ UNCHANGED <<clockVars, pending_frame, camera_generation, detectorVars, now,
                   writing, invalidatedAt, LivenessRequired, checker, sawChecker,
                   faults>>

Verifying == Active /\ pending # NoClock /\ ~Expired /\ ~IdentityChanged

\* A slip: the face of a blink frame is not compared with the worker's.
AnyFace == TRUE

frame_matches_pending == frame.face = pending.worker

\* A slip: the wait is added to what is left of the first one.
Prolonged(deadline) == deadline + Wait

Extended(deadline) == IF deadline > now + Wait THEN deadline ELSE now + Wait

Confirm == pending' = [pending EXCEPT !.confirmed = TRUE, !.at = now, !.deadline = Extended(@)]

\* LivenessChecker.update.  A blink is closed eyes, then open ones.  Each of its
\* frames must be the pending worker's, and the blink may start over at any frame.
AwaitBlink ==
    /\ Verifying
    /\ ~pending.confirmed
    /\ \/ ResetBlink /\ UNCHANGED pending
       \/ /\ frame_matches_pending /\ frame.closed
          /\ \E earlier \in {blinkers, {}} : blinkers' = earlier \cup {frame}
          /\ UNCHANGED pending
       \/ /\ frame_matches_pending /\ ~frame.closed /\ blinkers # {}
          /\ blinkers' = blinkers \cup {frame}
          /\ Confirm
    /\ current_result' = NoResult
    /\ NextRound
    /\ UNCHANGED <<clockVars, pending_frame, camera_generation, detectorVars, now,
                   writing, invalidatedAt, displayUntil, LivenessRequired, checker,
                   sawChecker, faults>>

\* The landmark model breaks; the policy drops it and loads it again later.
CheckerFails ==
    /\ Verifying
    /\ ~pending.confirmed
    /\ checker' = FALSE
    /\ ResetBlink
    /\ current_result' = NoResult
    /\ NextRound
    /\ UNCHANGED <<clockVars, pending_frame, camera_generation, detectorVars, now,
                   pending, writing, invalidatedAt, displayUntil, LivenessRequired,
                   sawChecker, faults>>

CheckerRecovers ==
    /\ LivenessRequired
    /\ ~checker /\ ~sawChecker
    /\ step = "capture"
    /\ checker' = TRUE
    /\ UNCHANGED <<clockVars, sharedVars, detectorVars, loopVars, LivenessRequired,
                   sawChecker, blinkers, faults>>

\* A slip: any result after the confirmation will do, whatever its frame.
Late(result) == result # NoResult

AfterBlink(result) == result # NoResult /\ result.ts > pending.at

\* The blink is complete: a result from a later frame authorizes the write.
AwaitConfirmation ==
    /\ Verifying
    /\ pending.confirmed
    /\ \/ /\ AfterBlink(Consumed)
          /\ writing' = Consumed
          /\ Finish("write")
       \/ ~AfterBlink(Consumed) /\ NextRound /\ UNCHANGED writing
    /\ current_result' = NoResult
    /\ UNCHANGED <<clockVars, pending_frame, camera_generation, detectorVars, now,
                   pending, invalidatedAt, displayUntil, livenessVars, faults>>

Recent(time) == time > 0 /\ now - time <= Debounce

\* A slip: only the program's own memory of the last scan is asked.
RecentlyRemembered(w) == Recent(last_clocks[w])

RecentlyClocked(w) == Recent(last_clocks[w]) \/ Recent(clocked[w])

Recognized ==
    /\ Active
    /\ pending = NoClock
    /\ Consumed # NoResult /\ Consumed.worker # Nobody
    /\ current_result' = NoResult

\* Already clocked: only a message.
Repeat ==
    /\ Recognized
    /\ RecentlyClocked(Consumed.worker)
    /\ displayUntil' = now + Hold
    /\ NextRound
    /\ UNCHANGED <<clockVars, pending_frame, camera_generation, detectorVars, now,
                   pending, writing, invalidatedAt, livenessVars, faults>>

StartBlink ==
    /\ Recognized
    /\ LivenessRequired
    /\ ~RecentlyClocked(Consumed.worker)
    /\ pending' = [worker |-> Consumed.worker, gen |-> camera_generation,
                   deadline |-> now + Wait, confirmed |-> FALSE, at |-> 0]
    /\ ResetBlink
    /\ NextRound
    /\ UNCHANGED <<clockVars, pending_frame, camera_generation, detectorVars, now,
                   writing, invalidatedAt, displayUntil, LivenessRequired, checker,
                   sawChecker, faults>>

ScanWithoutBlink ==
    /\ Recognized
    /\ ~LivenessRequired
    /\ ~RecentlyClocked(Consumed.worker)
    /\ writing' = Consumed
    /\ Finish("write")
    /\ UNCHANGED <<clockVars, pending_frame, camera_generation, detectorVars, now,
                   pending, invalidatedAt, displayUntil, livenessVars, faults>>

\* No result, no face, or one that nobody is recognized by.
NoMatch ==
    /\ Active
    /\ pending = NoClock
    /\ Consumed.worker = Nobody
    /\ \/ UNCHANGED displayUntil
       \/ Consumed # NoResult /\ displayUntil' \in {0, now + Hold}
    /\ current_result' = NoResult
    /\ NextRound
    /\ UNCHANGED <<clockVars, pending_frame, camera_generation, detectorVars, now,
                   pending, writing, invalidatedAt, livenessVars, faults>>

MayWrite ==
    /\ writing.gen = camera_generation
    /\ is_fresh_scan(writing)
    /\ LivenessRequired => checker

\* The database refuses a worker whose row changed since the match; it may be busy.
record_clock ==
    /\ step = "write"
    /\ \/ /\ MayWrite
          /\ clocked' = [clocked EXCEPT ![writing.worker] = now]
          /\ last_clocks' = [last_clocks EXCEPT ![writing.worker] = now]
       \/ UNCHANGED clockVars
    /\ pending' = NoClock
    /\ writing' = NoResult
    /\ ResetBlink
    /\ displayUntil' = now + Hold
    /\ NextRound
    /\ UNCHANGED <<sharedVars, detectorVars, now, invalidatedAt, LivenessRequired,
                   checker, sawChecker, faults>>

-----------------------------------------------------------------------------
\* The program restarts; a new generation stands for the new process.
Restart ==
    /\ faults < MaxFaults
    /\ faults' = faults + 1
    /\ camera_generation' = camera_generation + 1
    /\ pending_frame' = NoFrame
    /\ current_result' = NoResult
    /\ taken' = NoFrame
    /\ found' = NoResult
    /\ step' = "capture"
    /\ frame' = NoFrame
    /\ pending' = NoClock
    /\ writing' = NoResult
    /\ invalidatedAt' = 0
    /\ displayUntil' = 0
    /\ last_clocks' = [w \in Workers |-> 0]
    /\ checker' = LivenessRequired
    /\ sawChecker' = LivenessRequired
    /\ ResetBlink
    /\ UNCHANGED <<clocked, now, LivenessRequired>>

-----------------------------------------------------------------------------

LoopNext ==
    \/ \E face \in Faces, closed \in BOOLEAN : Capture(face, closed)
    \/ CaptureError \/ Skip \/ Interrupted \/ AwaitBlink \/ CheckerFails
    \/ AwaitConfirmation \/ Repeat \/ StartBlink \/ ScanWithoutBlink \/ NoMatch
    \/ record_clock

DetectorNext == TakeFrame \/ Match \/ publish_detection \/ DetectionError

Next == LoopNext \/ DetectorNext \/ CheckerRecovers \/ Restart

Spec == Init /\ [][Next]_vars

-----------------------------------------------------------------------------
(* Properties.                                                             *)

\* The type invariant; no worker is made to wait longer than Wait from here.
TypeOK ==
    /\ LivenessRequired \in BOOLEAN
    /\ clocked \in [Workers -> 0..MaxTime] /\ last_clocks \in [Workers -> 0..MaxTime]
    /\ pending_frame \in Frames /\ taken \in Frames /\ frame \in Frames
    /\ current_result \in Results /\ found \in Results /\ writing \in Results
    /\ camera_generation \in 0..MaxFaults
    /\ now \in 0..MaxTime
    /\ step \in {"capture", "decide", "write"}
    /\ pending \in [worker : Faces, gen : 0..MaxFaults, deadline : 0..(now + Wait),
                    confirmed : BOOLEAN, at : 0..MaxTime]
    /\ invalidatedAt \in 0..MaxTime
    /\ displayUntil \in 0..(MaxTime + Hold)
    /\ checker \in BOOLEAN /\ sawChecker \in BOOLEAN
    /\ blinkers \subseteq Frames
    /\ faults \in 0..MaxFaults

\* A result that waits for the camera loop is one of the present camera's, even
\* when the detector was busy while the camera failed.  (main.py publish_detection)
ResultIsCurrent == current_result # NoResult => current_result.gen = camera_generation

Clocks(w) == clocked'[w] # clocked[w]

\* With liveness required, automatic attendance is attested by its worker alone:
\* eyes that closed and opened, on frames that all show this worker and that the
\* scan follows, with no camera failure or restart from the first of these frames
\* to the write.  (main.py _run, record_clock)
Attested == [][\A w \in Workers : LivenessRequired /\ Clocks(w) =>
    /\ \E f, g \in blinkers : f.closed /\ ~g.closed /\ f.ts < g.ts
    /\ \A f \in blinkers : f.face = w /\ f.gen = camera_generation /\ f.ts < writing.ts]_vars

\* Nobody is clocked twice in the debounce time by staying at the door, neither
\* across a restart nor across a camera failure.  (main.py _run)
NoDoubleScan == [][\A w \in Workers :
    Clocks(w) /\ clocked[w] > 0 => clocked'[w] - clocked[w] > Debounce]_vars
=============================================================================

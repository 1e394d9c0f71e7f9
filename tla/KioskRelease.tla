---------------------------- MODULE KioskRelease ----------------------------
(***************************************************************************)
(* Updating a kiosk's program: tools/kiosk_release.py and update.sh.       *)
(*                                                                         *)
(* A launcher keeps one application process running.  It runs the          *)
(* committed release, or a trial while the updater that published it is    *)
(* alive.  The updater stages a release, publishes it as a trial, waits    *)
(* until it has been healthy for some time, commits it by replacing one    *)
(* file, and collects what is no longer used.  The updater is a script     *)
(* of commands: a signal may cut a command short and run the exit trap, a  *)
(* kill lets the command in progress finish as an orphan, and the power    *)
(* may fail anywhere.                                                      *)
(*                                                                         *)
(* Processes are identified by start time and boot, so an identity is      *)
(* never reused: an updater is named by its number and an application by   *)
(* its launch.                                                             *)
(***************************************************************************)
EXTENDS Integers, Sequences

CONSTANTS
    NumUpdates,     \* updates ever started
    MaxFaults       \* crashes of the application and power failures

ReleaseAssumption ==
    NumUpdates \in Nat /\ MaxFaults \in Nat

\* Release 0 is the installed checkout; update n stages release n.
Releases == 0..NumUpdates
NoTrial == [release |-> 0, owner |-> 0]
NoLaunch == [release |-> 0, launch |-> 0]
NoRelease == -1

VARIABLES
    \* files
    good,       \* releases whose camera and models come up
    dirs,       \* releases whose code is on disk
    envs,       \* releases whose own environment is on disk
    venv,       \* the environment a release's venv resolves to
    current,    \* kiosk-current.json
    durable,    \* what kiosk-current.json holds after a power failure
    pending,    \* kiosk-pending.json
    marker,     \* kiosk-running.json
    \* the updater
    updates,    \* the number of the last updater
    alive,      \* its shell is alive
    script,     \* commands it has still to run
    step,       \* how far the first of them is
    trap,       \* the exit trap is set and no release is committed
    stable,     \* the launch that health has seen in order, 0 if none
    doomed,     \* what collect has still to look at
    \* the launcher and the application
    phase,
    running,    \* the release the launcher chose
    seen,       \* the committed release it read last
    rejected,
    child,
    launches,
    since,      \* launches before this launcher started
    faults

fileVars == <<good, dirs, envs, venv, current, durable, pending, marker>>
updaterVars == <<updates, alive, script, step, trap, stable, doomed>>
launcherVars == <<phase, running, seen, rejected, child, launches, since>>
vars == <<fileVars, updaterVars, launcherVars, faults>>

\* The commands of update.sh in order, and of its exit trap.
UpdateScript == <<"cancel", "collect", "retire", "cancel", "trap", "collect", "build",
                  "prepare", "restart", "health", "commit", "committed", "retire",
                  "collect">>
ExitScript == <<"cancel", "collect">>

Init ==
    /\ good \in {g \in SUBSET Releases : 0 \in g}
    /\ dirs = {0}
    /\ envs = {0}
    /\ venv = [r \in Releases |-> 0]
    /\ current = 0
    /\ durable = 0
    /\ pending = NoTrial
    /\ marker = NoLaunch
    /\ updates = 0
    /\ alive = FALSE
    /\ script = <<>>
    /\ step = "start"
    /\ trap = FALSE
    /\ stable = 0
    /\ doomed = {}
    /\ phase = "down"
    /\ running = 0
    /\ seen = NoRelease
    /\ rejected = NoRelease
    /\ child = NoLaunch
    /\ launches = 0
    /\ since = 0
    /\ faults = 0

-----------------------------------------------------------------------------
(* The launcher.                                                           *)

\* A slip: a trial outlives its updater.
TrialIsPublished == pending # NoTrial

TrialIsOwned == pending # NoTrial /\ pending.owner = updates /\ alive

\* The committed release was read before the trial record.
selected == IF TrialIsOwned THEN pending.release ELSE seen
Choice == IF selected = rejected THEN current ELSE selected

StartLauncher ==
    /\ phase = "down"
    /\ phase' = "choose"
    /\ since' = launches
    /\ seen' = current
    /\ UNCHANGED <<fileVars, updaterVars, running, rejected, child, launches, faults>>

\* What the launcher remembers goes with it.
LauncherEnds ==
    /\ phase' = "down"
    /\ running' = 0
    /\ seen' = NoRelease
    /\ rejected' = NoRelease

Choose ==
    /\ phase = "choose"
    /\ running' = Choice
    /\ seen' = NoRelease
    /\ phase' = "spawn"
    /\ UNCHANGED <<fileVars, updaterVars, rejected, child, launches, since, faults>>

Complete(r) == r \in dirs /\ venv[r] \in envs

Spawn ==
    /\ phase = "spawn"
    /\ Complete(running)
    /\ launches' = launches + 1
    /\ child' = [release |-> running, launch |-> launches']
    /\ phase' = "mark"
    /\ UNCHANGED <<fileVars, updaterVars, running, seen, rejected, since, faults>>

Reject ==
    /\ phase' = "choose"
    /\ rejected' = running
    /\ seen' = current
    /\ UNCHANGED running

\* Popen fails; without the committed release the launcher gives up.
SpawnFails ==
    /\ phase = "spawn"
    /\ ~Complete(running)
    /\ \/ running = current /\ LauncherEnds
       \/ running # current /\ Reject
    /\ UNCHANGED <<fileVars, updaterVars, child, launches, since, faults>>

\* A full disk leaves the old marker.
Mark ==
    /\ phase = "mark"
    /\ \/ marker' = [release |-> running, launch |-> launches]
       \/ UNCHANGED marker
    /\ phase' = "watch"
    /\ UNCHANGED <<good, dirs, envs, venv, current, durable, pending, updaterVars,
                   running, seen, rejected, child, launches, since, faults>>

\* Every half second, while the application runs.
Poll ==
    /\ phase = "watch"
    /\ child # NoLaunch
    /\ phase' = "compare"
    /\ seen' = current
    /\ UNCHANGED <<fileVars, updaterVars, running, rejected, child, launches, since, faults>>

Compare ==
    /\ phase = "compare"
    /\ \/ Choice = running /\ phase' = "watch" /\ seen' = NoRelease /\ UNCHANGED child
       \/ Choice # running /\ phase' = "choose" /\ child' = NoLaunch /\ seen' = current
    /\ UNCHANGED <<fileVars, updaterVars, running, rejected, launches, since, faults>>

\* A trial that stops is rejected; the committed release is restarted with
\* the launcher.
ChildExited ==
    /\ phase = "watch"
    /\ child = NoLaunch
    /\ \/ running # current /\ Reject
       \/ running = current /\ LauncherEnds
    /\ UNCHANGED <<fileVars, updaterVars, child, launches, since, faults>>

-----------------------------------------------------------------------------
(* The updater's commands.                                                 *)

Runs(command, at) == script # <<>> /\ Head(script) = command /\ step = at

\* A shell that was killed starts no further command.
Done ==
    /\ script' = IF alive THEN Tail(script) ELSE <<>>
    /\ step' = "start"

\* One updater at a time, beside a running kiosk.
StartUpdate ==
    /\ script = <<>>
    /\ phase # "down"
    /\ updates < NumUpdates
    /\ updates' = updates + 1
    /\ alive' = TRUE
    /\ script' = UpdateScript
    /\ step' = "start"
    /\ trap' = FALSE
    /\ UNCHANGED <<fileVars, launcherVars, stable, doomed, faults>>

\* Removing the trial also flushes a replaced kiosk-current.json.
Cancel ==
    /\ Runs("cancel", "start")
    /\ pending' = NoTrial
    /\ durable' = current
    /\ Done
    /\ UNCHANGED <<good, dirs, envs, venv, current, marker, launcherVars, updates, alive,
                   trap, stable, doomed, faults>>

LauncherLives == phase # "down" /\ marker.launch > since
ChildLives == child # NoLaunch /\ marker.launch = child.launch

Protected == {current} \cup (IF LauncherLives \/ ChildLives THEN {marker.release} ELSE {})

Staged == {<<"code", r>> : r \in dirs \ {0}} \cup {<<"env", r>> : r \in envs \ {0}}

\* A slip: the environment of a release is not protected with its code.
KeepCode(item) == item[1] = "code" /\ item[2] \in Protected

Keep(item) == \E r \in Protected : item \in {<<"code", r>>, <<"env", venv[r]>>}

Collect ==
    /\ Runs("collect", "start")
    /\ doomed' = Staged
    /\ step' = "look"
    /\ UNCHANGED <<fileVars, launcherVars, updates, alive, script, trap, stable, faults>>

KeepItem(item) ==
    /\ Runs("collect", "look")
    /\ item \in doomed
    /\ Keep(item)
    /\ doomed' = doomed \ {item}
    /\ UNCHANGED <<fileVars, launcherVars, updates, alive, script, step, trap, stable, faults>>

\* The decision is taken before the removal.
DoomItem(item) ==
    /\ Runs("collect", "look")
    /\ item \in doomed
    /\ ~Keep(item)
    /\ step' = "remove"
    /\ doomed' = {item}
    /\ UNCHANGED <<fileVars, launcherVars, updates, alive, script, trap, stable, faults>>

RemoveItem ==
    /\ Runs("collect", "remove")
    /\ dirs' = {r \in dirs : <<"code", r>> \notin doomed}
    /\ envs' = {r \in envs : <<"env", r>> \notin doomed}
    /\ IF alive THEN doomed' = Staged' /\ step' = "look" /\ UNCHANGED script
                ELSE doomed' = {} /\ Done
    /\ UNCHANGED <<good, venv, current, durable, pending, marker, launcherVars, updates,
                   alive, trap, stable, faults>>

CollectDone ==
    /\ Runs("collect", "look")
    /\ doomed = {}
    /\ Done
    /\ UNCHANGED <<fileVars, launcherVars, updates, alive, trap, stable, doomed, faults>>

\* The original environment goes when the committed release has another.
Retire ==
    /\ Runs("retire", "start")
    /\ envs' = IF venv[current] = 0 THEN envs ELSE envs \ {0}
    /\ Done
    /\ UNCHANGED <<good, dirs, venv, current, durable, pending, marker, launcherVars,
                   updates, alive, trap, stable, doomed, faults>>

SetTrap ==
    /\ Runs("trap", "start")
    /\ trap' = TRUE
    /\ Done
    /\ UNCHANGED <<fileVars, launcherVars, updates, alive, stable, doomed, faults>>

\* A slip: the candidate gets the number of the next update.
NextCandidate == updates + 1

Candidate == updates

\* With unchanged requirements the candidate shares the active environment.
Build ==
    /\ Runs("build", "start")
    /\ dirs' = dirs \cup {Candidate}
    /\ \/ venv' = [venv EXCEPT ![Candidate] = venv[current]] /\ UNCHANGED envs
       \/ venv' = [venv EXCEPT ![Candidate] = Candidate] /\ envs' = envs \cup {Candidate}
    /\ Done
    /\ UNCHANGED <<good, current, durable, pending, marker, launcherVars, updates, alive,
                   trap, stable, doomed, faults>>

\* kiosk-current.next is on disk before the trial is published.
Prepare ==
    /\ Runs("prepare", "start")
    /\ pending' = [release |-> Candidate, owner |-> updates]
    /\ Done
    /\ UNCHANGED <<good, dirs, envs, venv, current, durable, marker, launcherVars, updates,
                   alive, trap, stable, doomed, faults>>

\* systemctl kill: the launcher stops its application and systemd restarts it.
Restart ==
    /\ Runs("restart", "start")
    /\ LauncherEnds
    /\ child' = NoLaunch
    /\ Done
    /\ UNCHANGED <<fileVars, launches, since, updates, alive, trap, stable, doomed, faults>>

\* A slip: whatever release the launcher runs may pass the gate.
AnyInOrder == LauncherLives /\ ChildLives /\ child.release \in good

InOrder ==
    /\ marker.release = pending.release
    /\ LauncherLives
    /\ ChildLives
    /\ child.release \in good

StartHealth ==
    /\ Runs("health", "start")
    /\ step' = "probe"
    /\ stable' = 0
    /\ UNCHANGED <<fileVars, launcherVars, updates, alive, script, trap, doomed, faults>>

\* The gate opens when one launch is found in order twice with no failure
\* between; even a good release may fail a probe.
Probe ==
    /\ Runs("health", "probe")
    /\ \/ /\ InOrder /\ stable # marker.launch
          /\ stable' = marker.launch /\ UNCHANGED <<script, step>>
       \/ stable' = 0 /\ UNCHANGED <<script, step>>
       \/ InOrder /\ stable = marker.launch /\ stable' = 0 /\ Done
    /\ UNCHANGED <<fileVars, launcherVars, updates, alive, trap, doomed, faults>>

CommitReplace ==
    /\ Runs("commit", "start")
    /\ current' = Candidate
    /\ step' = "replaced"
    /\ UNCHANGED <<good, dirs, envs, venv, durable, pending, marker, launcherVars, updates,
                   alive, script, trap, stable, doomed, faults>>

CommitSync ==
    /\ Runs("commit", "replaced")
    /\ durable' = current
    /\ step' = "synced"
    /\ UNCHANGED <<good, dirs, envs, venv, current, pending, marker, launcherVars, updates,
                   alive, script, trap, stable, doomed, faults>>

CommitUnlink ==
    /\ Runs("commit", "synced")
    /\ pending' = NoTrial
    /\ Done
    /\ UNCHANGED <<good, dirs, envs, venv, current, durable, marker, launcherVars, updates,
                   alive, trap, stable, doomed, faults>>

Committed ==
    /\ Runs("committed", "start")
    /\ trap' = FALSE
    /\ Done
    /\ UNCHANGED <<fileVars, launcherVars, updates, alive, stable, doomed, faults>>

-----------------------------------------------------------------------------
(* Failures.                                                               *)

\* A command fails or a signal cuts it short: the trap cancels the trial and
\* collects, ignoring further signals.
finish_update ==
    /\ script' = IF trap THEN ExitScript ELSE <<>>
    /\ alive' = trap
    /\ trap' = FALSE
    /\ step' = "start"
    /\ doomed' = {}
    /\ stable' = 0
    /\ UNCHANGED <<fileVars, launcherVars, updates, faults>>

InExitScript == script = ExitScript \/ script = <<"collect">>

Interrupt ==
    /\ alive /\ script # <<>> /\ ~InExitScript
    /\ finish_update

\* The deadline of the health gate.
HealthTimeout ==
    /\ Runs("health", "probe")
    /\ IF alive THEN finish_update
                ELSE /\ Done
                     /\ stable' = 0
                     /\ UNCHANGED <<fileVars, launcherVars, updates, alive, trap, doomed, faults>>

\* The last command was run; the lock is released.
Exit ==
    /\ alive /\ script = <<>>
    /\ alive' = FALSE
    /\ UNCHANGED <<fileVars, launcherVars, updates, script, step, trap, stable, doomed, faults>>

\* SIGKILL or a lost connection: a command that was started still finishes,
\* and holds the lock until then.
Kill ==
    /\ alive
    /\ alive' = FALSE
    /\ trap' = FALSE
    /\ script' = IF step = "start" THEN <<>> ELSE <<Head(script)>>
    /\ UNCHANGED <<fileVars, launcherVars, updates, step, stable, doomed, faults>>

ChildCrash ==
    /\ faults < MaxFaults
    /\ faults' = faults + 1
    /\ child # NoLaunch
    /\ child' = NoLaunch
    /\ UNCHANGED <<fileVars, updaterVars, phase, running, seen, rejected, launches, since>>

\* A replaced kiosk-current.json that was not flushed may be lost.
PowerFailure ==
    /\ faults < MaxFaults
    /\ faults' = faults + 1
    /\ current' \in {current, durable}
    /\ durable' = current'
    /\ alive' = FALSE
    /\ script' = <<>>
    /\ step' = "start"
    /\ trap' = FALSE
    /\ doomed' = {}
    /\ LauncherEnds
    /\ child' = NoLaunch
    /\ stable' = 0
    /\ UNCHANGED <<good, dirs, envs, venv, pending, marker, updates, launches, since>>

-----------------------------------------------------------------------------

LauncherNext ==
    \/ StartLauncher \/ Choose \/ Spawn \/ SpawnFails \/ Mark
    \/ Poll \/ Compare \/ ChildExited

CommandNext ==
    \/ Cancel \/ Collect \/ RemoveItem \/ CollectDone \/ Retire \/ SetTrap
    \/ \E item \in doomed : KeepItem(item) \/ DoomItem(item)
    \/ Build \/ Prepare \/ Restart \/ StartHealth \/ Probe
    \/ CommitReplace \/ CommitSync \/ CommitUnlink \/ Committed \/ Exit

FaultNext == Interrupt \/ Kill \/ ChildCrash \/ PowerFailure

Next == LauncherNext \/ StartUpdate \/ CommandNext \/ HealthTimeout \/ FaultNext

Spec == Init /\ [][Next]_vars

\* systemd keeps the launcher running, commands end, and the gate has a
\* deadline.
Fairness ==
    /\ WF_vars(LauncherNext)
    /\ WF_vars(CommandNext)
    /\ WF_vars(HealthTimeout)

FairSpec == Spec /\ Fairness

-----------------------------------------------------------------------------
(* Properties.                                                             *)

TypeOK ==
    /\ good \subseteq Releases /\ dirs \subseteq Releases /\ envs \subseteq Releases
    /\ venv \in [Releases -> Releases]
    /\ current \in Releases /\ durable \in Releases
    /\ pending \in [release : Releases, owner : 0..NumUpdates]
    /\ marker \in [release : Releases, launch : 0..launches]
    /\ updates \in 0..NumUpdates
    /\ alive \in BOOLEAN /\ trap \in BOOLEAN
    /\ step \in {"start", "look", "remove", "probe", "replaced", "synced"}
    /\ stable \in 0..launches
    /\ doomed \subseteq {"code", "env"} \X Releases
    /\ phase \in {"down", "choose", "spawn", "mark", "watch", "compare"}
    /\ running \in Releases /\ seen \in Releases \cup {NoRelease}
    /\ rejected \in Releases \cup {NoRelease}
    /\ child \in [release : Releases, launch : 0..launches]
    /\ launches \in Nat /\ since \in 0..launches
    /\ faults \in 0..MaxFaults

\* Wherever an update is cut short, by a signal, a kill or a power failure, the
\* code and the environment of the committed release are on disk: the collector
\* and the retirement of the original environment never take them, whichever
\* of the two contents kiosk-current.json has after a power failure.
\* (kiosk_release.py collect, retire_original_venv, cancel)
CommittedIsComplete == \A r \in {current, durable} : Complete(r)

\* No release that does not come up is ever committed, even when the previous
\* application answers the gate's probes, crashes or is launched again.
\* (kiosk_release.py healthy, commit)
CommittedIsGood == {current, durable} \subseteq good

\* Both together: after any interruption the kiosk can start the committed
\* release.
CommittedIsUsable == CommittedIsComplete /\ CommittedIsGood

\* The collector's promise: "retains any release whose supervisor or child could
\* still be shutting down".  (update.sh finish_update)
RunningIsComplete == child # NoLaunch => Complete(child.release)

\* However updates end, the kiosk ends up running the committed release.
\* (kiosk_release.py launch)
Recovers == <>[](child # NoLaunch /\ child.release = current)
=============================================================================

----------------------------- MODULE MCKioskDisk -----------------------------
(***************************************************************************)
(* What a kiosk keeps on its card besides its rows: the photos, of one     *)
(* worker of the portal and of one enrolled at the kiosk; or the releases, *)
(* with one update.  The two share no state: a behaviour is about one of   *)
(* them and the other stays in its initial state.                          *)
(***************************************************************************)
EXTENDS PhotoJournal

CONSTANTS p1, l1, NumUpdates, MaxUpdateFaults

VARIABLES part,
          good, dirs, envs, venv, current, durable, pending, marker,
          updates, alive, script, command, trap, stable, doomed,
          phase, running, seen, rejected, child, launches, since, failures

releaseVars == <<good, dirs, envs, venv, current, durable, pending, marker,
                 updates, alive, script, command, trap, stable, doomed, phase,
                 running, seen, rejected, child, launches, since, failures>>

Updates == INSTANCE KioskRelease
            WITH step <- command, faults <- failures,
                 MaxFaults <- MaxUpdateFaults

ASSUME Updates!ReleaseAssumption

MCInit ==
    /\ part \in {"photos", "release"}
    /\ Init
    /\ part # "photos" => enrolled = {}
    /\ Updates!Init
    /\ part # "release" => good = {0}

MCNext ==
    /\ UNCHANGED part
    /\ \/ /\ part = "photos"
          /\ Next
          /\ UNCHANGED releaseVars
       \/ /\ part = "release"
          /\ Updates!Next
          /\ UNCHANGED vars

\* The fairness each part states for itself.
MCFairness ==
    /\ WF_vars(part = "photos" /\ HolderNext)
    /\ WF_vars(part = "photos" /\ ReceiptNext)
    /\ SF_vars(part = "photos" /\ recover_photo_cleanup)
    /\ WF_releaseVars(part = "release" /\ Updates!LauncherNext)
    /\ WF_releaseVars(part = "release" /\ Updates!CommandNext)
    /\ WF_releaseVars(part = "release" /\ Updates!HealthTimeout)

MCSpec == MCInit /\ [][MCNext]_<<part, vars, releaseVars>> /\ MCFairness

\* KioskRelease.
Recovers == part = "release" => Updates!Recovers
=============================================================================

---------------------------- MODULE MCKioskFleet ----------------------------
(***************************************************************************)
(* Kiosks as the portal has to do with them: the updates of one, which of  *)
(* two a request speaks for, and which changes of the roster an old one    *)
(* asks for.  The three share no state: a behaviour is about one of them   *)
(* and the others stay in their initial state.                             *)
(***************************************************************************)
EXTENDS KioskRelease

CONSTANTS Kiosks, Names, Unknown, Far, MaxRequests, MaxCredential,
          MaxNow, Slots, Remembered, MaxTime, MaxToken, MaxSequence

VARIABLES part,
          kiosks, now, issued, name, calls, holder, heard,
          clock, rosterSequence, cursors, lastSync, held, waiting, requests

identityVars == <<kiosks, now, issued, name, calls, holder, heard>>
rosterVars == <<clock, rosterSequence, cursors, lastSync, held, waiting, requests>>

Identity == INSTANCE KioskIdentity
              WITH MaxTime <- MaxNow, requests <- calls

Roster == INSTANCE LegacyRoster WITH since <- lastSync

ASSUME ReleaseHolds == ReleaseAssumption
ASSUME IdentityAssumption == Identity!KioskIdentityAssumption
ASSUME RosterAssumption == Roster!LegacyRosterAssumption

\* The last update brings a good release.  One of the devices has the first name.
MCInit ==
    /\ part \in {"release", "identity", "roster"}
    /\ Init
    /\ IF part = "release" THEN NumUpdates \in good ELSE good = {0}
    /\ Identity!Init
    /\ name[CHOOSE k \in Kiosks : TRUE] = CHOOSE n \in Names : TRUE
    /\ part # "identity" => /\ kiosks = <<>>
                            /\ name = [k \in Kiosks |-> CHOOSE n \in Names : TRUE]
    /\ Roster!Init
    /\ part # "roster" => lastSync = 0

MCNext ==
    /\ UNCHANGED part
    /\ \/ /\ part = "release"
          /\ Next
          /\ UNCHANGED <<identityVars, rosterVars>>
       \/ /\ part = "identity"
          /\ Identity!Next
          /\ UNCHANGED <<vars, rosterVars>>
       \/ /\ part = "roster"
          /\ Roster!Next
          /\ UNCHANGED <<vars, identityVars>>

MCSpec == MCInit /\ [][MCNext]_<<part, vars, identityVars, rosterVars>>

\* KioskIdentity.
AdmittedIsOwner == Identity!AdmittedIsOwner
QueueIsHonest == Identity!QueueIsHonest

\* LegacyRoster.
NothingSkipped == part = "roster" => Roster!NothingSkipped
=============================================================================

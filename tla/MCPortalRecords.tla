-------------------------- MODULE MCPortalRecords --------------------------
(***************************************************************************)
(* The portal's records: the founder's account and one to be created, with *)
(* one password change at a time; the attempts at one account with two     *)
(* changes at a time; two supervisors who close out one shift; the photos  *)
(* of enrollments; the alerts of new people and of kiosks; and corrections *)
(* of attendance.  They share no state with each other, so a behaviour is  *)
(* about one of them and the others stay in their initial states.          *)
(***************************************************************************)
EXTENDS PortalMembers, TLC

CONSTANTS Callers, MaxAttempts, MaxClock, MaxRotations, MaxRights,
          Actors, Evidence, MaxActions, MaxCopies,
          Enrollers, Workers, MaxPhotos, MaxHour,
          MaxEvents, Runs, RunLimit, MaxFailures,
          Kiosks, MaxRefusals, MaxDeaths,
          Punches, MaxRequests, MaxChanges

VARIABLES part,
          clock, stored, bucket, caller, wrong, right,
          blockers, closeout, receipts, decided, intent, page, tab,
          wire, applied, vouched, doubtful,
          hour, files, uploads, pending, expiries, attached, storing, request,
          strayed,
          event, run, failures,
          active, silence, fault, row, check, told, unrecorded, refusals,
          deaths,
          evidence, asked, wanted, corrections, reversals, effects

attemptVars == <<clock, stored, bucket, caller, wrong, right>>
closeoutVars == <<blockers, closeout, receipts, decided, intent, page,
                  tab, wire, applied, vouched, doubtful>>
photoVars == <<hour, files, uploads, pending, expiries, attached, storing,
               request, strayed>>
peopleVars == <<event, run, failures>>
kioskVars == <<active, silence, fault, row, check, told, unrecorded, refusals,
               deaths>>
correctionVars == <<evidence, asked, wanted, corrections, reversals, effects>>

Attempts == INSTANCE PasswordAttempts WITH MaxTime <- MaxClock
Closeout == INSTANCE ShiftCloseout
                WITH MaxRevision <- MaxActions, MaxRequests <- MaxActions
Photos == INSTANCE EnrollmentPhotos WITH Users <- Enrollers, MaxTime <- MaxHour
People == INSTANCE PeopleAlerts
Alerts == INSTANCE KioskAlerts
Corrections == INSTANCE AttendanceCorrections WITH Events <- Punches

ASSUME RecordsAssumption ==
    /\ {MaxAttempts, MaxPhotos, MaxActions, MaxRequests} \subseteq Nat
    /\ IsFiniteSet(Callers)
    /\ Enrollers # {} /\ Workers # {}

MCInit ==
    /\ part \in {"accounts", "attempts", "closeout", "photos", "people",
                 "alerts", "corrections"}
    /\ Init
    /\ Attempts!Init
    /\ Closeout!Init
    /\ part # "closeout" => blockers = Closeout!Clear
    /\ Photos!Init
    /\ part # "photos" => attached = [w \in Workers |-> {Photos!LegacyPhoto}]
    /\ People!Init
    /\ Alerts!Init
    /\ Corrections!Init

MCNext ==
    /\ UNCHANGED part
    /\ \/ part = "accounts" /\ Next
       \/ part # "accounts" /\ UNCHANGED vars
    /\ \/ part = "attempts" /\ Attempts!Next
       \/ part # "attempts" /\ UNCHANGED attemptVars
    /\ \/ part = "closeout" /\ Closeout!Next
       \/ part # "closeout" /\ UNCHANGED closeoutVars
    /\ \/ part = "photos" /\ Photos!Next
       \/ part # "photos" /\ UNCHANGED photoVars
    /\ \/ part = "people" /\ People!Next
       \/ part # "people" /\ UNCHANGED peopleVars
    /\ \/ part = "alerts" /\ Alerts!Next
       \/ part # "alerts" /\ UNCHANGED kioskVars
    /\ \/ part = "corrections" /\ Corrections!Next
       \/ part # "corrections" /\ UNCHANGED correctionVars

MCSpec ==
    MCInit /\ [][MCNext]_<<part, vars, attemptVars, closeoutVars, photoVars,
                           peopleVars, kioskVars, correctionVars>>

\* The supervisors of a closeout are alike.
Symmetry == Permutations(Actors)

\* PasswordAttempts.
AttemptsBounded == Attempts!AttemptsBounded

\* ShiftCloseout.
RejectedNotApplied == Closeout!RejectedNotApplied
SignedForSeenBlockers == Closeout!SignedForSeenBlockers

\* EnrollmentPhotos.
PhotosAreAccountedFor == Photos!PhotosAreAccountedFor

\* PeopleAlerts.
ClaimsExclude == People!ClaimsExclude

\* KioskAlerts.
ToldIsRecorded == Alerts!ToldIsRecorded

\* AttendanceCorrections.
VoidsAreSingle == Corrections!VoidsAreSingle
=============================================================================

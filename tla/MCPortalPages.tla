---------------------------- MODULE MCPortalPages ----------------------------
(***************************************************************************)
(* What a supervisor has open in the portal: the dashboard; a day of the   *)
(* exceptions page; the log with the corrections entered there; the        *)
(* enrollment of a worker; or the kiosks page, with the health that the    *)
(* portal keeps.  The five share no state: a behaviour is about one of     *)
(* them and the others stay in their initial states.                       *)
(***************************************************************************)
EXTENDS ExceptionsPage, Sequences

CONSTANTS SentinelItems, MaxDay, MaxAnswers, MaxShows,
          Dates, Reasons, MaxIds, MaxDialogs, MaxCopies, MaxVisits, MaxOthers,
          MaxSignOuts,
          Workers, Recruits, Nobody, ConsentLife, Required, MaxTime, MaxConsents,
          MaxEdits,
          HealthDates, HealthToday, HealthTTL, MaxEntries, MaxMinutes, MaxCommits,
          MaxHealthReads, MaxRefreshes, MaxCalls

VARIABLES part,
          \* the dashboard
          today, answers, turns, hidden, shows, batch, page, seen, baseline,
          standing,
          \* the log
          shownDate, dialog, dialogs, visit, checks, pending, stored, ids,
          posted, known, copies, corrections, taken, others, signedIn,
          signOuts,
          \* the enrollment
          hour, identity, faces, edits, allowed, step, target, revision,
          loading, consent, consents, opening, stream, photos, submitted,
          submissions, enrolled,
          \* the kiosks
          minute, commits, settled, live, calls, cache, generation, readSequence,
          readings, newest, requested, lookup, desk, told, cleared

dashboardVars == <<today, answers, turns, hidden, shows, batch, page, seen,
                   baseline, standing>>
logVars == <<shownDate, dialog, dialogs, visit, checks, pending, stored, ids,
             posted, known, copies, corrections, taken, others, signedIn,
             signOuts>>
enrollVars == <<hour, identity, faces, edits, allowed, step, target, revision,
                loading, consent, consents, opening, stream, photos, submitted,
                submissions, enrolled>>
fleetVars == <<minute, commits, settled, live, calls, cache, generation,
               readSequence, readings, newest, requested, lookup, desk, told,
               cleared>>

\* What the portal answers: one kiosk falls behind and one goes down; the
\* briefing may be unavailable; an exception that concerns someone's attendance
\* and a departure without a clock-out may be open, which block the closeout.
MCServed ==
    [s \in {"stats", "workers", "attendance", "system-health", "shift-briefing",
            "shift-exceptions", "shift-closeout"} |->
        CASE s = "stats" -> <<1>>
          [] s = "workers" -> <<[w \in {"w"} |-> "valid"]>>
          [] s = "attendance" -> <<{"w"}>>
          [] s = "system-health" ->
                LET slow == [text |-> "latency", critical |-> FALSE, face |-> TRUE]
                    down == [text |-> "down", critical |-> TRUE, face |-> FALSE]
                IN <<<<>>, <<slow, down>>, <<down>>>>
          [] s = "shift-briefing" -> <<[unavailable |-> FALSE],
                                       [unavailable |-> TRUE]>>
          [] s = "shift-exceptions" ->
                <<[unavailable |-> FALSE, open |-> {}],
                  [unavailable |-> FALSE,
                   open |-> {[key |-> "late", type |-> "late_arrival",
                              critical |-> TRUE],
                             [key |-> "out", type |-> "missing_clock_out",
                              critical |-> FALSE]}]>>
          [] s = "shift-closeout" ->
                <<[unavailable |-> FALSE, completed |-> FALSE, blockers |-> <<>>],
                  [unavailable |-> FALSE, completed |-> FALSE,
                   blockers |-> <<[label |-> "out", page |-> "exceptions",
                                   exact |-> TRUE, correct |-> TRUE,
                                   dated |-> TRUE]>>]>>]

Home == INSTANCE Dashboard
            WITH Served <- MCServed, MaxChanges <- MaxAnswers,
                 Slow <- {"shift-exceptions"}, MayFail <- {"system-health"},
                 day <- today, changes <- turns
Log == INSTANCE DirectCorrections
            WITH date <- shownDate, applied <- corrections
Enroll == INSTANCE EnrollPage
Fleet == INSTANCE FleetHealth

ASSUME DashboardAssumption == Home!DashboardAssumption
ASSUME LogAssumption == Log!DirectCorrectionsAssumption
ASSUME EnrollAssumption == Enroll!EnrollPageAssumption
ASSUME FleetAssumption == Fleet!FleetHealthAssumption

MCInit ==
    /\ part \in {"dashboard", "exceptions", "corrections", "enrollment", "fleet"}
    /\ Home!Init
    /\ Init
    /\ part # "exceptions" => url = {}
    /\ Log!Init
    /\ part # "corrections" => shownDate = 1
    /\ Enroll!Init
    /\ Fleet!Init

\* The bounds are not all exhausted at once.
MCNext ==
    /\ UNCHANGED part
    /\ \/ /\ part = "dashboard"
          /\ Home!Next
          /\ UNCHANGED <<vars, logVars, enrollVars, fleetVars>>
       \/ /\ part = "exceptions"
          /\ Next
          /\ reading' + requests' <= MaxReads + 1
          /\ UNCHANGED <<dashboardVars, logVars, enrollVars, fleetVars>>
       \/ /\ part = "corrections"
          /\ Log!Next
          /\ dialogs' + signOuts' <= MaxDialogs
          /\ UNCHANGED <<vars, dashboardVars, enrollVars, fleetVars>>
       \/ /\ part = "enrollment"
          /\ Enroll!Next
          /\ 2 * consents' + edits' + hour' <= MaxTime + 3
          /\ UNCHANGED <<vars, dashboardVars, logVars, fleetVars>>
       \/ /\ part = "fleet"
          /\ Fleet!Next
          /\ LET begun == {i \in 1..MaxCalls : calls'[i].stage # "none"}
                 asked == readSequence' + desk'.refreshes + minute'
             IN \A i \in begun \cup {0} :
                   asked + commits' + i <= IF asked = 0 THEN 4 ELSE 3
          /\ UNCHANGED <<vars, dashboardVars, logVars, enrollVars>>

pageVars == <<part, vars, dashboardVars, logVars, enrollVars, fleetVars>>
MCSpec == MCInit /\ [][MCNext]_pageVars

\* Dashboard, the exceptions and the health that is kept: no reading gives way to
\* an older one.
ReadingsMoveOn == Home!NewestStays /\ ShownIsLatest /\ Fleet!OrderKept
\* Nothing that needs a supervisor is out of sight: a page is not clear without
\* knowing it, nothing counts as seen that was not, and no change that was answered
\* and no credential that could not be shown is missing.
NothingHidden ==
    /\ Home!NoFalseClear /\ Home!SeenStillStands
    /\ part = "fleet" /\ Fleet!Init => Fleet!VerdictsAgree
    /\ Fleet!SettledIsServed /\ Fleet!PageIsCurrent /\ Fleet!SecretAccountedFor

\* The exceptions and the log: a correction is applied to the evidence that it was
\* decided on, and no second one is sent while the outcome of one is unknown.
CorrectionsAsMeant == AppliedAsSeen /\ Log!OneUnconfirmed

\* EnrollPage: whose face is stored had agreed to it, an enrollment is done only if
\* it was saved, and never goes over an edit made meanwhile.
EnrolledAsAgreed ==
    Enroll!FaceOfConsented /\ Enroll!DoneIsSaved /\ Enroll!EnrolledAsSeen
=============================================================================

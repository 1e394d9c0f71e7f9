------------------------------ MODULE MCProgress ------------------------------
(***************************************************************************)
(* The loops that have to get somewhere: the upload of attendance, with    *)
(* its ledger; the roster that forgets a purged worker; the alerts of new  *)
(* people; and the dashboard's polls.  The four share no state, so a       *)
(* behaviour is about one of them and the others stay in their initial     *)
(* states.  The upload comes with pages that hold the whole queue, whose   *)
(* batches are bisected, and with pages of one scan, where the queue goes  *)
(* on behind the page.                                                     *)
(***************************************************************************)
EXTENDS AttendanceUpload

CONSTANTS NumWorkers, MaxSequence, MaxReceipts,
          r1, r2, MaxEvents, RunLimit, MaxFailures,
          SentinelItems, MaxDay, MaxShows

VARIABLES part,
          \* the roster
          created, rosterSequence, active, faceEncoding, counter,
          lastPurgeSequence, purgedAt, rosterAppliedSequence, pendingReceipt,
          pendingSequence, lastRosterReceiptId, rosterPhase, roster,
          templates, cache, hasApplied, storedReceipt, acks, lateRequest,
          \* alerts of new people
          event, run, failures,
          \* the dashboard
          day, answers, changes, hidden, shows, batch, page, seen, baseline,
          standing

rosterVars == <<created, rosterSequence, active, faceEncoding, counter,
                lastPurgeSequence, purgedAt, rosterAppliedSequence,
                pendingReceipt, pendingSequence, lastRosterReceiptId,
                rosterPhase, roster, templates, cache, hasApplied,
                storedReceipt, acks, lateRequest>>
peopleVars == <<event, run, failures>>
dashboardVars == <<day, answers, changes, hidden, shows, batch, page, seen,
                   baseline, standing>>

Single == INSTANCE AttendanceUpload WITH PageSize <- 1

Roster == INSTANCE RosterReceipts WITH phase <- rosterPhase, reply <- roster
People == INSTANCE PeopleAlerts WITH Runs <- {r1, r2}

\* Every signal answers one thing; the exceptions come late and the health of
\* the kiosks may not come at all.
MCServed ==
    [s \in {"stats", "workers", "attendance", "system-health", "shift-briefing",
            "shift-exceptions", "shift-closeout"} |->
        CASE s = "stats" -> <<1>>
          [] s = "workers" -> <<[w \in {"w"} |-> "valid"]>>
          [] s = "attendance" -> <<{"w"}>>
          [] s = "system-health" -> <<<<>>>>
          [] s = "shift-briefing" -> <<[unavailable |-> FALSE]>>
          [] s = "shift-exceptions" -> <<[unavailable |-> FALSE, open |-> {}]>>
          [] s = "shift-closeout" -> <<[unavailable |-> FALSE, completed |-> FALSE,
                                        blockers |-> <<>>]>>]
Home == INSTANCE Dashboard
            WITH Served <- MCServed, MaxChanges <- 0,
                 Slow <- {"shift-exceptions"}, MayFail <- {"system-health"}

ASSUME Home!DashboardAssumption

MCInit ==
    /\ part \in {"upload", "single", "roster", "people", "dashboard"}
    /\ Init
    /\ Roster!Init
    /\ IF part = "roster"
       THEN /\ hasApplied
            /\ templates = [i \in Roster!Ids |->
                               IF i <= created THEN 0 ELSE Roster!None]
       ELSE /\ created = 0
            /\ ~hasApplied
            /\ templates = [i \in Roster!Ids |-> Roster!None]
    /\ People!Init
    /\ Home!Init

MCNext ==
    /\ UNCHANGED part
    /\ \/ /\ part = "upload"
          /\ Next
          /\ UNCHANGED <<rosterVars, peopleVars, dashboardVars>>
       \/ /\ part = "single"
          /\ Single!Next
          /\ UNCHANGED <<rosterVars, peopleVars, dashboardVars>>
       \/ /\ part = "roster"
          /\ Roster!Next
          /\ UNCHANGED <<vars, peopleVars, dashboardVars>>
       \/ /\ part = "people"
          /\ People!Next
          /\ UNCHANGED <<vars, rosterVars, dashboardVars>>
       \/ /\ part = "dashboard"
          /\ Home!Next
          /\ UNCHANGED <<vars, rosterVars, peopleVars>>

\* The fairness each part states for itself.
MCFairness ==
    /\ WF_vars(\/ part = "upload" /\ SyncNext
               \/ part = "single" /\ Single!SyncNext)
    /\ WF_vars(part \in {"upload", "single"} /\ ServeBatch)
    /\ WF_rosterVars(part = "roster" /\ Roster!ServerNext)
    /\ WF_rosterVars(part = "roster" /\ Roster!KioskNext)
    /\ WF_rosterVars(part = "roster" /\ Roster!AckTimeout)
    /\ \A id \in Roster!Receipts :
          WF_rosterVars(part = "roster" /\ Roster!LoseAck(id))
    /\ WF_peopleVars(part = "people" /\ People!Tick)
    /\ \A r \in {r1, r2} :
          /\ WF_peopleVars(part = "people" /\ People!StartRun(r))
          /\ WF_peopleVars(part = "people" /\ People!Deliver(r))
    /\ WF_dashboardVars(part = "dashboard" /\ Home!Poll)
    /\ WF_dashboardVars(/\ part = "dashboard"
                        /\ \E b \in batch : b.active /\ Home!Answer(b))
    /\ WF_dashboardVars(part = "dashboard" /\ \E b \in batch : Home!Settle(b))

MCSpec ==
    /\ MCInit
    /\ [][MCNext]_<<part, vars, rosterVars, peopleVars,
                dashboardVars>>
    /\ MCFairness

\* RosterReceipts.
PurgeEventuallyCertified == Roster!PurgeEventuallyCertified

\* PeopleAlerts.
EveryoneAnnounced == People!EveryoneAnnounced

\* Dashboard.
EventuallyToday == part = "dashboard" => Home!EventuallyToday
=============================================================================

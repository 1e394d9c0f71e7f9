---------------------------- MODULE PeopleAlerts ----------------------------
(***************************************************************************)
(* Alerts of new workers and new portal accounts.                          *)
(*                                                                         *)
(* The transaction that adds a person inserts an event and schedules a     *)
(* run; a cron starts further ones.  A run claims one event at a time,     *)
(* sends it outside of any transaction and records the outcome; it may die *)
(* anywhere and runs overlap.  Events are named in the order of insertion. *)
(*                                                                         *)
(* Time is counted in CLAIM_MS, which equals RETRY_DELAY_MS: claimedUntil  *)
(* is held as the ticks that remain, 0 when the event may be claimed.  An  *)
(* event is accepted when one of the two channels accepts it.  A channel   *)
(* that refuses and a run that dies are failures, bounded by MaxFailures.  *)
(***************************************************************************)
EXTENDS Integers, FiniteSets

CONSTANTS
    MaxEvents,
    Runs,             \* deliverPending under way at a time
    RunLimit,         \* attempts of one run
    MaxFailures

VARIABLES
    event,            \* peopleAlertEvents
    run,              \* where each run stands, and its attemptedIds
    failures

vars == <<event, run, failures>>

Events == 1..MaxEvents
NoEvent == 0
IdleRun == [pc |-> "idle", attempted |-> {}, event |-> NoEvent, lease |-> 0]

Init ==
    /\ event = [e \in Events |-> [state |-> "none", claim |-> 0]]
    /\ run = [r \in Runs |-> IdleRun]
    /\ failures = 0

InsertEvent(e) ==
    /\ event[e].state = "none"
    /\ \A d \in 1..(e - 1) : event[d].state # "none"
    /\ event' = [event EXCEPT ![e].state = "pending"]
    /\ UNCHANGED <<run, failures>>

\* By the cron, or scheduled with an event.
StartRun(r) ==
    /\ run[r].pc = "idle"
    /\ run' = [run EXCEPT ![r].pc = "claiming"]
    /\ UNCHANGED <<event, failures>>

Eligible == {e \in Events : event[e].state = "pending" /\ event[e].claim = 0}

\* The first candidates of the index, one more than the run has tried.  The
\* index orders by claimedUntil and then by insertion, the model by insertion.
Candidates(r) ==
    {e \in Eligible :
        Cardinality({d \in Eligible : d < e}) <= Cardinality(run[r].attempted)}

claimPending(r, e) ==
    /\ run[r].pc = "claiming"
    /\ Cardinality(run[r].attempted) < RunLimit
    /\ e \in Candidates(r) \ run[r].attempted
    /\ event' = [event EXCEPT ![e].claim = 1]
    /\ run' = [run EXCEPT ![r] =
            [pc |-> "sending", attempted |-> @.attempted \cup {e}, event |-> e,
             lease |-> 1]]
    /\ UNCHANGED failures

EndRun(r) ==
    /\ run[r].pc = "claiming"
    /\ \/ Cardinality(run[r].attempted) = RunLimit
       \/ Candidates(r) \subseteq run[r].attempted
    /\ run' = [run EXCEPT ![r] = IdleRun]
    /\ UNCHANGED <<event, failures>>

Send(r) ==
    /\ run[r].pc = "sending"
    /\ \/ /\ run' = [run EXCEPT ![r].pc = "accepted"]
          /\ UNCHANGED failures
       \/ /\ failures < MaxFailures
          /\ failures' = failures + 1
          /\ run' = [run EXCEPT ![r].pc = "refused"]
    /\ UNCHANGED event

\* A slip: a refused event is released for the next run at once.
RetryAtOnce == 0

RetryDelay == 1

finishDelivery(r) ==
    /\ run[r].pc \in {"accepted", "refused"}
    /\ event' = IF event[run[r].event].state = "delivered" THEN event
                ELSE [event EXCEPT ![run[r].event] =
                        IF run[r].pc = "accepted"
                        THEN [state |-> "delivered", claim |-> 0]
                        ELSE [state |-> "pending", claim |-> RetryDelay]]
    /\ run' = [run EXCEPT ![r] =
            [pc |-> "claiming", attempted |-> @.attempted, event |-> NoEvent,
             lease |-> 0]]
    /\ UNCHANGED failures

RunDies(r) ==
    /\ run[r].pc # "idle"
    /\ failures < MaxFailures
    /\ failures' = failures + 1
    /\ run' = [run EXCEPT ![r] = IdleRun]
    /\ UNCHANGED event

\* A slip: the claim of an event outlives the run that died with it.
AgedWhenRefused ==
    [e \in Events |-> IF \E r \in Runs : run[r].event = e \/ run[r].pc = "idle"
                      THEN event[e] ELSE [event[e] EXCEPT !.claim = 0]]

Aged == [e \in Events |-> [event[e] EXCEPT !.claim = 0]]

Tick ==
    /\ event' = Aged
    /\ run' = [r \in Runs |-> [run[r] EXCEPT !.lease = 0]]
    /\ UNCHANGED failures

-----------------------------------------------------------------------------
Deliver(r) ==
    \/ StartRun(r)
    \/ \E e \in Events : claimPending(r, e)
    \/ EndRun(r)
    \/ Send(r)
    \/ finishDelivery(r)

Next ==
    \/ \E e \in Events : InsertEvent(e)
    \/ \E r \in Runs : Deliver(r) \/ RunDies(r)
    \/ Tick

\* Time passes, the cron starts runs, and a run that lives goes on.
Fairness ==
    /\ WF_vars(Tick)
    /\ \A r \in Runs : WF_vars(StartRun(r)) /\ WF_vars(Deliver(r))

Spec == Init /\ [][Next]_vars /\ Fairness

-----------------------------------------------------------------------------
\* Two runs have the same event in hand only when the claim of one has lapsed,
\* also after a late run has put off an event that another had claimed.
ClaimsExclude ==
    \A r, q \in Runs :
        r # q /\ run[r].event = run[q].event /\ run[r].event # NoEvent =>
            run[r].lease = 0 \/ run[q].lease = 0

\* Every person added is announced in the end, though channels refuse and runs
\* die.
EveryoneAnnounced ==
    \A e \in Events : event[e].state = "pending" ~> event[e].state = "delivered"
=============================================================================

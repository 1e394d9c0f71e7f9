-------------------------- MODULE AttendanceUpload --------------------------
(***************************************************************************)
(* The kiosk's attendance queue and its upload to the portal.              *)
(*                                                                         *)
(* A sync cycle makes two passes over the queue in id order, first the     *)
(* scans recorded under the kiosk's present id, then those recorded under  *)
(* a former one, each with its own persisted cursor.  A page is split into *)
(* one batch per claimed kiosk id.  The server books a batch in one        *)
(* transaction or refuses all of it.  A refused batch is halved until the  *)
(* refused scan stands alone and is quarantined; a batch whose claim the   *)
(* credential does not cover is quarantined scan by scan.  Every other     *)
(* outcome ends the cycle with the batch still queued and the cursor where *)
(* it was.                                                                 *)
(*                                                                         *)
(* Requests and answers may be lost or late, the kiosk may crash anywhere, *)
(* scans are recorded at any time and a supervisor may release quarantined *)
(* ones at any time.                                                       *)
(***************************************************************************)
EXTENDS Integers, Sequences, FiniteSets

CONSTANTS
    NumLogs,          \* scans ever recorded
    PageSize,         \* ATTENDANCE_BATCH_SIZE
    PagesPerCycle,    \* ATTENDANCE_PAGES_PER_CYCLE, for each pass
    RequestBudget,    \* ATTENDANCE_REQUESTS_PER_CYCLE
    MaxLate           \* timed out requests still on their way

ASSUME ConstantsAssumption ==
    /\ NumLogs \in Nat
    /\ PageSize \in Nat \ {0}
    /\ PagesPerCycle \in Nat \ {0}
    /\ RequestBudget \in Nat
    /\ MaxLate \in Nat

Logs == 1..NumLogs
Batches == SUBSET Logs

\* The present kiosk id, a former one the credential still covers, and one
\* it does not cover.
Claims == {"own", "alias", "foreign"}
Passes == {"current", "historical"}

VARIABLES
    \* attendance_log and attendance_rejections
    recorded,       \* rows 1..recorded exist
    claim,
    valid,          \* the server's validation accepts the row
    mapped,         \* the row resolves to a server worker id
    synced,
    quarantined,    \* an unreleased rejection exists
    scanAfter,      \* sync_state cursors; 0 when absent
    \* the sync thread
    pass,
    cursor,
    pagesLeft,
    pageEnd,        \* 0 between two pages
    groups,         \* batches of the page still to be sent, in order
    budget,
    \* request and answer
    sent,           \* {} when no request is under way
    answer,
    late,           \* batches the server may still book
    \* attendance rows on the server
    copies

rowVars == <<recorded, claim, valid, mapped>>
cycleVars == <<pass, cursor, pagesLeft, pageEnd, groups, budget>>
netVars == <<sent, answer, late>>
vars == <<rowVars, synced, quarantined, scanAfter, cycleVars, netVars, copies>>

Rows == 1..recorded
Queued == {log \in Rows : ~synced[log] /\ ~quarantined[log]}

Init ==
    /\ recorded = 0
    /\ claim = [log \in Logs |-> "own"]
    /\ valid = [log \in Logs |-> TRUE]
    /\ mapped = [log \in Logs |-> TRUE]
    /\ synced = [log \in Logs |-> FALSE]
    /\ quarantined = [log \in Logs |-> FALSE]
    /\ scanAfter = [p \in Passes |-> 0]
    /\ pass = "idle"
    /\ cursor = 0
    /\ pagesLeft = 0
    /\ pageEnd = 0
    /\ groups = <<>>
    /\ budget = 0
    /\ sent = {}
    /\ answer = "none"
    /\ late = {}
    /\ copies = [log \in Logs |-> 0]

-----------------------------------------------------------------------------
(* Scans, roster updates and supervisors, at any time.                     *)

Record(log, c, isValid, isMapped) ==
    /\ log = recorded + 1
    /\ recorded' = log
    /\ claim' = [claim EXCEPT ![log] = c]
    /\ valid' = [valid EXCEPT ![log] = isValid]
    /\ mapped' = [mapped EXCEPT ![log] = isMapped]
    /\ UNCHANGED <<synced, quarantined, scanAfter, cycleVars, netVars, copies>>

\* A scan of a local profile becomes uploadable when the roster maps it.
MapWorker(log) ==
    /\ log \in Rows
    /\ ~mapped[log]
    /\ mapped' = [mapped EXCEPT ![log] = TRUE]
    /\ UNCHANGED <<recorded, claim, valid, synced, quarantined, scanAfter,
                   cycleVars, netVars, copies>>

\* The supervisor may have repaired the row before its release.
retry_attendance_rejection(log, repaired) ==
    /\ quarantined[log]
    /\ quarantined' = [quarantined EXCEPT ![log] = FALSE]
    /\ valid' = [valid EXCEPT ![log] = @ \/ repaired]
    /\ scanAfter' = [p \in Passes |-> 0]
    /\ UNCHANGED <<recorded, claim, mapped, synced, cycleVars, netVars, copies>>

-----------------------------------------------------------------------------
(* The passes and their pages.                                             *)

BeginPass(p) ==
    /\ pass' = p
    /\ cursor' = scanAfter[p]
    /\ pagesLeft' = PagesPerCycle
    /\ pageEnd' = 0
    /\ groups' = <<>>

StartCycle ==
    /\ pass = "idle"
    /\ BeginPass("current")
    /\ budget' = RequestBudget
    /\ UNCHANGED <<rowVars, synced, quarantined, scanAfter, netVars, copies>>

\* get_unsynced_logs: the first PageSize queued rows of the pass.
Candidates == {log \in Queued : /\ log > cursor
                                /\ (claim[log] = "own") = (pass = "current")}
Page == {log \in Candidates :
            Cardinality({other \in Candidates : other <= log}) <= PageSize}

Uploadable(page) == {log \in page : mapped[log]}

\* One batch for each claim, in the order in which the page first shows them.
claim_groups(page) ==
    LET Claiming(c) == {log \in page : claim[log] = c}
        Precedes(c, d) == \E log \in Claiming(c) : \A other \in Claiming(d) : log < other
    IN  {[n \in DOMAIN order |-> Uploadable(Claiming(order[n]))] :
            order \in {o \in UNION {[1..n -> Claims] : n \in 1..PageSize} :
                /\ \A m, n \in DOMAIN o : m < n => Precedes(o[m], o[n])
                /\ page \subseteq UNION {Claiming(o[n]) : n \in DOMAIN o}
                /\ \A n \in DOMAIN o : Claiming(o[n]) # {}}}

AtPage == pass # "idle" /\ groups = <<>> /\ sent = {}

ReadPage ==
    /\ AtPage
    /\ pageEnd = 0
    /\ pagesLeft > 0
    /\ Candidates # {}
    /\ groups' \in claim_groups(Page)
    /\ \E last \in Page : (\A log \in Page : log <= last) /\ pageEnd' = last
    /\ pagesLeft' = pagesLeft - 1
    /\ UNCHANGED <<rowVars, synced, quarantined, scanAfter, pass, cursor, budget,
                   netVars, copies>>

\* A slip: the persisted cursor stays where it was.
KeepCursor == UNCHANGED scanAfter

StoreCursor == scanAfter' = [scanAfter EXCEPT ![pass] = pageEnd]

FinishPage ==
    /\ AtPage
    /\ pageEnd # 0
    /\ cursor' = pageEnd
    /\ StoreCursor
    /\ pageEnd' = 0
    /\ UNCHANGED <<rowVars, synced, quarantined, pass, pagesLeft, groups, budget,
                   netVars, copies>>

RewindCursor == scanAfter' = [scanAfter EXCEPT ![pass] = 0]

\* Either the queue has no further rows, which rewinds the cursor for the
\* next cycle, or this pass has read its pages.
EndPass ==
    /\ AtPage
    /\ pageEnd = 0
    /\ \/ pagesLeft > 0 /\ Candidates = {} /\ RewindCursor
       \/ pagesLeft = 0 /\ UNCHANGED scanAfter
    /\ \/ pass = "current" /\ BeginPass("historical")
       \/ pass = "historical" /\ pass' = "idle"
          /\ UNCHANGED <<cursor, pagesLeft, pageEnd, groups>>
    /\ UNCHANGED <<rowVars, synced, quarantined, budget, netVars, copies>>

-----------------------------------------------------------------------------
(* One request.                                                            *)

\* The cycle ends where it is.
Abandon ==
    /\ pass' = "idle"
    /\ groups' = <<>>
    /\ pageEnd' = 0
    /\ sent' = {}
    /\ answer' = "none"
    /\ UNCHANGED <<cursor, pagesLeft, budget>>

\* A group of orphans only is not sent.
SkipGroup ==
    /\ groups # <<>>
    /\ sent = {}
    /\ Head(groups) = {}
    /\ groups' = Tail(groups)
    /\ UNCHANGED <<rowVars, synced, quarantined, scanAfter, pass, cursor, pagesLeft,
                   pageEnd, budget, netVars, copies>>

\* A slip: the last request is not counted.
MayRequestOnceMore == budget >= 0

MayRequest == budget > 0

upload_attendance ==
    /\ groups # <<>>
    /\ sent = {}
    /\ Head(groups) # {}
    /\ MayRequest
    /\ budget' = budget - 1
    /\ sent' = Head(groups)
    /\ groups' = Tail(groups)
    /\ UNCHANGED <<rowVars, synced, quarantined, scanAfter, pass, cursor, pagesLeft,
                   pageEnd, answer, late, copies>>

OutOfBudget ==
    /\ groups # <<>>
    /\ sent = {}
    /\ Head(groups) # {}
    /\ ~MayRequest
    /\ Abandon
    /\ UNCHANGED <<rowVars, synced, quarantined, scanAfter, late, copies>>

Acceptable(log) == valid[log] /\ claim[log] # "foreign"

\* The claims are checked first, then every event; one bad event refuses all.
Verdict(batch) ==
    IF \E log \in batch : claim[log] = "foreign" THEN "mismatch"
    ELSE IF \E log \in batch : ~valid[log] THEN "invalid"
    ELSE "ok"

\* A slip: the idempotency key is not looked up.
BookAgain(batch) ==
    copies' = [log \in Logs |-> IF log \in batch THEN copies[log] + 1 ELSE copies[log]]

\* One transaction; a scan that is already booked is found by its key.
bulkCreateFromHttp(batch) ==
    copies' = [log \in Logs |->
        IF log \in batch /\ copies[log] = 0 THEN 1 ELSE copies[log]]

ServeBatch ==
    /\ sent # {}
    /\ answer = "none"
    /\ answer' = Verdict(sent)
    /\ \/ answer' = "ok" /\ bulkCreateFromHttp(sent)
       \/ answer' # "ok" /\ UNCHANGED copies
    /\ UNCHANGED <<rowVars, synced, quarantined, scanAfter, cycleVars, sent, late>>

\* The server gets to a batch the kiosk has given up on.
ServeLate(batch) ==
    /\ batch \in late
    /\ late' = late \ {batch}
    /\ bulkCreateFromHttp(batch)
    /\ UNCHANGED <<rowVars, synced, quarantined, scanAfter, cycleVars, sent, answer>>

\* A refusal of a late batch changes nothing, so only batches that will be
\* booked count; and one may as well be lost.
Delayed ==
    \/ UNCHANGED late
    \/ /\ sent # {} /\ answer = "none" /\ Verdict(sent) = "ok"
       /\ Cardinality(late) < MaxLate
       /\ late' = late \cup {sent}

\* No answer, an incomplete acknowledgement, a server error, a rejected
\* credential, or the cycle's deadline.
GiveUp ==
    /\ groups # <<>> \/ sent # {}
    /\ Abandon
    /\ Delayed
    /\ UNCHANGED <<rowVars, synced, quarantined, scanAfter, copies>>

Crash ==
    /\ pass # "idle"
    /\ Abandon
    /\ Delayed
    /\ UNCHANGED <<rowVars, synced, quarantined, scanAfter, copies>>

-----------------------------------------------------------------------------
(* What the kiosk does with the answer.                                    *)

\* A slip: any answer counts as an acknowledgement.
Answered == answer # "none"

attendance_acknowledged == answer = "ok"

mark_synced ==
    /\ attendance_acknowledged
    /\ synced' = [log \in Logs |-> synced[log] \/ log \in sent]
    /\ sent' = {}
    /\ answer' = "none"
    /\ UNCHANGED <<rowVars, quarantined, scanAfter, cycleVars, late, copies>>

reject_attendance(log) ==
    quarantined' = [quarantined EXCEPT ![log] = TRUE]

\* Each scan of the batch is quarantined in a transaction of its own.
RejectMismatch(log) ==
    /\ answer = "mismatch"
    /\ log \in sent
    /\ \A other \in sent : log <= other
    /\ reject_attendance(log)
    /\ sent' = sent \ {log}
    /\ answer' = IF sent' = {} THEN "none" ELSE answer
    /\ UNCHANGED <<rowVars, synced, scanAfter, cycleVars, late, copies>>

\* A slip: the first scan of a refused batch is quarantined, not isolated.
FirstOfBatch(log) == \A other \in sent : log <= other

Alone(log) == sent = {log}

RejectInvalid(log) ==
    /\ answer = "invalid"
    /\ log \in sent
    /\ Alone(log)
    /\ reject_attendance(log)
    /\ sent' = {}
    /\ answer' = "none"
    /\ UNCHANGED <<rowVars, synced, scanAfter, cycleVars, late, copies>>

FirstHalf(batch) == {log \in batch :
    Cardinality({other \in batch : other < log}) < Cardinality(batch) \div 2}

Bisect ==
    /\ answer = "invalid"
    /\ Cardinality(sent) > 1
    /\ groups' = <<FirstHalf(sent), sent \ FirstHalf(sent)>> \o groups
    /\ sent' = {}
    /\ answer' = "none"
    /\ UNCHANGED <<rowVars, synced, quarantined, scanAfter, pass, cursor, pagesLeft,
                   pageEnd, budget, late, copies>>

-----------------------------------------------------------------------------

WorldNext == \E log \in Logs :
    \/ \E c \in Claims, isValid, isMapped \in BOOLEAN : Record(log, c, isValid, isMapped)
    \/ MapWorker(log)
    \/ \E repaired \in BOOLEAN : retry_attendance_rejection(log, repaired)

SyncNext ==
    \/ StartCycle \/ ReadPage \/ FinishPage \/ EndPass
    \/ SkipGroup \/ upload_attendance \/ OutOfBudget
    \/ mark_synced \/ Bisect
    \/ \E log \in Logs : RejectMismatch(log) \/ RejectInvalid(log)

ServerNext == ServeBatch \/ \E batch \in late : ServeLate(batch)

Fault == GiveUp \/ Crash

Next == WorldNext \/ SyncNext \/ ServerNext \/ Fault

Spec == Init /\ [][Next]_vars

\* The sync thread repeats its cycle and the server answers.
FairSpec == Spec /\ WF_vars(SyncNext) /\ WF_vars(ServeBatch)

-----------------------------------------------------------------------------
(* Properties.                                                             *)

TypeOK ==
    /\ recorded \in 0..NumLogs
    /\ claim \in [Logs -> Claims]
    /\ valid \in [Logs -> BOOLEAN]
    /\ mapped \in [Logs -> BOOLEAN]
    /\ synced \in [Logs -> BOOLEAN]
    /\ quarantined \in [Logs -> BOOLEAN]
    /\ scanAfter \in [Passes -> 0..NumLogs]
    /\ pass \in Passes \cup {"idle"}
    /\ cursor \in 0..NumLogs
    /\ pagesLeft \in 0..PagesPerCycle
    /\ pageEnd \in 0..NumLogs
    /\ groups \in Seq(Batches)
    /\ budget \in 0..RequestBudget
    /\ sent \in Batches
    /\ answer \in {"none", "ok", "mismatch", "invalid"}
    /\ late \subseteq Batches
    /\ copies \in [Logs -> Nat]

\* However often a batch is sent, and however late, the server has each scan
\* at most once.  (convex/attendance.ts insertAttendanceEvent)
BookedOnce == \A log \in Logs : copies[log] <= 1

\* One bad scan, however deep in a batch, never takes a good one with it:
\* a supervisor is shown only scans the server refuses on their own account.
\* (sync.py _upload_attendance)
OnlyRefusedQuarantined ==
    \A log \in Logs : quarantined[log] => ~Acceptable(log)

\* Whatever is lost, late, split or repaired on the way, a scan ends up once on
\* the books or, for what it is itself, before a supervisor.
RightlySettled == BookedOnce /\ OnlyRefusedQuarantined

\* The queue, the server's books and the quarantine are those of the ledger:
\* lost, late and repeated requests, bisection, crashes and releases neither
\* lose a scan nor confirm one the server does not have.
Ledger == INSTANCE AttendanceLedger WITH
    recorded <- Rows,
    queue <- Queued,
    ledger <- {log \in Logs : copies[log] > 0},
    aside <- {log \in Logs : quarantined[log]}

LedgerSpec == Ledger!Spec

\* Steps that cost the cycle its progress.  The end of the last pass looks like
\* a crash there, and the end of the budget like a failed request; neither of
\* them is a disturbance.
Disturbed ==
    \/ Fault /\ ~EndPass /\ ~OutOfBudget
    \/ \E log \in Logs, repaired \in BOOLEAN : retry_attendance_rejection(log, repaired)

\* Nothing is stuck behind the cursors, behind poisoned scans or behind scans
\* of unmapped workers: unless faults or releases go on for ever, every scan
\* of a mapped worker is uploaded or shown to a supervisor.
EventuallySettled ==
    []<><<Disturbed>>_vars \/
    \A log \in Logs :
        (log \in Rows /\ mapped[log]) ~> (synced[log] \/ quarantined[log])
=============================================================================

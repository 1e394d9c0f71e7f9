--------------------------- MODULE RosterReceipts ---------------------------
(***************************************************************************)
(* The roster protocol between the Convex worker table and one kiosk.      *)
(*                                                                         *)
(* Every worker write takes the next roster sequence.  GET /api/sync first *)
(* issues (or reuses) a receipt that records the sequence counter, then    *)
(* reads the roster in pages, each its own transaction, so writes happen   *)
(* between two pages.  The kiosk commits the rows one by one, reloads its  *)
(* recognizer and only then acknowledges the receipt.  A purge of face     *)
(* data is shown as complete on a kiosk once the acknowledged sequence     *)
(* reaches the sequence of the last purge.                                 *)
(*                                                                         *)
(* The network may lose or delay requests, acknowledgements and replies,   *)
(* any step of the kiosk may fail, the kiosk may crash anywhere, and its   *)
(* card may be reimaged.  Worker rows are never deleted by the server.     *)
(***************************************************************************)
EXTENDS Integers, FiniteSets

CONSTANTS
    NumWorkers,    \* worker rows the portal ever creates
    MaxSequence,   \* bound on the roster sequence counter
    MaxReceipts    \* receipt ids that can be in use at once

ASSUME ConstantsAssumption ==
    /\ NumWorkers \in Nat
    /\ MaxSequence \in Nat
    /\ MaxReceipts \in Nat

Workers == 1..NumWorkers        \* in creation order
Unknown == 0                    \* a server id on the kiosk that no row has
Ids == 0..NumWorkers
None == -1                      \* undefined, null or absent
NoReceipt == 0
Receipts == 1..MaxReceipts

\* A face template is named by the sequence at which it was enrolled; 0 is
\* a template enrolled before sequences existed.
Templates == 0..MaxSequence
MaybeTemplate == Templates \cup {None}
MaybeSequence == 0..MaxSequence \cup {None}
NoTemplates == [i \in Ids |-> None]

VARIABLES
    \* workers and rosterSequence tables
    created,               \* rows 1..created exist
    rosterSequence,        \* 0 while a row has no sequence
    active,
    faceEncoding,
    counter,
    lastPurgeSequence,
    purgedAt,              \* history: sequence of each worker's last purge
    \* kiosks row and kioskRosterReceipts
    rosterAppliedSequence,
    pendingReceipt,
    pendingSequence,       \* None on a receipt issued before the migration
    lastRosterReceiptId,
    \* the sync request, its reply and where the kiosk stands in the cycle
    phase,
    reply,
    \* kiosk: SQLite templates, recognizer, sync_state
    templates,
    cache,
    hasApplied,            \* last_roster_applied_at is set
    storedReceipt,         \* roster_pending_receipt
    \* network
    acks,                  \* acknowledgements still on their way
    lateRequest            \* a request the kiosk gave up on may still arrive

rosterVars == <<created, rosterSequence, active, faceEncoding, counter,
                lastPurgeSequence, purgedAt>>
receiptVars == <<rosterAppliedSequence, pendingReceipt, pendingSequence,
                 lastRosterReceiptId>>
localVars == <<templates, cache, hasApplied, storedReceipt>>
netVars == <<acks, lateRequest>>
vars == <<rosterVars, receiptVars, phase, reply, localVars, netVars>>

Reading == {"changed", "legacy", "full"}
Phases == Reading \cup {"idle", "requested", "revoke", "apply", "applied",
                        "failed", "ack", "awaiting", "acked", "recorded"}

Rows == [worker : Workers, template : MaybeTemplate]
Replies == [receipt : Receipts \cup {NoReceipt},
            base : MaybeSequence,       \* None for a full roster
            cursor : 0..MaxSequence \cup Ids,
            rows : SUBSET Rows,         \* still to be handled
            seen : SUBSET Workers,
            duplicate : BOOLEAN]
EmptyReply == [receipt |-> NoReceipt, base |-> None, cursor |-> 0,
               rows |-> {}, seen |-> {}, duplicate |-> FALSE]

\* kiosks.list: the last purge is not covered by an acknowledged receipt.
PurgePending == 
    /\ lastPurgeSequence # None
    /\ \/ rosterAppliedSequence = None
       \/ rosterAppliedSequence < lastPurgeSequence

-----------------------------------------------------------------------------
(* A deployment at the sequence migration: the rows that exist have no     *)
(* sequence, some were purged (the audit log makes that purge sequence 0), *)
(* and the kiosk may hold any old template, also one of an unknown id.     *)

Init ==
    /\ created \in 0..NumWorkers
    /\ rosterSequence = [w \in Workers |-> 0]
    /\ active \in [Workers -> BOOLEAN]
    /\ \A w \in Workers : active[w] => w <= created
    /\ purgedAt \in [Ids -> {None, 0}]
    /\ purgedAt[Unknown] = 0
    /\ \A w \in Workers : purgedAt[w] = 0 => w <= created /\ ~active[w]
    /\ faceEncoding = [w \in Workers |->
            IF w <= created /\ purgedAt[w] = None THEN 0 ELSE None]
    /\ counter = 0
    /\ lastPurgeSequence = IF \E w \in Workers : purgedAt[w] = 0 THEN 0 ELSE None
    /\ rosterAppliedSequence = None
    /\ pendingReceipt \in {NoReceipt} \cup (Receipts \cap {1})
    /\ pendingSequence = None
    /\ lastRosterReceiptId = NoReceipt
    /\ phase = "idle"
    /\ reply = EmptyReply
    /\ templates \in [Ids -> {None, 0}]
    /\ \A w \in Workers : w > created => templates[w] = None
    /\ cache = templates
    /\ hasApplied \in BOOLEAN
    /\ storedReceipt = NoReceipt
    /\ acks = {}
    /\ lateRequest = FALSE

-----------------------------------------------------------------------------
(* Portal writes.  Each is one transaction that takes the next sequence.   *)

writeRosterWorker(w, isActive, template, purge) ==
    /\ counter < MaxSequence
    /\ counter' = counter + 1
    /\ rosterSequence' = [rosterSequence EXCEPT ![w] = counter + 1]
    /\ active' = [active EXCEPT ![w] = isActive]
    /\ faceEncoding' = [faceEncoding EXCEPT ![w] = template]
    /\ lastPurgeSequence' = IF purge THEN counter + 1 ELSE lastPurgeSequence
    /\ purgedAt' = IF purge THEN [purgedAt EXCEPT ![w] = counter + 1] ELSE purgedAt

WorkerWrite == UNCHANGED <<receiptVars, phase, reply, localVars, netVars>>

CreateWorker(w) ==
    /\ w = created + 1
    /\ created' = w
    /\ writeRosterWorker(w, TRUE, counter + 1, FALSE)
    /\ WorkerWrite

RestoreWorker(w) ==
    /\ w <= created
    /\ ~active[w]
    /\ writeRosterWorker(w, TRUE, counter + 1, FALSE)
    /\ UNCHANGED created
    /\ WorkerWrite

\* A rename keeps the template, a re-enrollment replaces it.
UpdateWorker(w) ==
    /\ active[w]
    /\ \E template \in {faceEncoding[w], counter + 1} :
           writeRosterWorker(w, TRUE, template, FALSE)
    /\ UNCHANGED created
    /\ WorkerWrite

RemoveWorker(w) ==
    /\ active[w]
    /\ writeRosterWorker(w, FALSE, faceEncoding[w], FALSE)
    /\ UNCHANGED created
    /\ WorkerWrite

PurgeBiometrics(w) ==
    /\ w <= created
    /\ writeRosterWorker(w, FALSE, None, TRUE)
    /\ UNCHANGED created
    /\ WorkerWrite

\* The migration gives rows without a sequence one each, in index order.  It
\* commits up to 100 rows at a time; here one, the finest interleaving.
BackfillRosterSequences(w) ==
    /\ w <= created
    /\ rosterSequence[w] = 0
    /\ \A v \in 1..(w - 1) : rosterSequence[v] # 0
    /\ writeRosterWorker(w, active[w], faceEncoding[w], FALSE)
    /\ UNCHANGED created
    /\ WorkerWrite

-----------------------------------------------------------------------------
(* GET /api/sync on the server.                                            *)

ReceiptsInUse == {pendingReceipt, lastRosterReceiptId, reply.receipt,
                  storedReceipt} \cup acks

\* Server ids are never reused.  Ids are interchangeable: take the least one
\* that nothing refers to any more.
FreshReceipt(id) ==
    /\ id \notin ReceiptsInUse
    /\ \A other \in Receipts : other < id => other \in ReceiptsInUse

\* A slip: the receipt promises the next write as well.
IssuedSequenceOffByOne == counter + 1

IssuedSequence == counter

issueRosterReceipt ==
    /\ \/ /\ pendingReceipt # NoReceipt
          /\ UNCHANGED <<pendingReceipt, pendingSequence>>
       \/ /\ pendingReceipt = NoReceipt
          /\ \E id \in Receipts : FreshReceipt(id) /\ pendingReceipt' = id
          /\ pendingSequence' = IssuedSequence
    /\ UNCHANGED <<rosterAppliedSequence, lastRosterReceiptId>>

\* A slip: the delta starts at the server's counter, not at what was applied.
SinceCounter == IF rosterAppliedSequence = None THEN None ELSE counter

\* The delta cursor the receipt mutation returns with the receipt.
Since == IF \/ rosterAppliedSequence = None
            \/ pendingReceipt # NoReceipt /\ pendingSequence = None
         THEN None ELSE rosterAppliedSequence

\* The kiosk asks for a full roster until it has recorded an acknowledgement.
ForceFull == ~hasApplied

AnswerIssue ==
    LET base == IF ForceFull THEN None ELSE Since
    IN  /\ phase = "requested"
        /\ issueRosterReceipt
        /\ reply' = [EmptyReply EXCEPT
                        !.receipt = pendingReceipt',
                        !.base = base,
                        !.cursor = IF base = None THEN 0 ELSE base]
        /\ phase' = IF base = None THEN "full" ELSE "changed"
        /\ UNCHANGED <<rosterVars, localVars, netVars>>

\* The rows a page of the current phase may still return.
RowsAhead ==
    CASE phase = "full" -> {w \in Workers : w <= created /\ w > reply.cursor}
      [] phase = "changed" -> {w \in Workers : rosterSequence[w] > reply.cursor}
      [] OTHER -> {w \in Workers : /\ w <= created
                                   /\ w > reply.cursor
                                   /\ rosterSequence[w] = 0}

Key(w) == IF phase = "changed" THEN rosterSequence[w] ELSE w

Row(w) == [worker |-> w,
           template |-> IF active[w] THEN faceEncoding[w] ELSE None]

\* One page.  Real pages hold 200 rows; with one row, writes can fall
\* between any two rows of the roster.
ReadPage(w) ==
    /\ phase \in Reading
    /\ w \in RowsAhead
    /\ \A other \in RowsAhead : Key(w) <= Key(other)
    /\ reply' = [reply EXCEPT !.rows = @ \cup {Row(w)},
                              !.seen = @ \cup {w},
                              !.duplicate = @ \/ w \in reply.seen,
                              !.cursor = Key(w)]
    /\ UNCHANGED <<rosterVars, receiptVars, phase, localVars, netVars>>

\* Changed rows are followed by the rows without a sequence; the last page
\* of either kind completes the response.
LastPage ==
    /\ phase \in Reading
    /\ RowsAhead = {}
    /\ phase' = IF phase = "changed" THEN "legacy" ELSE "revoke"
    /\ reply' = [reply EXCEPT !.cursor = 0]
    /\ UNCHANGED <<rosterVars, receiptVars, localVars, netVars>>

\* A request the kiosk gave up on reaches the server after all.  Nobody reads
\* its answer, but its receipt stays pending.
AnswerLateRequest ==
    /\ lateRequest
    /\ lateRequest' = FALSE
    /\ issueRosterReceipt
    /\ UNCHANGED <<rosterVars, phase, reply, localVars, acks>>

-----------------------------------------------------------------------------
(* The kiosk's roster phase of one sync cycle.                             *)

RequestRoster ==
    /\ phase = "idle"
    /\ phase' = "requested"
    /\ UNCHANGED <<rosterVars, receiptVars, reply, localVars, netVars>>

\* Revocations commit first, each in its own transaction.
RevokeRow(row) ==
    /\ phase = "revoke"
    /\ row \in reply.rows
    /\ row.template = None
    /\ templates' = [templates EXCEPT ![row.worker] = None]
    /\ reply' = [reply EXCEPT !.rows = @ \ {row}]
    /\ UNCHANGED <<rosterVars, receiptVars, phase, cache, hasApplied,
                   storedReceipt, netVars>>

\* A worker written between two pages can be in the response twice.
Validate ==
    /\ phase = "revoke"
    /\ \A row \in reply.rows : row.template # None
    /\ \/ reply.duplicate /\ phase' = "failed" /\ reply' = EmptyReply
       \/ ~reply.duplicate /\ phase' = "apply" /\ UNCHANGED reply
    /\ UNCHANGED <<rosterVars, receiptVars, localVars, netVars>>

ApplyRow(row) ==
    /\ phase = "apply"
    /\ row \in reply.rows
    /\ templates' = [templates EXCEPT ![row.worker] = row.template]
    /\ reply' = [reply EXCEPT !.rows = @ \ {row}]
    /\ UNCHANGED <<rosterVars, receiptVars, phase, cache, hasApplied,
                   storedReceipt, netVars>>

\* A full roster removes every synced identity it does not contain.
Stale == {i \in Ids : reply.base = None /\ i \notin reply.seen /\ templates[i] # None}

PruneStale(i) ==
    /\ phase = "apply"
    /\ reply.rows = {}
    /\ i \in Stale
    /\ templates' = [templates EXCEPT ![i] = None]
    /\ UNCHANGED <<rosterVars, receiptVars, phase, reply, cache, hasApplied,
                   storedReceipt, netVars>>

StoreReceipt ==
    /\ phase = "apply"
    /\ reply.rows = {}
    /\ Stale = {}
    /\ storedReceipt' = reply.receipt
    /\ phase' = "applied"
    /\ reply' = EmptyReply
    /\ UNCHANGED <<rosterVars, receiptVars, templates, cache, hasApplied, netVars>>

\* Any error of the request or of the kiosk's own steps: a timeout, a photo
\* that cannot be downloaded, a cleanup that fails, an unmanaged local profile.
\* What was committed stays committed.
FailSync ==
    /\ phase \in Reading \cup {"requested", "revoke", "apply"}
    /\ phase' = "failed"
    /\ reply' = EmptyReply
    /\ lateRequest' = (lateRequest \/ phase = "requested")
    /\ UNCHANGED <<rosterVars, receiptVars, localVars, acks>>

\* The recognizer is reloaded whatever happened; only a complete application
\* goes on to the acknowledgement.
Reload ==
    /\ phase \in {"applied", "failed"}
    /\ cache' = templates
    /\ phase' = IF phase = "applied" THEN "ack" ELSE "idle"
    /\ UNCHANGED <<rosterVars, receiptVars, reply, templates, hasApplied,
                   storedReceipt, netVars>>

\* A failed reload clears the recognizer and ends the roster phase.
FailReload ==
    /\ phase \in {"applied", "failed"}
    /\ cache' = NoTemplates
    /\ phase' = "idle"
    /\ UNCHANGED <<rosterVars, receiptVars, reply, templates, hasApplied,
                   storedReceipt, netVars>>

SendAck ==
    /\ phase = "ack"
    /\ acks' = acks \cup {storedReceipt}
    /\ phase' = "awaiting"
    /\ UNCHANGED <<rosterVars, receiptVars, reply, localVars, lateRequest>>

\* The kiosk stops waiting; the acknowledgement may still arrive.
AckTimeout ==
    /\ phase = "awaiting"
    /\ phase' = "idle"
    /\ UNCHANGED <<rosterVars, receiptVars, reply, localVars, netVars>>

-----------------------------------------------------------------------------
(* POST /api/sync/ack on the server and the kiosk's bookkeeping after it.  *)

Larger(a, b) == IF a > b THEN a ELSE b

\* A slip: the acknowledgement certifies what is current when it arrives.
AckedSequenceNow == Larger(rosterAppliedSequence, counter)

AckedSequence == Larger(rosterAppliedSequence, pendingSequence)

\* A slip: an acknowledged receipt stays pending and is issued again.
KeepPending == UNCHANGED <<pendingReceipt, pendingSequence>>

SettlePending ==
    /\ pendingReceipt' = NoReceipt
    /\ pendingSequence' = None

\* A replay of the last acknowledged receipt changes nothing and succeeds.
acknowledgeRosterReceipt(id) ==
    \/ /\ id = lastRosterReceiptId
       /\ UNCHANGED receiptVars
    \/ /\ id # lastRosterReceiptId
       /\ id = pendingReceipt
       /\ rosterAppliedSequence' = AckedSequence
       /\ lastRosterReceiptId' = id
       /\ SettlePending

RefusesAck(id) == id \notin {lastRosterReceiptId, pendingReceipt}

\* A copy may stay on its way: the kiosk may have sent the same receipt twice.
ServeAck(id) ==
    /\ id \in acks
    /\ \/ acknowledgeRosterReceipt(id)
       \/ RefusesAck(id) /\ UNCHANGED receiptVars
    /\ \E rest \in {acks, acks \ {id}} : acks' = rest
    /\ UNCHANGED <<rosterVars, phase, reply, localVars, lateRequest>>

\* The kiosk still waits and receives the answer to this acknowledgement.
ServeAwaitedAck ==
    /\ phase = "awaiting"
    /\ storedReceipt \in acks
    /\ \/ acknowledgeRosterReceipt(storedReceipt) /\ phase' = "acked"
       \/ RefusesAck(storedReceipt) /\ UNCHANGED receiptVars /\ phase' = "idle"
    /\ acks' = acks \ {storedReceipt}
    /\ UNCHANGED <<rosterVars, reply, localVars, lateRequest>>

LoseAck(id) ==
    /\ id \in acks
    /\ acks' = acks \ {id}
    /\ UNCHANGED <<rosterVars, receiptVars, phase, reply, localVars, lateRequest>>

LoseLateRequest ==
    /\ lateRequest
    /\ lateRequest' = FALSE
    /\ UNCHANGED <<rosterVars, receiptVars, phase, reply, localVars, acks>>

\* last_roster_applied_at and the pending receipt are separate commits.
RecordApplied ==
    /\ phase = "acked"
    /\ hasApplied' = TRUE
    /\ phase' = "recorded"
    /\ UNCHANGED <<rosterVars, receiptVars, reply, templates, cache,
                   storedReceipt, netVars>>

ForgetReceipt ==
    /\ phase = "recorded"
    /\ storedReceipt' = NoReceipt
    /\ phase' = "idle"
    /\ UNCHANGED <<rosterVars, receiptVars, reply, templates, cache,
                   hasApplied, netVars>>

-----------------------------------------------------------------------------
(* Restarts.  SQLite survives a crash; startup loads the roster from it.   *)

Crash ==
    /\ phase # "idle"
    /\ phase' = "idle"
    /\ cache' = templates
    /\ reply' = EmptyReply
    /\ lateRequest' = (lateRequest \/ phase = "requested")
    /\ UNCHANGED <<rosterVars, receiptVars, templates, hasApplied, storedReceipt,
                   acks>>

\* A new card in the same kiosk: an empty database under the same credential.
Reimage ==
    /\ phase = "idle"
    /\ templates' = NoTemplates
    /\ cache' = NoTemplates
    /\ hasApplied' = FALSE
    /\ storedReceipt' = NoReceipt
    /\ UNCHANGED <<rosterVars, receiptVars, phase, reply, netVars>>

-----------------------------------------------------------------------------

PortalNext == \E w \in Workers :
    \/ CreateWorker(w)
    \/ RestoreWorker(w)
    \/ UpdateWorker(w)
    \/ RemoveWorker(w)
    \/ PurgeBiometrics(w)
    \/ BackfillRosterSequences(w)

ServerNext ==
    \/ AnswerIssue
    \/ \E w \in Workers : ReadPage(w)
    \/ LastPage
    \/ ServeAwaitedAck

KioskNext ==
    \/ RequestRoster
    \/ \E row \in Rows : RevokeRow(row) \/ ApplyRow(row)
    \/ Validate
    \/ \E i \in Ids : PruneStale(i)
    \/ StoreReceipt
    \/ Reload
    \/ SendAck
    \/ RecordApplied
    \/ ForgetReceipt

\* Messages nobody waits for.
LateNext ==
    \/ AnswerLateRequest
    \/ LoseLateRequest
    \/ \E id \in Receipts : ServeAck(id) \/ LoseAck(id)

Fault == FailSync \/ FailReload \/ AckTimeout \/ Crash \/ Reimage

Next == PortalNext \/ ServerNext \/ KioskNext \/ LateNext \/ Fault

Spec == Init /\ [][Next]_vars

\* The sync thread repeats its cycle every SYNC_INTERVAL seconds, the server
\* answers, a request that gets no answer times out, and a message nobody
\* waits for does not stay on its way for ever.
Fairness ==
    /\ WF_vars(ServerNext)
    /\ WF_vars(KioskNext)
    /\ WF_vars(AckTimeout)
    /\ \A id \in Receipts : WF_vars(LoseAck(id))

FairSpec == Spec /\ Fairness

-----------------------------------------------------------------------------
(* Properties.                                                             *)

TypeOK ==
    /\ created \in 0..NumWorkers
    /\ rosterSequence \in [Workers -> 0..MaxSequence]
    /\ active \in [Workers -> BOOLEAN]
    /\ faceEncoding \in [Workers -> MaybeTemplate]
    /\ counter \in 0..MaxSequence
    /\ lastPurgeSequence \in MaybeSequence
    /\ purgedAt \in [Ids -> MaybeSequence]
    /\ rosterAppliedSequence \in MaybeSequence
    /\ pendingReceipt \in Receipts \cup {NoReceipt}
    /\ pendingSequence \in MaybeSequence
    /\ lastRosterReceiptId \in Receipts \cup {NoReceipt}
    /\ phase \in Phases
    /\ reply \in Replies
    /\ templates \in [Ids -> MaybeTemplate]
    /\ cache \in [Ids -> MaybeTemplate]
    /\ hasApplied \in BOOLEAN
    /\ storedReceipt \in Receipts \cup {NoReceipt}
    /\ acks \subseteq Receipts
    /\ lateRequest \in BOOLEAN

\* No template enrolled at or before the worker's purge is left.
Forgotten(store, w) == store[w] = None \/ store[w] > purgedAt[w]

\* When the portal stops showing "purge pending" for the kiosk, neither its
\* database nor its recognizer can still match anyone with purged face data,
\* whatever was lost, delayed, retried or interrupted on the way.
\* (convex/kiosks.ts purge_pending; RETENTION.md)
CertifiedMeansForgotten ==
    ~PurgePending => \A w \in Workers : /\ Forgotten(templates, w)
                                        /\ Forgotten(cache, w)

\* What GET /api/sync would report for the worker now.
Current(i) == IF i = Unknown \/ i > created THEN None ELSE Row(i).template

\* A delta skips nothing: once the server has recorded an acknowledgement for
\* the newest sequence and the kiosk knows it, the kiosk holds exactly the
\* active workers with their newest templates and nobody else.
AppliedRosterIsCurrent ==
    hasApplied /\ rosterAppliedSequence = counter
        => \A i \in Ids : templates[i] = Current(i)

\* Something the kiosk waits for is lost, or the kiosk itself fails.
Disturbed ==
    \/ FailSync \/ FailReload \/ Crash \/ Reimage
    \/ /\ phase = "awaiting"
       /\ storedReceipt \in acks
       /\ AckTimeout \/ ServeAck(storedReceipt) \/ LoseAck(storedReceipt)

\* Once faults stop, every purge is certified: a receipt that was pending
\* before the purge is not reused for ever, and no request is left waiting.
PurgeEventuallyCertified ==
    []<><<Disturbed>>_vars \/ (PurgePending ~> ~PurgePending)
=============================================================================

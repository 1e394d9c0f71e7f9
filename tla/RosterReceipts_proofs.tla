------------------------ MODULE RosterReceipts_proofs ------------------------
(***************************************************************************)
(* Proofs about RosterReceipts, for any number of workers, any bound on    *)
(* the sequence and any number of receipt ids.                             *)
(*                                                                         *)
(* The inductive invariant says what a receipt id stands for while it is   *)
(* on its way: as long as it is still pending, every purge up to its       *)
(* sequence is already gone from the database (and from the recognizer     *)
(* once the acknowledgement may leave), or a row of the response in hand   *)
(* is still going to remove it.                                            *)
(***************************************************************************)
EXTENDS RosterReceipts, TLAPS

\* Nothing purged at or before s is left in the store.
Clean(store, s) ==
    \A i \in Ids : purgedAt[i] # None /\ purgedAt[i] <= s => Forgotten(store, i)

SequencesInv ==
    /\ rosterAppliedSequence <= counter
    /\ pendingSequence <= counter
    /\ purgedAt[Unknown] = 0
    /\ lastPurgeSequence <= counter
    /\ \A w \in Workers :
        /\ rosterSequence[w] <= counter
        /\ purgedAt[w] <= rosterSequence[w]
        /\ purgedAt[w] <= lastPurgeSequence
        /\ faceEncoding[w] = None \/ faceEncoding[w] > purgedAt[w]
        /\ w > created => purgedAt[w] = None
        /\ active[w] => w <= created
        /\ \A v \in Workers : rosterSequence[v] = rosterSequence[w] /\ v # w
               => rosterSequence[w] = 0

InHand == Reading \cup {"revoke", "apply"}

\* A template of the response was not purged when it was read, so the purge
\* that makes it stale is newer than anything an acknowledgement could cover.
RowIsFresh(row) ==
    \/ row.template = None
    \/ purgedAt[row.worker] < row.template
    \/ /\ purgedAt[row.worker] > rosterAppliedSequence
       /\ pendingReceipt = reply.receipt => purgedAt[row.worker] > pendingSequence

\* Which purges the response in hand is already known to report.
Covered ==
    /\ phase = "full" =>
        /\ reply.base = None
        /\ \A w \in Workers : w <= reply.cursor => w \in reply.seen
    /\ phase = "changed" =>
        /\ reply.base # None
        /\ reply.base <= reply.cursor /\ reply.cursor <= counter
        /\ \A w \in Workers :
              reply.base < rosterSequence[w] /\ rosterSequence[w] <= reply.cursor
                  => w \in reply.seen
    /\ phase = "legacy" => reply.base # None
    /\ phase \in {"legacy", "revoke", "apply"} =>
        \A w \in Workers : reply.base < purgedAt[w] /\ purgedAt[w] <= pendingSequence
            => w \in reply.seen
    /\ \A w \in reply.seen : purgedAt[w] <= pendingSequence
            => Forgotten(templates, w) \/ \E row \in reply.rows : row.worker = w

ReplyInv ==
    phase \in InHand =>
        /\ reply.base <= rosterAppliedSequence
        /\ pendingReceipt # reply.receipt => pendingReceipt \notin acks
        /\ \A row \in reply.rows : RowIsFresh(row)
        /\ pendingReceipt = reply.receipt => Covered

AckInv ==
    /\ Clean(templates, rosterAppliedSequence)
    /\ Clean(cache, rosterAppliedSequence)
    /\ pendingReceipt \in acks =>
        Clean(templates, pendingSequence) /\ Clean(cache, pendingSequence)
    /\ phase \in {"applied", "ack", "awaiting"} =>
        (storedReceipt = pendingReceipt => Clean(templates, pendingSequence))
    /\ phase \in {"ack", "awaiting"} =>
        (storedReceipt = pendingReceipt => Clean(cache, pendingSequence))

\* A kiosk that handles a response or acknowledges one holds its receipt.
HoldsReceipt ==
    /\ phase \in InHand => reply.receipt \in Receipts
    /\ phase \in {"applied", "ack", "awaiting"} => storedReceipt \in Receipts

Typed == TypeOK /\ HoldsReceipt

Safe == SequencesInv /\ ReplyInv /\ AckInv

IInv == Typed /\ Safe

-----------------------------------------------------------------------------
(* Type correctness.                                                       *)

LEMMA WriteType ==
    ASSUME Typed,
           NEW w \in Workers, NEW a \in BOOLEAN, NEW purge \in BOOLEAN,
           NEW t \in {faceEncoding[w], counter + 1, None},
           writeRosterWorker(w, a, t, purge), WorkerWrite,
           created' \in {created, w}
    PROVE  Typed'
<1> USE DEF Typed, TypeOK, HoldsReceipt
<1>1. /\ counter' \in 0..MaxSequence
      /\ counter + 1 \in 0..MaxSequence
  BY ConstantsAssumption DEF writeRosterWorker
<1>2. t \in MaybeTemplate
  BY <1>1 DEF MaybeTemplate, Templates
<1>3. created' \in 0..NumWorkers
  BY ConstantsAssumption DEF Workers
<1>4. TypeOK'
  BY <1>1, <1>2, <1>3
  DEF writeRosterWorker, WorkerWrite, receiptVars, localVars, netVars,
      MaybeSequence, Workers, Ids
<1>5. HoldsReceipt'
  BY DEF WorkerWrite, localVars
<1>6. QED
  BY <1>4, <1>5

LEMMA PortalType ==
    ASSUME Typed, PortalNext
    PROVE  Typed'
<1>1. PICK w \in Workers : \/ CreateWorker(w) \/ RestoreWorker(w) \/ UpdateWorker(w)
                           \/ RemoveWorker(w) \/ PurgeBiometrics(w)
                           \/ BackfillRosterSequences(w)
  BY DEF PortalNext
<1>2. CASE CreateWorker(w)
  BY <1>2, WriteType DEF CreateWorker
<1>3. CASE RestoreWorker(w)
  BY <1>3, WriteType DEF RestoreWorker
<1>4. CASE UpdateWorker(w)
  BY <1>4, WriteType DEF UpdateWorker
<1>5. CASE RemoveWorker(w)
  BY <1>5, WriteType DEF RemoveWorker
<1>6. CASE PurgeBiometrics(w)
  BY <1>6, WriteType DEF PurgeBiometrics
<1>7. CASE BackfillRosterSequences(w)
  <2>1. active[w] \in BOOLEAN
    BY DEF Typed, TypeOK
  <2>2. QED
    BY <1>7, <2>1, WriteType DEF BackfillRosterSequences
<1>8. QED
  BY <1>1, <1>2, <1>3, <1>4, <1>5, <1>6, <1>7

LEMMA EmptyReplyType == EmptyReply \in Replies
  BY ConstantsAssumption DEF EmptyReply, Replies, MaybeSequence, Ids, Rows

LEMMA NoTemplatesType == NoTemplates \in [Ids -> MaybeTemplate]
  BY DEF NoTemplates, MaybeTemplate

\* The types of the receipt fields of a kiosk row after a receipt mutation.
ReceiptTypes ==
    /\ pendingReceipt \in Receipts \cup {NoReceipt}
    /\ pendingSequence \in MaybeSequence
    /\ rosterAppliedSequence \in MaybeSequence
    /\ lastRosterReceiptId \in Receipts \cup {NoReceipt}

LEMMA IssueType ==
    ASSUME Typed, issueRosterReceipt
    PROVE  ReceiptTypes' /\ pendingReceipt' \in Receipts
  BY DEF Typed, TypeOK, ReceiptTypes, issueRosterReceipt, IssuedSequence, MaybeSequence

LEMMA AckType ==
    ASSUME Typed, NEW id \in Receipts,
           acknowledgeRosterReceipt(id) \/ UNCHANGED receiptVars
    PROVE  ReceiptTypes'
  BY DEF Typed, TypeOK, ReceiptTypes, acknowledgeRosterReceipt, AckedSequence,
         Larger, SettlePending, receiptVars, MaybeSequence

LEMMA ServerType ==
    ASSUME Typed, ServerNext
    PROVE  Typed'
<1> USE DEF Typed, TypeOK, HoldsReceipt, InHand, Reading, Phases
<1>1. CASE AnswerIssue
  <2>1. Since \in MaybeSequence
    BY DEF Since, MaybeSequence
  <2> DEFINE base == IF ForceFull THEN None ELSE Since
  <2>2. base \in MaybeSequence /\ (IF base = None THEN 0 ELSE base) \in 0..MaxSequence
    BY <2>1, ConstantsAssumption DEF MaybeSequence
  <2>3. issueRosterReceipt
    BY <1>1 DEF AnswerIssue
  <2>4. reply' = [receipt |-> pendingReceipt', base |-> base,
                  cursor |-> IF base = None THEN 0 ELSE base,
                  rows |-> {}, seen |-> {}, duplicate |-> FALSE]
    BY <1>1 DEF AnswerIssue, EmptyReply
  <2>5. reply' \in Replies
    BY <2>2, <2>3, <2>4, IssueType DEF Replies
  <2>6. phase' \in Reading
    BY <1>1 DEF AnswerIssue
  <2>7. reply'.receipt \in Receipts
    BY <2>3, <2>4, IssueType
  <2>8. QED
    BY <1>1, <2>3, <2>5, <2>6, <2>7, IssueType
    DEF AnswerIssue, ReceiptTypes, rosterVars, localVars, netVars
<1>2. ASSUME NEW w \in Workers, ReadPage(w)
      PROVE  Typed'
  <2>1. Row(w) \in Rows
    BY DEF Row, Rows, MaybeTemplate
  <2>2. Key(w) \in 0..MaxSequence \cup Ids
    BY DEF Key, Workers, Ids
  <2>3. reply' \in Replies /\ reply'.receipt = reply.receipt
    BY <1>2, <2>1, <2>2 DEF ReadPage, Replies
  <2>4. QED
    BY <1>2, <2>3 DEF ReadPage, rosterVars, receiptVars, localVars, netVars
<1>3. CASE LastPage
  <2>1. 0 \in Ids
    BY ConstantsAssumption DEF Ids
  <2>2. reply' \in Replies /\ reply'.receipt = reply.receipt
    BY <1>3, <2>1 DEF LastPage, Replies
  <2>3. phase \in InHand /\ phase' \in InHand
    BY <1>3 DEF LastPage
  <2>4. QED
    BY <1>3, <2>2, <2>3 DEF LastPage, rosterVars, receiptVars, localVars, netVars
<1>4. CASE ServeAwaitedAck
  <2>1. storedReceipt \in Receipts
    BY <1>4 DEF ServeAwaitedAck
  <2>2. ReceiptTypes'
    BY <1>4, <2>1, AckType DEF ServeAwaitedAck
  <2>3. phase' \in {"acked", "idle"}
    BY <1>4 DEF ServeAwaitedAck
  <2>4. QED
    BY <1>4, <2>2, <2>3 DEF ServeAwaitedAck, ReceiptTypes, rosterVars, localVars
<1>5. QED
  BY <1>1, <1>2, <1>3, <1>4 DEF ServerNext

LEMMA KioskType ==
    ASSUME Typed, KioskNext
    PROVE  Typed'
<1> USE DEF Typed, TypeOK, HoldsReceipt, InHand, Reading, Phases,
            rosterVars, receiptVars, localVars, netVars
<1>1. CASE RequestRoster
  BY <1>1 DEF RequestRoster
<1>2. ASSUME NEW row \in Rows, RevokeRow(row) \/ ApplyRow(row)
      PROVE  Typed'
  <2>1. reply' \in Replies /\ reply'.receipt = reply.receipt
    BY <1>2 DEF RevokeRow, ApplyRow, Replies
  <2>2. row.worker \in Ids /\ row.template \in MaybeTemplate /\ None \in MaybeTemplate
    BY DEF Rows, Workers, Ids, MaybeTemplate
  <2>3. templates' \in [Ids -> MaybeTemplate]
    BY <1>2, <2>2 DEF RevokeRow, ApplyRow
  <2>4. QED
    BY <1>2, <2>1, <2>3 DEF RevokeRow, ApplyRow
<1>3. CASE Validate
  BY <1>3, EmptyReplyType DEF Validate
<1>4. ASSUME NEW i \in Ids, PruneStale(i)
      PROVE  Typed'
  BY <1>4 DEF PruneStale, MaybeTemplate
<1>5. CASE StoreReceipt
  BY <1>5, EmptyReplyType DEF StoreReceipt
<1>6. CASE Reload
  BY <1>6 DEF Reload
<1>7. CASE SendAck
  BY <1>7 DEF SendAck
<1>8. CASE RecordApplied
  BY <1>8 DEF RecordApplied
<1>9. CASE ForgetReceipt
  BY <1>9 DEF ForgetReceipt
<1>10. QED
  BY <1>1, <1>2, <1>3, <1>4, <1>5, <1>6, <1>7, <1>8, <1>9 DEF KioskNext

LEMMA LateType ==
    ASSUME Typed, LateNext
    PROVE  Typed'
<1> USE DEF Typed, TypeOK, HoldsReceipt, rosterVars, localVars
<1>1. CASE AnswerLateRequest
  BY <1>1, IssueType DEF AnswerLateRequest, ReceiptTypes
<1>2. CASE LoseLateRequest
  BY <1>2 DEF LoseLateRequest, receiptVars
<1>3. ASSUME NEW id \in Receipts, ServeAck(id)
      PROVE  Typed'
  <2>1. ReceiptTypes'
    BY <1>3, AckType DEF ServeAck
  <2>2. QED
    BY <1>3, <2>1 DEF ServeAck, ReceiptTypes
<1>4. ASSUME NEW id \in Receipts, LoseAck(id)
      PROVE  Typed'
  BY <1>4 DEF LoseAck, receiptVars
<1>5. QED
  BY <1>1, <1>2, <1>3, <1>4 DEF LateNext

LEMMA FaultType ==
    ASSUME Typed, Fault
    PROVE  Typed'
<1> USE DEF Typed, TypeOK, HoldsReceipt, InHand, Reading, Phases,
            rosterVars, receiptVars, localVars, netVars
<1>1. CASE FailSync
  BY <1>1, EmptyReplyType DEF FailSync
<1>2. CASE FailReload
  BY <1>2, NoTemplatesType DEF FailReload
<1>3. CASE AckTimeout
  BY <1>3 DEF AckTimeout
<1>4. CASE Crash
  BY <1>4, EmptyReplyType DEF Crash
<1>5. CASE Reimage
  BY <1>5, NoTemplatesType DEF Reimage
<1>6. QED
  BY <1>1, <1>2, <1>3, <1>4, <1>5 DEF Fault

LEMMA NextType ==
    ASSUME Typed, [Next]_vars
    PROVE  Typed'
<1>1. CASE Next
  BY <1>1, PortalType, ServerType, KioskType, LateType, FaultType DEF Next
<1>2. CASE UNCHANGED vars
  BY <1>2 DEF Typed, TypeOK, HoldsReceipt, vars, rosterVars, receiptVars,
              localVars, netVars
<1>3. QED
  BY <1>1, <1>2

LEMMA InitType ==
    ASSUME Init
    PROVE  Typed
<1>1. /\ faceEncoding \in [Workers -> MaybeTemplate]
      /\ rosterSequence \in [Workers -> 0..MaxSequence]
      /\ templates \in [Ids -> MaybeTemplate]
      /\ purgedAt \in [Ids -> MaybeSequence]
      /\ lastPurgeSequence \in MaybeSequence
  BY ConstantsAssumption DEF Init, MaybeTemplate, MaybeSequence, Templates
<1>2. cache \in [Ids -> MaybeTemplate]
  BY <1>1 DEF Init
<1>3. /\ counter \in 0..MaxSequence
      /\ rosterAppliedSequence \in MaybeSequence
      /\ pendingSequence \in MaybeSequence
  BY ConstantsAssumption DEF Init, MaybeSequence
<1>4. /\ pendingReceipt \in Receipts \cup {NoReceipt}
      /\ lastRosterReceiptId \in Receipts \cup {NoReceipt}
      /\ storedReceipt \in Receipts \cup {NoReceipt}
      /\ acks \subseteq Receipts
  BY DEF Init
<1>5. phase \in Phases /\ reply \in Replies
  BY EmptyReplyType DEF Init, Phases
<1>6. TypeOK
  BY <1>1, <1>2, <1>3, <1>4, <1>5 DEF Init, TypeOK
<1>7. HoldsReceipt
  BY DEF Init, HoldsReceipt, InHand, Reading
<1>8. QED
  BY <1>6, <1>7 DEF Typed

\* Every reachable state is well typed; in particular a kiosk that handles a
\* roster response or acknowledges one does so under a receipt of the server
\* (convex/kiosks.ts, pi-kiosk/sync.py).
THEOREM TypeCorrect == Spec => []TypeOK
<1>1. Spec => []Typed
  BY InitType, NextType, PTL DEF Spec
<1>2. Typed => TypeOK
  BY DEF Typed
<1>3. QED
  BY <1>1, <1>2, PTL

-----------------------------------------------------------------------------
(* What the portal shows as certified is forgotten.                        *)

\* The numbers of a well-typed state.
LEMMA Numbers ==
    ASSUME Typed
    PROVE  /\ counter \in Nat
           /\ lastPurgeSequence \in Int /\ lastPurgeSequence >= None
           /\ rosterAppliedSequence \in Int /\ rosterAppliedSequence >= None
           /\ pendingSequence \in Int /\ pendingSequence >= None
           /\ reply.base \in Int /\ reply.base >= None
           /\ \A i \in Ids : /\ purgedAt[i] \in Int /\ purgedAt[i] >= None
                             /\ templates[i] \in Int /\ templates[i] >= None
                             /\ cache[i] \in Int /\ cache[i] >= None
           /\ \A w \in Workers : rosterSequence[w] \in Nat /\ faceEncoding[w] \in Int
<1> USE DEF Typed, TypeOK, MaybeSequence, MaybeTemplate, Templates, None
<1>1. reply.base \in MaybeSequence
  BY DEF Replies
<1>2. QED
  BY <1>1, ConstantsAssumption

LEMMA WorkerIds == Workers \subseteq Ids /\ Unknown \in Ids /\ Unknown \notin Workers
  BY ConstantsAssumption DEF Workers, Ids, Unknown

\* A write takes a sequence no receipt covers yet.
LEMMA WriteSafe ==
    ASSUME Typed, Safe,
           NEW w \in Workers, NEW a \in BOOLEAN, NEW purge \in BOOLEAN,
           NEW t \in {faceEncoding[w], counter + 1, None},
           writeRosterWorker(w, a, t, purge), WorkerWrite,
           \/ created' = created /\ w <= created
           \/ created' = w /\ w = created + 1,
           purge = FALSE \/ t = None
    PROVE  Safe'
<1> USE DEF Typed, TypeOK, receiptVars, localVars, netVars, WorkerWrite
<1>0. created \in Nat /\ created' \in Nat /\ created' >= created /\ w <= created'
  BY ConstantsAssumption DEF Workers
<1>1. /\ counter' = counter + 1
      /\ rosterSequence' = [rosterSequence EXCEPT ![w] = counter + 1]
      /\ faceEncoding' = [faceEncoding EXCEPT ![w] = t]
      /\ lastPurgeSequence' = IF purge THEN counter + 1 ELSE lastPurgeSequence
      /\ purgedAt' = IF purge THEN [purgedAt EXCEPT ![w] = counter + 1] ELSE purgedAt
  BY DEF writeRosterWorker
<1>2. \A i \in Ids : \/ purgedAt'[i] = purgedAt[i]
                     \/ purgedAt'[i] = counter + 1 /\ i = w
  <2>1. purgedAt \in [Ids -> MaybeSequence] /\ w \in Ids
    BY WorkerIds
  <2>2. CASE purge = TRUE
    BY <1>1, <2>1, <2>2
  <2>3. CASE purge = FALSE
    BY <1>1, <2>1, <2>3
  <2>4. QED
    BY <2>2, <2>3
<1>3. SequencesInv'
  <2>1. /\ rosterAppliedSequence' <= counter'
        /\ pendingSequence' <= counter'
        /\ lastPurgeSequence' <= counter'
        /\ lastPurgeSequence <= lastPurgeSequence'
        /\ lastPurgeSequence' \in Int
    <3>1. CASE purge = TRUE
      BY <1>1, <3>1, Numbers DEF Safe, SequencesInv
    <3>2. CASE purge = FALSE
      BY <1>1, <3>2, Numbers DEF Safe, SequencesInv
    <3>3. QED
      BY <3>1, <3>2
  <2>2. purgedAt'[Unknown] = 0
    BY <1>2, WorkerIds DEF Safe, SequencesInv
  <2>3. ASSUME NEW v \in Workers, v # w
        PROVE  /\ rosterSequence'[v] = rosterSequence[v]
               /\ faceEncoding'[v] = faceEncoding[v]
               /\ purgedAt'[v] = purgedAt[v]
    BY <1>1, <1>2, <2>3, WorkerIds
  <2>4. /\ rosterSequence'[w] = counter + 1
        /\ purgedAt'[w] <= counter + 1
        /\ purgedAt'[w] <= lastPurgeSequence'
    BY <1>1, <2>1, Numbers, WorkerIds DEF Safe, SequencesInv
  <2>5. faceEncoding'[w] = None \/ faceEncoding'[w] > purgedAt'[w]
    BY <1>1, Numbers, WorkerIds DEF Safe, SequencesInv
  <2>6. ASSUME NEW v \in Workers
        PROVE  /\ rosterSequence'[v] <= counter'
               /\ purgedAt'[v] <= rosterSequence'[v]
               /\ purgedAt'[v] <= lastPurgeSequence'
               /\ faceEncoding'[v] = None \/ faceEncoding'[v] > purgedAt'[v]
               /\ v > created' => purgedAt'[v] = None
    <3>1. CASE v = w
      BY <1>0, <1>1, <2>4, <2>5, <3>1, Numbers DEF Workers
    <3>2. CASE v # w
      <4>1. /\ rosterSequence[v] <= counter
            /\ purgedAt[v] <= rosterSequence[v]
            /\ purgedAt[v] <= lastPurgeSequence
            /\ faceEncoding[v] = None \/ faceEncoding[v] > purgedAt[v]
            /\ v > created => purgedAt[v] = None
        BY DEF Safe, SequencesInv
      <4>2. v \in Ids /\ purgedAt[v] \in Int /\ rosterSequence[v] \in Nat
        BY Numbers, WorkerIds
      <4>3. rosterSequence[v] <= counter'
        BY <1>1, <4>1, <4>2, Numbers
      <4>4. purgedAt[v] <= lastPurgeSequence'
        BY <1>1, <2>1, <4>1, <4>2, Numbers
      <4>5. v > created' => v > created
        BY <1>0 DEF Workers
      <4>6. QED
        BY <2>3, <3>2, <4>1, <4>3, <4>4, <4>5
    <3>3. QED
      BY <3>1, <3>2
  <2>7. ASSUME NEW v \in Workers, NEW u \in Workers,
               rosterSequence'[u] = rosterSequence'[v], u # v
        PROVE  rosterSequence'[v] = 0
    BY <2>3, <2>4, <2>7, Numbers DEF Safe, SequencesInv
  <2>8. ASSUME NEW v \in Workers, active'[v]
        PROVE  v <= created'
    <3>1. CASE v = w
      BY <1>0, <3>1
    <3>2. CASE v # w
      <4>1. active[v]
        BY <2>8, <3>2 DEF writeRosterWorker
      <4>2. v <= created
        BY <4>1 DEF Safe, SequencesInv
      <4>3. QED
        BY <1>0, <4>2 DEF Workers
    <3>3. QED
      BY <3>1, <3>2
  <2>9. QED
    BY <2>1, <2>2, <2>6, <2>7, <2>8 DEF SequencesInv
<1>4. ASSUME NEW store, NEW s \in Int, s <= counter, Clean(store, s)
      PROVE  \A i \in Ids : purgedAt'[i] # None /\ purgedAt'[i] <= s
                 => store[i] = None \/ store[i] > purgedAt'[i]
  BY <1>2, <1>4, Numbers DEF Clean, Forgotten
<1>5. AckInv'
  <2>1. rosterAppliedSequence <= counter /\ pendingSequence <= counter
    BY DEF Safe, SequencesInv
  <2>2. Clean(templates, rosterAppliedSequence)'
    BY <1>4, <2>1, Numbers DEF Safe, AckInv, Clean, Forgotten
  <2>3. Clean(cache, rosterAppliedSequence)'
    BY <1>4, <2>1, Numbers DEF Safe, AckInv, Clean, Forgotten
  <2>4. Clean(templates, pendingSequence) => Clean(templates, pendingSequence)'
    BY <1>4, <2>1, Numbers DEF Clean, Forgotten
  <2>5. Clean(cache, pendingSequence) => Clean(cache, pendingSequence)'
    BY <1>4, <2>1, Numbers DEF Clean, Forgotten
  <2>6. QED
    BY <2>2, <2>3, <2>4, <2>5 DEF Safe, AckInv
<1>6. ReplyInv'
  <2> SUFFICES ASSUME phase \in InHand
               PROVE  /\ reply.base <= rosterAppliedSequence
                      /\ pendingReceipt # reply.receipt => pendingReceipt \notin acks
                      /\ \A row \in reply.rows : RowIsFresh(row)'
                      /\ pendingReceipt = reply.receipt => Covered'
    BY DEF ReplyInv, InHand
  <2>1. /\ reply.base <= rosterAppliedSequence
        /\ pendingReceipt # reply.receipt => pendingReceipt \notin acks
        /\ \A row \in reply.rows : RowIsFresh(row)
        /\ pendingReceipt = reply.receipt => Covered
        /\ rosterAppliedSequence <= counter
        /\ pendingSequence <= counter
    BY DEF Safe, ReplyInv, SequencesInv
  <2>2. ASSUME NEW row \in reply.rows
        PROVE  RowIsFresh(row)'
    <3>1. row.worker \in Ids
      BY WorkerIds DEF Replies, Rows
    <3>2. CASE purgedAt'[row.worker] = purgedAt[row.worker]
      BY <2>1, <3>2 DEF RowIsFresh
    <3>3. CASE purgedAt'[row.worker] = counter + 1
      BY <2>1, <3>3, Numbers DEF RowIsFresh
    <3>4. QED
      BY <1>2, <3>1, <3>2, <3>3
  <2>3. ASSUME Covered
        PROVE  Covered'
    <3>1. /\ phase = "full" =>
              /\ reply.base = None
              /\ \A v \in Workers : v <= reply.cursor => v \in reply.seen
          /\ phase = "legacy" => reply.base # None
      BY <2>3 DEF Covered
    <3>2. phase = "changed" =>
              /\ reply.base # None
              /\ reply.base <= reply.cursor /\ reply.cursor <= counter
              /\ \A v \in Workers :
                    reply.base < rosterSequence'[v] /\ rosterSequence'[v] <= reply.cursor
                        => v \in reply.seen
      <4> SUFFICES ASSUME phase = "changed", NEW v \in Workers,
                          reply.base < rosterSequence'[v],
                          rosterSequence'[v] <= reply.cursor
                   PROVE  v \in reply.seen
        BY <2>3 DEF Covered
      <4>1. reply.cursor <= counter
        BY <2>3 DEF Covered
      <4>2. reply.cursor \in Int
        BY DEF Replies, Ids
      <4>3. v # w
        BY <1>1, <4>1, <4>2, Numbers
      <4>4. rosterSequence'[v] = rosterSequence[v]
        BY <1>1, <4>3
      <4>5. QED
        BY <2>3, <4>4 DEF Covered
    <3>3. phase \in {"legacy", "revoke", "apply"} =>
            \A v \in Workers : reply.base < purgedAt'[v] /\ purgedAt'[v] <= pendingSequence
                => v \in reply.seen
      <4> SUFFICES ASSUME phase \in {"legacy", "revoke", "apply"}, NEW v \in Workers,
                          reply.base < purgedAt'[v], purgedAt'[v] <= pendingSequence
                   PROVE  v \in reply.seen
        OBVIOUS
      <4>1. purgedAt'[v] = purgedAt[v]
        BY <1>2, <2>1, Numbers, WorkerIds
      <4>2. QED
        BY <2>3, <4>1 DEF Covered
    <3>4. ASSUME NEW v \in reply.seen, purgedAt'[v] <= pendingSequence
          PROVE  \/ templates[v] = None \/ templates[v] > purgedAt'[v]
                 \/ \E row \in reply.rows : row.worker = v
      <4>1. v \in Workers
        BY DEF Replies
      <4>2. purgedAt'[v] = purgedAt[v]
        BY <1>2, <2>1, <3>4, <4>1, Numbers, WorkerIds
      <4>3. QED
        BY <2>3, <3>4, <4>2 DEF Covered, Forgotten
    <3>5. counter <= counter'
      BY <1>1, Numbers
    <3>6. reply.cursor <= counter => reply.cursor <= counter'
      <4>1. reply.cursor \in Int
        BY DEF Replies, Ids
      <4>2. QED
        BY <1>1, <4>1, Numbers
    <3>7. QED
      BY <3>1, <3>2, <3>3, <3>4, <3>6 DEF Covered, Forgotten
  <2>4. QED
    BY <2>1, <2>2, <2>3
<1>7. QED
  BY <1>3, <1>5, <1>6 DEF Safe

LEMMA PortalSafe ==
    ASSUME Typed, Safe, PortalNext
    PROVE  Safe'
<1>1. PICK w \in Workers : \/ CreateWorker(w) \/ RestoreWorker(w) \/ UpdateWorker(w)
                           \/ RemoveWorker(w) \/ PurgeBiometrics(w)
                           \/ BackfillRosterSequences(w)
  BY DEF PortalNext
<1>2. active[w] => w <= created
  BY DEF Safe, SequencesInv
<1>3. CASE CreateWorker(w)
  BY <1>3, WriteSafe DEF CreateWorker
<1>4. CASE RestoreWorker(w)
  BY <1>4, WriteSafe DEF RestoreWorker
<1>5. CASE UpdateWorker(w)
  BY <1>2, <1>5, WriteSafe DEF UpdateWorker
<1>6. CASE RemoveWorker(w)
  BY <1>2, <1>6, WriteSafe DEF RemoveWorker
<1>7. CASE PurgeBiometrics(w)
  BY <1>7, WriteSafe DEF PurgeBiometrics
<1>8. CASE BackfillRosterSequences(w)
  <2>1. active[w] \in BOOLEAN
    BY DEF Typed, TypeOK
  <2>2. QED
    BY <1>8, <2>1, WriteSafe DEF BackfillRosterSequences
<1>9. QED
  BY <1>1, <1>3, <1>4, <1>5, <1>6, <1>7, <1>8

LEMMA IssueSafe ==
    ASSUME Typed, Safe, issueRosterReceipt
    PROVE  /\ rosterAppliedSequence' = rosterAppliedSequence
           /\ pendingSequence' <= counter
           /\ \/ UNCHANGED <<pendingReceipt, pendingSequence>>
              \/ pendingReceipt' \notin acks \cup {reply.receipt, storedReceipt}
  BY Numbers DEF Safe, SequencesInv, issueRosterReceipt, IssuedSequence,
                 FreshReceipt, ReceiptsInUse

LEMMA AnswerIssueSafe ==
    ASSUME Typed, Safe, AnswerIssue
    PROVE  Safe'
<1> USE DEF AnswerIssue, rosterVars, localVars, netVars
<1> DEFINE base == IF ForceFull THEN None ELSE Since
<1>1. /\ reply'.receipt = pendingReceipt'
      /\ reply'.base = base
      /\ reply'.cursor = IF base = None THEN 0 ELSE base
      /\ reply'.rows = {}
      /\ reply'.seen = {}
  BY DEF EmptyReply
<1>2. /\ base <= rosterAppliedSequence
      /\ base \in Int
      /\ base \in {None, rosterAppliedSequence}
  <2>1. base \in {None, rosterAppliedSequence}
    BY DEF Since
  <2>2. QED
    BY <2>1, Numbers DEF None
<1>3. phase' = IF base = None THEN "full" ELSE "changed"
  OBVIOUS
<1>4. issueRosterReceipt
  OBVIOUS
<1>5. SequencesInv'
  BY <1>4, IssueSafe DEF Safe, SequencesInv
<1>6. AckInv'
  BY <1>3, <1>4, IssueSafe DEF Safe, AckInv, Clean, Forgotten
<1>7. Covered'
  <2>1. rosterAppliedSequence <= counter
    BY DEF Safe, SequencesInv
  <2>2. \A w \in Workers : ~ w <= 0
    BY DEF Workers
  <2>3. \A w \in Workers : ~ (base < rosterSequence[w] /\ rosterSequence[w] <= base)
    BY <1>2, Numbers
  <2>4. CASE base = None
    BY <1>1, <1>3, <2>2, <2>4 DEF Covered
  <2>5. CASE base # None
    BY <1>1, <1>2, <1>3, <2>1, <2>3, <2>5 DEF Covered
  <2>6. QED
    BY <2>4, <2>5
<1>8. ReplyInv'
  BY <1>1, <1>2, <1>4, <1>7, IssueSafe DEF ReplyInv
<1>9. QED
  BY <1>5, <1>6, <1>8 DEF Safe

\* Steps that leave the rosters, the receipt fields and the templates alone and
\* end with no response in hand and no receipt stored for an acknowledgement.
LEMMA QuietSafe ==
    ASSUME Typed, Safe, UNCHANGED <<rosterVars, receiptVars, templates>>,
           cache' \in {cache, templates}, acks' \subseteq acks,
           phase' \notin InHand \cup {"applied", "ack", "awaiting"}
    PROVE  Safe'
<1> USE DEF rosterVars, receiptVars
<1>1. SequencesInv'
  BY DEF Safe, SequencesInv
<1>2. ReplyInv'
  BY DEF ReplyInv, InHand
<1>3. AckInv'
  BY DEF Safe, AckInv, Clean, Forgotten
<1>4. QED
  BY <1>1, <1>2, <1>3 DEF Safe

\* An acknowledgement that arrives finds every purge it covers forgotten, and
\* a response in hand no longer serves the receipt it was read for.
LEMMA AckSafe ==
    ASSUME Typed, Safe, NEW id \in acks,
           acknowledgeRosterReceipt(id) \/ UNCHANGED receiptVars,
           acks' \subseteq acks, UNCHANGED <<rosterVars, reply, localVars>>,
           phase' = phase \/ phase' \in {"acked", "idle"}
    PROVE  Safe'
<1> USE DEF rosterVars, localVars
<1>1. CASE UNCHANGED receiptVars
  <2>1. SequencesInv'
    BY <1>1 DEF Safe, SequencesInv, receiptVars
  <2>2. CASE phase' = phase
    <3>1. ReplyInv'
      BY <1>1, <2>2 DEF Safe, ReplyInv, receiptVars, RowIsFresh, Covered, Forgotten
    <3>2. AckInv'
      BY <1>1, <2>2 DEF Safe, AckInv, receiptVars, Clean, Forgotten
    <3>3. QED
      BY <2>1, <3>1, <3>2 DEF Safe
  <2>3. CASE phase' \in {"acked", "idle"}
    BY <1>1, <2>3, QuietSafe DEF InHand, Reading
  <2>4. QED
    BY <2>2, <2>3
<1>2. CASE id = pendingReceipt /\ rosterAppliedSequence' = AckedSequence /\ SettlePending
  <2> USE DEF SettlePending
  <2>1. /\ rosterAppliedSequence' \in {rosterAppliedSequence, pendingSequence}
        /\ rosterAppliedSequence' >= rosterAppliedSequence
        /\ rosterAppliedSequence' \in Int
    BY <1>2, Numbers DEF AckedSequence, Larger
  <2>2. /\ pendingReceipt' = NoReceipt
        /\ pendingSequence' = None
        /\ NoReceipt \notin Receipts
        /\ NoReceipt \notin acks'
    BY <1>2 DEF Receipts, NoReceipt, Typed, TypeOK
  <2>3. SequencesInv'
    BY <1>2, <2>1, Numbers DEF Safe, SequencesInv, None
  <2>4. AckInv'
    <3>1. Clean(templates, rosterAppliedSequence)' /\ Clean(cache, rosterAppliedSequence)'
      BY <1>2, <2>1 DEF Safe, AckInv, Clean, Forgotten
    <3>2. phase' \in {"applied", "ack", "awaiting"} => storedReceipt' \in Receipts
      BY DEF Typed, HoldsReceipt
    <3>3. QED
      BY <2>2, <3>1, <3>2 DEF AckInv
  <2>5. ReplyInv'
    <3> SUFFICES ASSUME phase \in InHand, phase' = phase
                 PROVE  ReplyInv'
      BY DEF ReplyInv, InHand, Reading
    <3>1. reply.receipt \in Receipts
      BY DEF Typed, HoldsReceipt
    <3>2. pendingReceipt = reply.receipt
      BY <1>2 DEF Safe, ReplyInv
    <3>3. reply.base <= rosterAppliedSequence'
      BY <2>1, Numbers DEF Safe, ReplyInv
    <3>4. ASSUME NEW row \in reply.rows
          PROVE  RowIsFresh(row)'
      BY <2>1, <2>2, <3>1, <3>2 DEF Safe, ReplyInv, RowIsFresh
    <3>5. QED
      BY <2>2, <3>1, <3>3, <3>4 DEF ReplyInv
  <2>6. QED
    BY <2>3, <2>4, <2>5 DEF Safe
<1>3. QED
  BY <1>1, <1>2 DEF acknowledgeRosterReceipt

\* The pages of a response cover every purge between its base and its receipt.
LEMMA ReadPageSafe ==
    ASSUME Typed, Safe, NEW w \in Workers, ReadPage(w)
    PROVE  Safe'
<1> USE DEF ReadPage, rosterVars, receiptVars, localVars, netVars
<1>1. /\ reply'.rows = reply.rows \cup {Row(w)}
      /\ reply'.seen = reply.seen \cup {w}
      /\ reply'.cursor = Key(w)
      /\ reply'.receipt = reply.receipt
      /\ reply'.base = reply.base
  BY DEF Typed, TypeOK, Replies
<1>2. phase \in InHand
  BY DEF InHand
<1>3. SequencesInv' /\ AckInv'
  BY DEF Safe, SequencesInv, AckInv, Clean, Forgotten
<1>4. ASSUME NEW row \in reply'.rows
      PROVE  RowIsFresh(row)'
  <2>1. CASE row \in reply.rows
    BY <1>1, <1>2, <2>1 DEF Safe, ReplyInv, RowIsFresh
  <2>2. CASE row = Row(w)
    <3>1. row.worker = w /\ (row.template = None \/ row.template = faceEncoding[w])
      BY <2>2 DEF Row
    <3>2. faceEncoding[w] = None \/ faceEncoding[w] > purgedAt[w]
      BY DEF Safe, SequencesInv
    <3>3. QED
      BY <3>1, <3>2, Numbers, WorkerIds DEF RowIsFresh
  <2>3. QED
    BY <1>1, <2>1, <2>2
<1>5. ASSUME Covered
      PROVE  Covered'
  <2>1. Row(w).worker = w
    BY DEF Row
  <2>2. ASSUME phase = "full"
        PROVE  \A v \in Workers : v <= reply'.cursor => v \in reply'.seen
    <3> SUFFICES ASSUME NEW v \in Workers, v <= w
                 PROVE  v \in reply'.seen
      BY <1>1, <2>2 DEF Key
    <3>1. w <= created
      BY <2>2 DEF RowsAhead
    <3>2. CASE v <= reply.cursor
      BY <1>1, <1>5, <2>2, <3>2 DEF Covered
    <3>3. CASE v > reply.cursor
      <4>1. v \in RowsAhead
        BY <2>2, <3>1, <3>3 DEF RowsAhead, Workers, Typed, TypeOK
      <4>2. w <= v
        BY <2>2, <4>1 DEF Key
      <4>3. v = w
        BY <4>2 DEF Workers
      <4>4. QED
        BY <1>1, <4>3
    <3>4. QED
      <4>1. reply.cursor \in Int
        BY DEF Typed, TypeOK, Replies, Ids
      <4>2. QED
        BY <3>2, <3>3, <4>1 DEF Workers
  <2>3. ASSUME phase = "changed"
        PROVE  /\ reply.base <= reply'.cursor /\ reply'.cursor <= counter
               /\ \A v \in Workers :
                    reply.base < rosterSequence[v] /\ rosterSequence[v] <= reply'.cursor
                        => v \in reply'.seen
    <3>1. /\ reply'.cursor = rosterSequence[w]
          /\ rosterSequence[w] > reply.cursor
      BY <1>1, <2>3 DEF Key, RowsAhead
    <3>2. reply.cursor \in Int /\ reply.base <= reply.cursor
      BY <1>5, <2>3 DEF Covered, Typed, TypeOK, Replies, Ids
    <3>3. rosterSequence[w] <= counter
      BY DEF Safe, SequencesInv
    <3>4. ASSUME NEW v \in Workers,
                 reply.base < rosterSequence[v], rosterSequence[v] <= rosterSequence[w]
          PROVE  v \in reply'.seen
      <4>1. CASE rosterSequence[v] <= reply.cursor
        BY <1>1, <1>5, <2>3, <3>4, <4>1 DEF Covered
      <4>2. CASE rosterSequence[v] > reply.cursor
        <5>1. v \in RowsAhead
          BY <2>3, <4>2 DEF RowsAhead
        <5>2. rosterSequence[w] <= rosterSequence[v]
          BY <2>3, <5>1 DEF Key
        <5>3. rosterSequence[w] = rosterSequence[v]
          BY <3>4, <5>2, Numbers
        <5>4. rosterSequence[v] # 0
          BY <3>2, <4>2, Numbers, <3>4, <1>5, <2>3 DEF Covered, None
        <5>5. v = w
          BY <5>3, <5>4 DEF Safe, SequencesInv
        <5>6. QED
          BY <1>1, <5>5
      <4>3. QED
        BY <3>2, <4>1, <4>2, Numbers
    <3>5. QED
      BY <3>1, <3>2, <3>3, <3>4, Numbers
  <2>4. ASSUME NEW v \in reply'.seen, purgedAt[v] <= pendingSequence
        PROVE  Forgotten(templates, v) \/ \E row \in reply'.rows : row.worker = v
    <3>1. CASE v = w
      BY <1>1, <2>1, <3>1
    <3>2. CASE v \in reply.seen
      BY <1>1, <1>5, <2>4, <3>2 DEF Covered
    <3>3. QED
      BY <1>1, <3>1, <3>2
  <2>5. phase' = phase
    OBVIOUS
  <2>6. QED
    BY <1>1, <1>5, <2>2, <2>3, <2>4, <2>5 DEF Covered, Forgotten
<1>6. ReplyInv'
  BY <1>1, <1>2, <1>4, <1>5 DEF Safe, ReplyInv
<1>7. QED
  BY <1>3, <1>6 DEF Safe

LEMMA LastPageSafe ==
    ASSUME Typed, Safe, LastPage
    PROVE  Safe'
<1> USE DEF LastPage, rosterVars, receiptVars, localVars, netVars
<1>1. /\ reply'.rows = reply.rows
      /\ reply'.seen = reply.seen
      /\ reply'.receipt = reply.receipt
      /\ reply'.base = reply.base
  BY DEF Typed, TypeOK, Replies
<1>2. phase \in InHand /\ phase' \in {"legacy", "revoke"}
  BY DEF InHand
<1>3. SequencesInv' /\ AckInv'
  BY <1>2 DEF Safe, SequencesInv, AckInv, Clean, Forgotten
<1>4. ASSUME Covered
      PROVE  Covered'
  <2>1. ASSUME NEW w \in Workers, reply.base < purgedAt[w], purgedAt[w] <= pendingSequence
        PROVE  w \in reply.seen
    <3>1. reply.cursor \in Int
      BY DEF Typed, TypeOK, Replies, Ids
    <3>2. CASE phase = "full"
      <4>1. w <= created
        BY <1>4, <2>1, <3>2, Numbers, WorkerIds DEF Covered, Safe, SequencesInv,
           Workers, Typed, TypeOK
      <4>2. w <= reply.cursor
        BY <3>1, <3>2, <4>1 DEF RowsAhead, Workers
      <4>3. QED
        BY <1>4, <3>2, <4>2 DEF Covered
    <3>3. CASE phase = "changed"
      <4>1. reply.base < rosterSequence[w]
        BY <2>1, Numbers, WorkerIds DEF Safe, SequencesInv
      <4>2. rosterSequence[w] <= reply.cursor
        BY <3>1, <3>3, Numbers DEF RowsAhead
      <4>3. QED
        BY <1>4, <3>3, <4>1, <4>2 DEF Covered
    <3>4. CASE phase = "legacy"
      BY <1>4, <2>1, <3>4 DEF Covered
    <3>5. QED
      BY <3>2, <3>3, <3>4 DEF Reading
  <2>2. phase' = "legacy" => reply.base # None
    BY <1>4 DEF Covered
  <2>3. QED
    BY <1>1, <1>2, <1>4, <2>1, <2>2 DEF Covered, Forgotten
<1>5. ReplyInv'
  BY <1>1, <1>2, <1>4 DEF Safe, ReplyInv, RowIsFresh
<1>6. QED
  BY <1>3, <1>5 DEF Safe

LEMMA ServerSafe ==
    ASSUME Typed, Safe, ServerNext
    PROVE  Safe'
<1>1. CASE ServeAwaitedAck
  BY <1>1, AckSafe DEF ServeAwaitedAck
<1>2. QED
  BY <1>1, AnswerIssueSafe, ReadPageSafe, LastPageSafe DEF ServerNext

\* A row is committed while the response is in hand: what it stores is either
\* newer than every purge of its worker or older than one no receipt covers.
LEMMA RowSafe ==
    ASSUME Typed, Safe, NEW row \in Rows, RevokeRow(row) \/ ApplyRow(row)
    PROVE  Safe'
<1>1. /\ row \in reply.rows
      /\ templates' = [templates EXCEPT ![row.worker] = row.template]
      /\ phase \in {"revoke", "apply"}
      /\ UNCHANGED <<rosterVars, receiptVars, phase, cache, storedReceipt, acks>>
  BY DEF RevokeRow, ApplyRow, netVars
<1>2. /\ reply'.rows = reply.rows \ {row}
      /\ reply'.seen = reply.seen
      /\ reply'.receipt = reply.receipt
      /\ reply'.base = reply.base
      /\ reply'.cursor = reply.cursor
  BY DEF RevokeRow, ApplyRow, Typed, TypeOK, Replies
<1> USE DEF rosterVars, receiptVars
<1>3. row.worker \in Ids /\ templates \in [Ids -> MaybeTemplate]
  BY WorkerIds DEF Rows, Typed, TypeOK
<1>4. /\ templates'[row.worker] = row.template
      /\ \A i \in Ids : i # row.worker => templates'[i] = templates[i]
  BY <1>1, <1>3
<1>5. RowIsFresh(row) /\ phase \in InHand
  BY <1>1 DEF Safe, ReplyInv, InHand
<1>6. SequencesInv'
  BY <1>1 DEF Safe, SequencesInv
<1>7. ASSUME NEW s \in Int, Clean(templates, s),
             s <= rosterAppliedSequence \/
                 (pendingReceipt = reply.receipt /\ s <= pendingSequence)
      PROVE  Clean(templates', s)
  <2>1. purgedAt[row.worker] <= s =>
            row.template = None \/ row.template > purgedAt[row.worker]
    <3>1. purgedAt[row.worker] \in Int /\ row.template \in Int
      BY <1>3, Numbers DEF Rows, MaybeTemplate, Templates, None
    <3>2. QED
      BY <1>5, <1>7, <3>1, Numbers DEF RowIsFresh
  <2>2. QED
    BY <1>4, <1>7, <2>1 DEF Clean, Forgotten
<1>8. AckInv'
  <2>1. Clean(templates, rosterAppliedSequence)'
    BY <1>1, <1>7, Numbers DEF Safe, AckInv, Clean, Forgotten
  <2>2. pendingReceipt \in acks => Clean(templates, pendingSequence)'
    <3>1. pendingReceipt \in acks => pendingReceipt = reply.receipt
      BY <1>5 DEF Safe, ReplyInv
    <3>2. QED
      BY <1>1, <1>7, <3>1, Numbers DEF Safe, AckInv, Clean, Forgotten
  <2>3. QED
    BY <1>1, <2>1, <2>2 DEF Safe, AckInv, Clean, Forgotten
<1>9. ASSUME Covered, pendingReceipt = reply.receipt
      PROVE  Covered'
  <2>1. ASSUME NEW w \in reply.seen, purgedAt[w] <= pendingSequence
        PROVE  Forgotten(templates', w) \/ \E other \in reply'.rows : other.worker = w
    <3>1. w \in Ids /\ purgedAt[w] \in Int /\ row.template \in Int
      BY Numbers, WorkerIds
      DEF Typed, TypeOK, Replies, Rows, MaybeTemplate, Templates, None
    <3>2. CASE w = row.worker
      BY <1>4, <1>5, <1>9, <2>1, <3>1, <3>2, Numbers DEF RowIsFresh, Forgotten
    <3>3. CASE w # row.worker
      BY <1>2, <1>4, <1>9, <2>1, <3>1, <3>3 DEF Covered, Forgotten
    <3>4. QED
      BY <3>2, <3>3
  <2>2. QED
    BY <1>1, <1>2, <1>9, <2>1 DEF Covered, Forgotten
<1>10. ReplyInv'
  BY <1>1, <1>2, <1>9 DEF Safe, ReplyInv, RowIsFresh, InHand
<1>11. QED
  BY <1>6, <1>8, <1>10 DEF Safe

LEMMA PruneSafe ==
    ASSUME Typed, Safe, NEW i \in Ids, PruneStale(i)
    PROVE  Safe'
<1> USE DEF PruneStale, rosterVars, receiptVars, netVars
<1>1. \A k \in Ids : templates'[k] = templates[k] \/ templates'[k] = None
  BY DEF Typed, TypeOK
<1>2. \A k \in Ids : Forgotten(templates, k) => Forgotten(templates', k)
  BY <1>1 DEF Forgotten
<1>3. SequencesInv' /\ AckInv'
  BY <1>2 DEF Safe, SequencesInv, AckInv, Clean, Forgotten
<1>4. Covered => Covered'
  <2>1. \A w \in reply.seen : w \in Ids
    BY WorkerIds DEF Typed, TypeOK, Replies
  <2>2. QED
    BY <1>2, <2>1 DEF Covered, Forgotten
<1>5. ReplyInv'
  BY <1>4 DEF Safe, ReplyInv, RowIsFresh
<1>6. QED
  BY <1>3, <1>5 DEF Safe

\* A response applied to the end leaves nothing its receipt covers.
LEMMA StoreSafe ==
    ASSUME Typed, Safe, StoreReceipt
    PROVE  Safe'
<1> USE DEF StoreReceipt, rosterVars, receiptVars, netVars
<1>1. phase \in InHand
  BY DEF InHand
<1>2. SequencesInv'
  BY DEF Safe, SequencesInv
<1>3. pendingReceipt = reply.receipt => Clean(templates, pendingSequence)
  <2> SUFFICES ASSUME pendingReceipt = reply.receipt, NEW i \in Ids,
                      purgedAt[i] # None, purgedAt[i] <= pendingSequence
               PROVE  Forgotten(templates, i)
    BY DEF Clean
  <2>1. Covered /\ reply.base <= rosterAppliedSequence
    BY <1>1 DEF Safe, ReplyInv
  <2>2. CASE purgedAt[i] <= reply.base
    <3>1. purgedAt[i] <= rosterAppliedSequence
      BY <2>1, <2>2, Numbers
    <3>2. QED
      BY <3>1 DEF Safe, AckInv, Clean
  <2>3. CASE reply.base < purgedAt[i] /\ i \in Workers
    <3>1. i \in reply.seen
      BY <2>1, <2>3 DEF Covered
    <3>2. QED
      BY <2>1, <3>1 DEF Covered
  <2>4. CASE reply.base < purgedAt[i] /\ i = Unknown
    <3>1. reply.base = None
      BY <2>4, Numbers DEF Safe, SequencesInv, None
    <3>2. i \notin reply.seen
      BY <2>4, WorkerIds DEF Typed, TypeOK, Replies
    <3>3. templates[i] = None
      BY <3>1, <3>2 DEF Stale
    <3>4. QED
      BY <3>3 DEF Forgotten
  <2>5. i \in Workers \/ i = Unknown
    BY DEF Ids, Workers, Unknown
  <2>6. QED
    BY <2>2, <2>3, <2>4, <2>5, Numbers
<1>4. AckInv'
  BY <1>3 DEF Safe, AckInv, Clean, Forgotten
<1>5. ReplyInv'
  BY DEF ReplyInv, InHand, Reading
<1>6. QED
  BY <1>2, <1>4, <1>5 DEF Safe

LEMMA KioskSafe ==
    ASSUME Typed, Safe, KioskNext
    PROVE  Safe'
<1> USE DEF rosterVars, receiptVars, localVars, netVars
<1>1. CASE RequestRoster
  BY <1>1, QuietSafe DEF RequestRoster, InHand, Reading
<1>2. CASE Validate
  <2>1. CASE reply.duplicate
    BY <1>2, <2>1, QuietSafe DEF Validate, InHand, Reading
  <2>2. CASE ~reply.duplicate
    <3>1. SequencesInv' /\ AckInv'
      BY <1>2, <2>2 DEF Validate, Safe, SequencesInv, AckInv, Clean, Forgotten
    <3>2. ReplyInv'
      BY <1>2, <2>2 DEF Validate, Safe, ReplyInv, InHand, RowIsFresh, Covered, Forgotten
    <3>3. QED
      BY <3>1, <3>2 DEF Safe
  <2>3. QED
    BY <2>1, <2>2
<1>3. CASE Reload
  <2>1. SequencesInv' /\ ReplyInv'
    BY <1>3 DEF Reload, Safe, SequencesInv, ReplyInv, InHand, Reading
  <2>2. AckInv'
    BY <1>3 DEF Reload, Safe, AckInv, Clean, Forgotten
  <2>3. QED
    BY <2>1, <2>2 DEF Safe
<1>4. CASE SendAck
  <2>1. SequencesInv' /\ ReplyInv'
    BY <1>4 DEF SendAck, Safe, SequencesInv, ReplyInv, InHand, Reading
  <2>2. AckInv'
    BY <1>4 DEF SendAck, Safe, AckInv, Clean, Forgotten
  <2>3. QED
    BY <2>1, <2>2 DEF Safe
<1>5. CASE RecordApplied
  BY <1>5, QuietSafe DEF RecordApplied, InHand, Reading
<1>6. CASE ForgetReceipt
  BY <1>6, QuietSafe DEF ForgetReceipt, InHand, Reading
<1>7. QED
  BY <1>1, <1>2, <1>3, <1>4, <1>5, <1>6, RowSafe, PruneSafe, StoreSafe DEF KioskNext

\* A receipt issued to nobody is fresh: nothing in hand or on its way is its.
LEMMA LateSafe ==
    ASSUME Typed, Safe, LateNext
    PROVE  Safe'
<1> USE DEF rosterVars, localVars
<1>1. CASE AnswerLateRequest
  <2> USE <1>1 DEF AnswerLateRequest
  <2>1. SequencesInv'
    BY IssueSafe DEF Safe, SequencesInv
  <2>2. CASE UNCHANGED <<pendingReceipt, pendingSequence>>
    <3>1. ReplyInv' /\ AckInv'
      BY <2>2, IssueSafe
      DEF Safe, ReplyInv, AckInv, RowIsFresh, Covered, Clean, Forgotten
    <3>2. QED
      BY <2>1, <3>1 DEF Safe
  <2>3. CASE pendingReceipt' \notin acks \cup {reply.receipt, storedReceipt}
    <3>1. ReplyInv' /\ AckInv'
      BY <2>3, IssueSafe DEF Safe, ReplyInv, AckInv, RowIsFresh, Clean, Forgotten
    <3>2. QED
      BY <2>1, <3>1 DEF Safe
  <2>4. QED
    BY <2>2, <2>3, IssueSafe
<1>2. CASE LoseLateRequest
  <2>1. SequencesInv' /\ ReplyInv' /\ AckInv'
    BY <1>2 DEF LoseLateRequest, receiptVars, Safe, SequencesInv, ReplyInv, AckInv,
                RowIsFresh, Covered, Clean, Forgotten
  <2>2. QED
    BY <2>1 DEF Safe
<1>3. ASSUME NEW id \in Receipts, ServeAck(id)
      PROVE  Safe'
  BY <1>3, AckSafe DEF ServeAck
<1>4. ASSUME NEW id \in Receipts, LoseAck(id)
      PROVE  Safe'
  BY <1>4, AckSafe DEF LoseAck
<1>5. QED
  BY <1>1, <1>2, <1>3, <1>4 DEF LateNext

LEMMA FaultSafe ==
    ASSUME Typed, Safe, Fault
    PROVE  Safe'
<1> USE DEF rosterVars, receiptVars, localVars, netVars
<1>1. CASE FailSync
  BY <1>1, QuietSafe DEF FailSync, InHand, Reading
<1>2. CASE AckTimeout
  BY <1>2, QuietSafe DEF AckTimeout, InHand, Reading
<1>3. CASE Crash
  BY <1>3, QuietSafe DEF Crash, InHand, Reading
<1>4. CASE FailReload \/ Reimage
  <2>1. /\ phase' \notin InHand \cup {"applied", "ack", "awaiting"}
        /\ UNCHANGED <<rosterVars, receiptVars, acks>>
        /\ templates' \in {templates, NoTemplates}
        /\ cache' = NoTemplates
    BY <1>4 DEF FailReload, Reimage, InHand, Reading
  <2>2. \A i \in Ids : NoTemplates[i] = None
    BY DEF NoTemplates
  <2>3. AckInv'
    BY <2>1, <2>2 DEF Safe, AckInv, Clean, Forgotten
  <2>4. SequencesInv' /\ ReplyInv'
    BY <2>1 DEF Safe, SequencesInv, ReplyInv
  <2>5. QED
    BY <2>3, <2>4 DEF Safe
<1>5. QED
  BY <1>1, <1>2, <1>3, <1>4 DEF Fault

LEMMA InitSafe ==
    ASSUME Init
    PROVE  Safe
<1>1. Typed
  BY InitType
<1>2. SequencesInv
  <2>1. \A w \in Workers : purgedAt[w] \in {None, 0} /\ w \in Ids
    BY WorkerIds DEF Init
  <2>2. \A w \in Workers : purgedAt[w] <= lastPurgeSequence
    BY <2>1 DEF Init, None
  <2>3. \A w \in Workers : faceEncoding[w] = None \/ faceEncoding[w] > purgedAt[w]
    BY <2>1 DEF Init, None
  <2>4. \A w \in Workers : purgedAt[w] <= rosterSequence[w] /\ rosterSequence[w] = 0
    BY <2>1 DEF Init, None
  <2>5. \A w \in Workers : w > created => purgedAt[w] = None
    BY <2>1 DEF Init, Workers
  <2>6. /\ rosterAppliedSequence <= counter
        /\ pendingSequence <= counter
        /\ lastPurgeSequence <= counter
        /\ purgedAt[Unknown] = 0
    BY DEF Init, None
  <2>7. QED
    BY <2>2, <2>3, <2>4, <2>5, <2>6 DEF Init, SequencesInv
<1>3. ReplyInv
  BY DEF Init, ReplyInv, InHand, Reading
<1>4. AckInv
  BY <1>1, Numbers DEF Init, AckInv, Clean, Forgotten, None, Receipts
<1>5. QED
  BY <1>2, <1>3, <1>4 DEF Safe

\* The invariant explains the certificate: everything purged at or before the
\* acknowledged sequence is forgotten, and the last purge is such a purge.
LEMMA CertificateFollows ==
    ASSUME Typed, Safe
    PROVE  CertifiedMeansForgotten
<1> SUFFICES ASSUME ~PurgePending, NEW w \in Workers
             PROVE  Forgotten(templates, w) /\ Forgotten(cache, w)
  BY DEF CertifiedMeansForgotten
<1>1. w \in Ids /\ purgedAt[w] <= lastPurgeSequence
  BY WorkerIds DEF Safe, SequencesInv
<1>2. CASE purgedAt[w] = None
  BY <1>1, <1>2, Numbers DEF Forgotten, None
<1>3. CASE purgedAt[w] # None
  <2>1. purgedAt[w] <= rosterAppliedSequence
    BY <1>1, <1>3, Numbers DEF PurgePending, None
  <2>2. QED
    BY <1>1, <1>3, <2>1 DEF Safe, AckInv, Clean
<1>4. QED
  BY <1>2, <1>3

LEMMA NextSafe ==
    ASSUME Typed, Safe, [Next]_vars
    PROVE  Typed' /\ Safe'
<1>1. Typed'
  BY NextType
<1>2. CASE Next
  BY <1>1, <1>2, PortalSafe, ServerSafe, KioskSafe, LateSafe, FaultSafe DEF Next
<1>3. CASE UNCHANGED vars
  <2>1. SequencesInv' /\ ReplyInv' /\ AckInv'
    BY <1>3 DEF vars, rosterVars, receiptVars, localVars, netVars, Safe, SequencesInv,
                ReplyInv, AckInv, RowIsFresh, Covered, Clean, Forgotten
  <2> QED
    BY <1>1, <2>1 DEF Safe
<1> QED
  BY <1>2, <1>3

\* Whenever the portal shows no pending purge for the kiosk, neither its
\* database nor its recognizer holds purged face data: for any number of
\* workers, writes, receipts, lost or repeated messages, crashes and reimages
\* (convex/kiosks.ts purge_pending, pi-kiosk/sync.py sync_workers).
THEOREM PurgeCertificate == Spec => []CertifiedMeansForgotten
<1>1. Init => IInv
  BY InitType, InitSafe DEF IInv
<1>2. IInv /\ [Next]_vars => IInv'
  BY NextSafe DEF IInv
<1>3. IInv => CertifiedMeansForgotten
  BY CertificateFollows DEF IInv
<1>4. QED
  BY <1>1, <1>2, <1>3, PTL DEF Spec

-----------------------------------------------------------------------------
(* What the kiosk acknowledged is what it holds.                           *)

\* The sequences up to which the kiosk holds the roster: every row that was not
\* written later is stored as it is now.
Held ==
    {s \in MaybeSequence : s # None =>
        \A i \in Ids : (i \in Workers => rosterSequence[i] <= s)
                           => templates[i] = Current(i)}

\* The sequence that an acknowledgement of the receipt may certify.
Promised(id) ==
    IF id = pendingReceipt THEN pendingSequence
    ELSE IF id = lastRosterReceiptId THEN rosterAppliedSequence
    ELSE None

\* The workers written after all that the response in hand may certify.
Ahead ==
    {w \in Workers : /\ rosterSequence[w] > rosterAppliedSequence
                     /\ rosterSequence[w] > Promised(reply.receipt)}

OrderInv ==
    /\ pendingReceipt # NoReceipt =>
        /\ rosterAppliedSequence <= pendingSequence
        /\ pendingReceipt # lastRosterReceiptId
    /\ \A w \in Workers : w > created => rosterSequence[w] = 0

HeldInv ==
    hasApplied =>
        /\ rosterAppliedSequence \in Held
        /\ pendingReceipt \in acks => pendingSequence \in Held

\* A response was applied to its end and is being acknowledged.
Acknowledging == {"applied", "ack", "awaiting", "acked"}

StoredInv ==
    phase \in Acknowledging =>
        /\ storedReceipt \in Receipts
        /\ Promised(storedReceipt) \in Held
        /\ pendingReceipt # storedReceipt => pendingReceipt \notin acks
        /\ phase = "acked" => storedReceipt = lastRosterReceiptId

\* How far the reading of a response has come.
Scanned ==
    /\ phase = "full" =>
        /\ reply.base = None
        /\ \A w \in Workers : w <= reply.cursor => w \in reply.seen
    /\ phase = "changed" =>
        /\ reply.base # None
        /\ reply.base <= reply.cursor /\ reply.cursor <= counter
        /\ \A w \in Workers :
              reply.base < rosterSequence[w] /\ rosterSequence[w] <= reply.cursor
                  => w \in reply.seen
    /\ phase = "legacy" => reply.base # None
    /\ phase \in {"legacy", "revoke", "apply"} =>
        \A w \in Workers :
            \/ w \in reply.seen \cup Ahead
            \/ IF reply.base = None THEN w > created
                                    ELSE rosterSequence[w] <= reply.base

\* What the response says of a worker is true, or the worker was written later
\* than anything it certifies.
RowIsTrue(row) == row.template = Current(row.worker) \/ row.worker \in Ahead

SeenIsTrue(w) ==
    \/ templates[w] = Current(w)
    \/ w \in Ahead
    \/ \E row \in reply.rows : row.worker = w

HandInv ==
    phase \in InHand =>
        /\ reply.base # None => hasApplied
        /\ \A row \in reply.rows : RowIsTrue(row)
        /\ \A w \in reply.seen : SeenIsTrue(w)
        /\ Scanned

Faithful == OrderInv /\ HeldInv /\ StoredInv /\ HandInv

\* The numbers the proofs below compare.
LEMMA CurrentNumbers ==
    ASSUME Typed, Safe
    PROVE  /\ counter \in Nat /\ counter + 1 > counter
           /\ rosterAppliedSequence \in Int /\ rosterAppliedSequence <= counter
           /\ pendingSequence \in Int /\ pendingSequence <= counter
           /\ \A id : /\ Promised(id) \in MaybeSequence /\ Promised(id) \in Int
                      /\ Promised(id) <= counter
           /\ reply.base \in Int /\ reply.cursor \in Int
           /\ \A w \in Workers : rosterSequence[w] \in Nat /\ rosterSequence[w] <= counter
           /\ MaybeSequence \subseteq Int
<1>1. /\ None \in MaybeSequence /\ None \in Int /\ MaybeSequence \subseteq Int
      /\ rosterAppliedSequence \in MaybeSequence /\ pendingSequence \in MaybeSequence
  BY ConstantsAssumption DEF Typed, TypeOK, MaybeSequence, None
<1>2. counter \in Nat /\ None <= counter
  BY Numbers DEF None
<1>3. rosterAppliedSequence <= counter /\ pendingSequence <= counter
  BY DEF Safe, SequencesInv
<1>4. \A id : Promised(id) \in {pendingSequence, rosterAppliedSequence, None}
  BY DEF Promised
<1>5. \A id : Promised(id) \in MaybeSequence /\ Promised(id) \in Int /\ Promised(id) <= counter
  BY <1>1, <1>2, <1>3, <1>4
<1>6. reply.base \in Int /\ reply.cursor \in Int
  <2>1. reply.base \in MaybeSequence /\ reply.cursor \in (0..MaxSequence) \cup Ids
    BY DEF Typed, TypeOK, Replies
  <2>2. (0..MaxSequence) \cup Ids \subseteq Int
    BY DEF Ids
  <2> QED
    BY <1>1, <2>1, <2>2
<1>7. \A w \in Workers : rosterSequence[w] \in Nat /\ rosterSequence[w] <= counter
  BY Numbers DEF Safe, SequencesInv
<1> QED
  BY <1>1, <1>2, <1>3, <1>5, <1>6, <1>7

\* A write is ahead of all that was promised, and changes no other row.
LEMMA WriteFaithful ==
    ASSUME Typed, Safe, Faithful,
           NEW w \in Workers, NEW a \in BOOLEAN, NEW purge \in BOOLEAN, NEW t,
           writeRosterWorker(w, a, t, purge), WorkerWrite,
           created' = created \/ (w = created + 1 /\ created' = w),
           w <= created'
    PROVE  Faithful'
<1>1. /\ counter' = counter + 1
      /\ rosterSequence'[w] = counter + 1
      /\ \A v \in Workers : v # w => /\ rosterSequence'[v] = rosterSequence[v]
                                     /\ active'[v] = active[v]
                                     /\ faceEncoding'[v] = faceEncoding[v]
      /\ UNCHANGED <<receiptVars, phase, reply, localVars, netVars>>
  BY DEF writeRosterWorker, WorkerWrite, Typed, TypeOK
<1> USE DEF receiptVars, localVars, netVars
<1>2. created \in Nat /\ w \in Nat /\ created <= created' /\ created' \in Nat
  BY ConstantsAssumption DEF Typed, TypeOK, Workers
<1>3. \A i \in Ids : i # w => Current(i)' = Current(i)
  <2> SUFFICES ASSUME NEW i \in Ids, i # w
               PROVE  Current(i)' = Current(i)
    OBVIOUS
  <2>1. i \in Nat /\ (i # Unknown => i \in Workers)
    BY ConstantsAssumption DEF Ids, Workers, Unknown
  <2>2. i > created' <=> i > created
    BY <1>2, <2>1
  <2>3. CASE i = Unknown \/ i > created
    BY <2>2, <2>3 DEF Current
  <2>4. CASE ~(i = Unknown \/ i > created)
    BY <1>1, <2>1, <2>2, <2>4 DEF Current, Row
  <2> QED
    BY <2>3, <2>4
<1>4. \A s \in Held : s <= counter => s \in Held'
  <2> SUFFICES ASSUME NEW s \in Held, s <= counter, s # None, NEW i \in Ids,
                      i \in Workers => rosterSequence'[i] <= s
               PROVE  templates'[i] = Current(i)'
    BY DEF Held
  <2>1. s \in Int
    BY CurrentNumbers DEF Held
  <2>2. i # w
    BY <1>1, <2>1, CurrentNumbers
  <2>3. i \in Workers => rosterSequence[i] <= s
    BY <1>1, <2>2
  <2>4. templates[i] = Current(i)
    BY <2>3 DEF Held
  <2> QED
    BY <1>1, <1>3, <2>2, <2>4
<1>5. Promised(reply.receipt)' = Promised(reply.receipt)
      /\ Promised(storedReceipt)' = Promised(storedReceipt)
  BY <1>1 DEF Promised
<1>6. \A v \in Workers : v \in Ahead' <=> v = w \/ v \in Ahead
  <2>1. w \in Ahead'
    <3>1. counter + 1 > rosterAppliedSequence /\ counter + 1 > Promised(reply.receipt)
      BY CurrentNumbers
    <3> QED
      BY <1>1, <1>5, <3>1 DEF Ahead
  <2>2. ASSUME NEW v \in Workers, v # w
        PROVE  v \in Ahead' <=> v \in Ahead
    BY <1>1, <1>5, <2>2 DEF Ahead
  <2> QED
    BY <2>1, <2>2
<1>7. OrderInv'
  <2>1. \A v \in Workers : v > created' => v # w /\ v > created
    BY <1>2 DEF Workers
  <2> QED
    BY <1>1, <2>1 DEF Faithful, OrderInv
<1>8. HeldInv'
  BY <1>1, <1>4, CurrentNumbers DEF Faithful, HeldInv
<1>9. StoredInv'
  BY <1>1, <1>4, <1>5, CurrentNumbers DEF Faithful, StoredInv
<1>10. HandInv'
  <2> SUFFICES ASSUME phase \in InHand
               PROVE  HandInv'
    BY <1>1 DEF HandInv
  <2>1. HandInv
    BY DEF Faithful
  <2>2. ASSUME NEW row \in reply.rows
        PROVE  RowIsTrue(row)'
    <3>1. row.worker \in Workers /\ row.worker \in Ids
      BY WorkerIds DEF Typed, TypeOK, Replies, Rows
    <3> QED
      BY <1>3, <1>6, <2>1, <3>1 DEF HandInv, RowIsTrue
  <2>3. ASSUME NEW v \in reply.seen
        PROVE  SeenIsTrue(v)'
    <3>1. v \in Workers /\ v \in Ids
      BY WorkerIds DEF Typed, TypeOK, Replies
    <3> QED
      BY <1>1, <1>3, <1>6, <2>1, <3>1 DEF HandInv, SeenIsTrue
  <2>4. Scanned'
    <3>1. Scanned
      BY <2>1 DEF HandInv
    <3>2. reply.cursor <= counter => reply.cursor <= counter' /\ ~(counter + 1 <= reply.cursor)
      BY <1>1, CurrentNumbers
    <3>3. \A v \in Workers : v > created' \/ v = w \/ ~(v > created)
      BY <1>2 DEF Workers
    <3>4. ASSUME phase = "changed"
          PROVE  /\ reply.base <= reply.cursor /\ reply.cursor <= counter'
                 /\ \A v \in Workers :
                      reply.base < rosterSequence'[v] /\ rosterSequence'[v] <= reply.cursor
                          => v \in reply.seen
      BY <1>1, <3>1, <3>2, <3>4 DEF Scanned
    <3>5. ASSUME phase \in {"legacy", "revoke", "apply"}, NEW v \in Workers
          PROVE  \/ v \in reply.seen \cup Ahead'
                 \/ IF reply.base = None THEN v > created'
                                         ELSE rosterSequence'[v] <= reply.base
      <4>1. CASE v = w
        BY <1>6, <4>1
      <4>2. CASE v # w
        BY <1>1, <1>6, <3>1, <3>3, <3>5, <4>2 DEF Scanned
      <4> QED
        BY <4>1, <4>2
    <3> QED
      BY <1>1, <3>1, <3>4, <3>5 DEF Scanned
  <2> QED
    BY <1>1, <2>1, <2>2, <2>3, <2>4 DEF HandInv
<1> QED
  BY <1>7, <1>8, <1>9, <1>10 DEF Faithful

LEMMA PortalFaithful ==
    ASSUME Typed, Safe, Faithful, PortalNext
    PROVE  Faithful'
<1>1. PICK w \in Workers : \/ CreateWorker(w) \/ RestoreWorker(w) \/ UpdateWorker(w)
                           \/ RemoveWorker(w) \/ PurgeBiometrics(w)
                           \/ BackfillRosterSequences(w)
  BY DEF PortalNext
<1>2. active[w] => w <= created
  BY DEF Safe, SequencesInv
<1>3. w <= w /\ active[w] \in BOOLEAN
  BY DEF Workers, Typed, TypeOK
<1>4. CASE CreateWorker(w)
  BY <1>3, <1>4, WriteFaithful DEF CreateWorker
<1>5. CASE RestoreWorker(w)
  BY <1>5, WriteFaithful DEF RestoreWorker
<1>6. CASE UpdateWorker(w)
  BY <1>2, <1>6, WriteFaithful DEF UpdateWorker
<1>7. CASE RemoveWorker(w)
  BY <1>2, <1>7, WriteFaithful DEF RemoveWorker
<1>8. CASE PurgeBiometrics(w)
  BY <1>8, WriteFaithful DEF PurgeBiometrics
<1>9. CASE BackfillRosterSequences(w)
  BY <1>3, <1>9, WriteFaithful DEF BackfillRosterSequences
<1> QED
  BY <1>1, <1>4, <1>5, <1>6, <1>7, <1>8, <1>9

\* While the rosters and the kiosk's rows stay, so does what the kiosk holds.
LEMMA HeldStays ==
    ASSUME UNCHANGED <<rosterVars, templates>>
    PROVE  Held' = Held /\ \A i \in Ids : Current(i)' = Current(i)
<1>1. \A i \in Ids : Current(i)' = Current(i)
  BY DEF Current, Row, rosterVars
<1> QED
  BY <1>1 DEF Held, rosterVars

\* Steps that end with no response in hand and none being acknowledged.
LEMMA QuietFaithful ==
    ASSUME Faithful, UNCHANGED <<rosterVars, receiptVars, templates, hasApplied>>,
           acks' \subseteq acks, phase' \notin InHand \cup Acknowledging
    PROVE  Faithful'
<1>1. OrderInv' /\ HeldInv'
  BY HeldStays DEF Faithful, OrderInv, HeldInv, rosterVars, receiptVars
<1>2. StoredInv' /\ HandInv'
  BY DEF StoredInv, HandInv, Acknowledging
<1> QED
  BY <1>1, <1>2 DEF Faithful

\* Steps that touch neither the response in hand nor the receipts.
LEMMA SameFaithful ==
    ASSUME Typed, Faithful,
           UNCHANGED <<rosterVars, receiptVars, templates, hasApplied, storedReceipt, reply>>,
           acks' \subseteq acks, phase' = phase
    PROVE  Faithful'
<1>1. OrderInv' /\ HeldInv'
  BY HeldStays DEF Faithful, OrderInv, HeldInv, rosterVars, receiptVars
<1>2. StoredInv'
  BY HeldStays DEF Faithful, StoredInv, Promised, receiptVars
<1>3. Ahead' = Ahead
  BY DEF Ahead, Promised, receiptVars, rosterVars
<1>4. /\ \A row \in reply.rows : RowIsTrue(row) => RowIsTrue(row)'
      /\ \A w \in reply.seen : SeenIsTrue(w) => SeenIsTrue(w)'
  <2>1. \A row \in reply.rows : row.worker \in Ids
    BY WorkerIds DEF Typed, TypeOK, Replies, Rows
  <2>2. \A w \in reply.seen : w \in Ids
    BY WorkerIds DEF Typed, TypeOK, Replies
  <2> QED
    BY <1>3, <2>1, <2>2, HeldStays DEF RowIsTrue, SeenIsTrue
<1>5. Scanned => Scanned'
  BY <1>3 DEF Scanned, rosterVars
<1>6. HandInv'
  BY <1>4, <1>5 DEF Faithful, HandInv
<1> QED
  BY <1>1, <1>2, <1>6 DEF Faithful

\* A new receipt is nobody's, and promises no less than what was acknowledged.
LEMMA IssueFaithful ==
    ASSUME Typed, Safe, Faithful, issueRosterReceipt
    PROVE  /\ UNCHANGED <<rosterAppliedSequence, lastRosterReceiptId>>
           /\ pendingReceipt' # lastRosterReceiptId
           /\ rosterAppliedSequence <= pendingSequence'
           /\ \/ UNCHANGED <<pendingReceipt, pendingSequence>>
              \/ /\ pendingReceipt = NoReceipt
                 /\ pendingReceipt' \notin acks \cup {reply.receipt, storedReceipt}
  BY CurrentNumbers
  DEF issueRosterReceipt, IssuedSequence, FreshReceipt, ReceiptsInUse, Faithful,
      OrderInv

LEMMA AnswerIssueFaithful ==
    ASSUME Typed, Safe, Faithful, AnswerIssue
    PROVE  Faithful'
<1> USE DEF AnswerIssue, rosterVars, localVars, netVars
<1> DEFINE base == IF ForceFull THEN None ELSE Since
<1>1. /\ reply'.receipt = pendingReceipt'
      /\ reply'.base = base
      /\ reply'.cursor = IF base = None THEN 0 ELSE base
      /\ reply'.rows = {} /\ reply'.seen = {}
      /\ phase' = IF base = None THEN "full" ELSE "changed"
      /\ UNCHANGED <<rosterVars, localVars, netVars>>
  BY DEF EmptyReply
<1>2. issueRosterReceipt
  OBVIOUS
<1>3. OrderInv'
  BY <1>1, <1>2, IssueFaithful DEF Faithful, OrderInv
<1>4. HeldInv'
  BY <1>1, <1>2, IssueFaithful, HeldStays DEF Faithful, HeldInv
<1>5. base # None => /\ hasApplied
                     /\ base = rosterAppliedSequence /\ base <= counter
  BY CurrentNumbers DEF ForceFull, Since
<1> HIDE DEF base
<1>6. Scanned'
  <2>1. \A w \in Workers : ~(w <= 0)
    BY DEF Workers
  <2>2. base # None => base \in Int
    BY <1>5, CurrentNumbers
  <2>3. base # None =>
           \A w \in Workers : ~(base < rosterSequence[w] /\ rosterSequence[w] <= base)
    BY <2>2, CurrentNumbers
  <2>4. CASE base = None
    BY <1>1, <2>1, <2>4 DEF Scanned
  <2>5. CASE base # None
    <3>1. base <= base
      BY <2>2, <2>5
    <3> QED
      BY <1>1, <1>5, <2>3, <2>5, <3>1 DEF Scanned
  <2> QED
    BY <2>4, <2>5
<1>7. HandInv'
  BY <1>1, <1>5, <1>6 DEF HandInv
<1>8. StoredInv'
  BY <1>1 DEF StoredInv, Acknowledging
<1> QED
  BY <1>3, <1>4, <1>7, <1>8 DEF Faithful

\* A row is read as it is, and none is passed over.
LEMMA ReadPageFaithful ==
    ASSUME Typed, Safe, Faithful, NEW w \in Workers, ReadPage(w)
    PROVE  Faithful'
<1>1. /\ phase \in Reading /\ w \in RowsAhead
      /\ \A other \in RowsAhead : Key(w) <= Key(other)
      /\ UNCHANGED <<rosterVars, receiptVars, phase, localVars, netVars>>
  BY DEF ReadPage
<1>2. /\ reply'.rows = reply.rows \cup {Row(w)}
      /\ reply'.seen = reply.seen \cup {w}
      /\ reply'.cursor = Key(w)
      /\ reply'.receipt = reply.receipt
      /\ reply'.base = reply.base
  BY DEF ReadPage, Typed, TypeOK, Replies
<1> USE DEF rosterVars, receiptVars, localVars, netVars
<1>3. phase \in InHand /\ phase \notin Acknowledging
  BY <1>1 DEF InHand, Reading, Acknowledging
<1>4. HandInv /\ OrderInv /\ Scanned
  BY <1>3 DEF Faithful, HandInv
<1>5. w <= created /\ w \in Nat /\ created \in Nat /\ w # Unknown
  <2>1. w \in Nat /\ created \in Nat /\ w # Unknown
    BY DEF Workers, Unknown, Typed, TypeOK
  <2>2. CASE phase = "changed"
    <3>1. rosterSequence[w] > reply.cursor
      BY <1>1, <2>2 DEF RowsAhead
    <3>2. reply.base # None /\ reply.base <= reply.cursor
      BY <1>4, <2>2 DEF Scanned
    <3>3. reply.base \in MaybeSequence
      BY DEF Typed, TypeOK, Replies
    <3>4. rosterSequence[w] # 0
      BY <3>1, <3>2, <3>3, CurrentNumbers DEF MaybeSequence
    <3> QED
      BY <1>4, <2>1, <3>4 DEF OrderInv
  <2>3. CASE phase # "changed"
    <3>1. CASE phase = "full"
      BY <1>1, <2>1, <3>1 DEF RowsAhead
    <3>2. CASE phase = "legacy"
      BY <1>1, <2>1, <3>2 DEF RowsAhead
    <3> QED
      BY <1>1, <2>3, <3>1, <3>2 DEF Reading
  <2> QED
    BY <2>1, <2>2, <2>3
<1>6. Row(w).worker = w /\ Row(w).template = Current(w)
  BY <1>5 DEF Row, Current
<1>7. Ahead' = Ahead /\ \A i \in Ids : Current(i)' = Current(i)
  BY <1>1, <1>2, HeldStays DEF Ahead, Promised
<1>8. ASSUME NEW row \in reply'.rows
      PROVE  RowIsTrue(row)'
  <2>1. CASE row \in reply.rows
    <3>1. row.worker \in Ids
      BY <2>1, WorkerIds DEF Typed, TypeOK, Replies, Rows
    <3> QED
      BY <1>3, <1>4, <1>7, <2>1, <3>1 DEF HandInv, RowIsTrue
  <2>2. CASE row = Row(w)
    BY <1>6, <1>7, <2>2, WorkerIds DEF RowIsTrue
  <2> QED
    BY <1>2, <2>1, <2>2
<1>9. ASSUME NEW v \in reply'.seen
      PROVE  SeenIsTrue(v)'
  <2>1. CASE v = w
    BY <1>2, <1>6, <2>1 DEF SeenIsTrue
  <2>2. CASE v \in reply.seen
    <3>1. v \in Ids
      BY <2>2, WorkerIds DEF Typed, TypeOK, Replies
    <3> QED
      BY <1>1, <1>2, <1>3, <1>4, <1>7, <2>2, <3>1 DEF HandInv, SeenIsTrue
  <2> QED
    BY <1>2, <2>1, <2>2
<1>10. Scanned'
  <2>1. ASSUME phase = "full"
        PROVE  \A v \in Workers : v <= reply'.cursor => v \in reply'.seen
    <3> SUFFICES ASSUME NEW v \in Workers, v <= w
                 PROVE  v \in reply'.seen
      BY <1>2, <2>1 DEF Key
    <3>1. CASE v <= reply.cursor
      BY <1>2, <1>4, <2>1, <3>1 DEF Scanned
    <3>2. CASE v > reply.cursor
      <4>1. v <= created
        BY <1>5 DEF Workers
      <4>2. v \in RowsAhead
        BY <2>1, <3>2, <4>1 DEF RowsAhead
      <4>3. w <= v
        BY <1>1, <2>1, <4>2 DEF Key
      <4> QED
        BY <1>2, <4>3 DEF Workers
    <3> QED
      BY <3>1, <3>2, CurrentNumbers DEF Workers
  <2>2. ASSUME phase = "changed"
        PROVE  /\ reply.base <= reply'.cursor /\ reply'.cursor <= counter
               /\ \A v \in Workers :
                    reply.base < rosterSequence[v] /\ rosterSequence[v] <= reply'.cursor
                        => v \in reply'.seen
    <3>1. /\ reply'.cursor = rosterSequence[w]
          /\ rosterSequence[w] > reply.cursor
          /\ reply.base # None /\ reply.base <= reply.cursor
      BY <1>1, <1>2, <1>4, <2>2 DEF Key, RowsAhead, Scanned
    <3>2. reply.base >= 0
      <4>1. reply.base \in MaybeSequence
        BY DEF Typed, TypeOK, Replies
      <4> QED
        BY <3>1, <4>1 DEF MaybeSequence
    <3>3. ASSUME NEW v \in Workers,
                 reply.base < rosterSequence[v], rosterSequence[v] <= rosterSequence[w]
          PROVE  v \in reply'.seen
      <4>1. CASE rosterSequence[v] <= reply.cursor
        BY <1>2, <1>4, <2>2, <3>3, <4>1 DEF Scanned
      <4>2. CASE rosterSequence[v] > reply.cursor
        <5>1. v \in RowsAhead
          BY <2>2, <4>2 DEF RowsAhead
        <5>2. rosterSequence[w] <= rosterSequence[v]
          BY <1>1, <2>2, <5>1 DEF Key
        <5>3. rosterSequence[w] = rosterSequence[v] /\ rosterSequence[v] # 0
          BY <3>2, <3>3, <5>2, CurrentNumbers
        <5>4. v = w
          BY <5>3 DEF Safe, SequencesInv
        <5> QED
          BY <1>2, <5>4
      <4> QED
        BY <4>1, <4>2, CurrentNumbers
    <3> QED
      BY <3>1, <3>3, CurrentNumbers
  <2> QED
    <3>1. CASE phase = "full"
      BY <1>1, <1>2, <1>4, <2>1, <3>1 DEF Scanned
    <3>2. CASE phase = "changed"
      BY <1>1, <1>2, <1>4, <2>2, <3>2 DEF Scanned
    <3>3. CASE phase = "legacy"
      <4>1. /\ reply'.base # None
            /\ \A v \in Workers :
                  \/ v \in reply'.seen \cup Ahead'
                  \/ IF reply'.base = None THEN v > created'
                                           ELSE rosterSequence'[v] <= reply'.base
        BY <1>1, <1>2, <1>4, <1>7, <3>3 DEF Scanned
      <4> QED
        BY <1>1, <3>3, <4>1 DEF Scanned
    <3> QED
      BY <1>1, <3>1, <3>2, <3>3 DEF Reading
<1>11. HandInv'
  BY <1>1, <1>2, <1>3, <1>4, <1>8, <1>9, <1>10 DEF HandInv
<1>12. OrderInv' /\ HeldInv'
  BY <1>1, HeldStays DEF Faithful, OrderInv, HeldInv
<1>13. StoredInv'
  BY <1>1, <1>3 DEF StoredInv
<1> QED
  BY <1>11, <1>12, <1>13 DEF Faithful

LEMMA LastPageFaithful ==
    ASSUME Typed, Safe, Faithful, LastPage
    PROVE  Faithful'
<1>1. /\ phase \in Reading /\ RowsAhead = {}
      /\ phase' = IF phase = "changed" THEN "legacy" ELSE "revoke"
      /\ UNCHANGED <<rosterVars, receiptVars, localVars, netVars>>
  BY DEF LastPage
<1>2. /\ reply'.rows = reply.rows /\ reply'.seen = reply.seen
      /\ reply'.receipt = reply.receipt /\ reply'.base = reply.base
  BY DEF LastPage, Typed, TypeOK, Replies
<1> USE DEF rosterVars, receiptVars, localVars, netVars
<1>3. phase \in InHand /\ phase' \in {"legacy", "revoke"}
  BY <1>1 DEF InHand
<1>4. HandInv /\ Scanned
  BY <1>3 DEF Faithful, HandInv
<1>5. Ahead' = Ahead /\ \A i \in Ids : Current(i)' = Current(i)
  BY <1>1, <1>2, HeldStays DEF Ahead, Promised
<1>6. ASSUME NEW w \in Workers
      PROVE  \/ w \in reply.seen \cup Ahead
             \/ IF reply.base = None THEN w > created
                                     ELSE rosterSequence[w] <= reply.base
  <2>1. w \in Nat /\ created \in Nat
    BY DEF Workers, Typed, TypeOK
  <2>2. CASE phase = "full"
    <3>1. w <= created => w <= reply.cursor
      BY <1>1, <2>1, <2>2, CurrentNumbers DEF RowsAhead
    <3> QED
      BY <1>4, <2>1, <2>2, <3>1 DEF Scanned
  <2>3. CASE phase = "changed"
    <3>1. rosterSequence[w] <= reply.cursor
      BY <1>1, <2>3, CurrentNumbers DEF RowsAhead
    <3> QED
      BY <1>4, <2>3, <3>1, CurrentNumbers DEF Scanned
  <2>4. CASE phase = "legacy"
    BY <1>4, <2>4 DEF Scanned
  <2> QED
    BY <1>1, <2>2, <2>3, <2>4 DEF Reading
<1>7. Scanned'
  BY <1>1, <1>2, <1>3, <1>4, <1>5, <1>6 DEF Scanned
<1>8. /\ \A row \in reply'.rows : RowIsTrue(row)'
      /\ \A w \in reply'.seen : SeenIsTrue(w)'
  <2>1. \A row \in reply.rows : row.worker \in Ids
    BY WorkerIds DEF Typed, TypeOK, Replies, Rows
  <2>2. \A w \in reply.seen : w \in Ids
    BY WorkerIds DEF Typed, TypeOK, Replies
  <2> QED
    BY <1>1, <1>2, <1>3, <1>4, <1>5, <2>1, <2>2 DEF HandInv, RowIsTrue, SeenIsTrue
<1>9. HandInv'
  BY <1>1, <1>2, <1>3, <1>4, <1>7, <1>8 DEF HandInv
<1>10. OrderInv' /\ HeldInv'
  BY <1>1, HeldStays DEF Faithful, OrderInv, HeldInv
<1>11. StoredInv'
  BY <1>3 DEF StoredInv, Acknowledging
<1> QED
  BY <1>9, <1>10, <1>11 DEF Faithful

\* An acknowledgement certifies what the kiosk holds, whoever waits for it.
LEMMA ServeFaithful ==
    ASSUME Typed, Safe, Faithful, NEW id \in acks,
           acknowledgeRosterReceipt(id) \/ UNCHANGED receiptVars,
           acks' \subseteq acks, UNCHANGED <<rosterVars, reply, localVars>>,
           \/ phase' = phase
           \/ phase' = "idle"
           \/ /\ phase' = "acked" /\ phase = "awaiting" /\ id = storedReceipt
              /\ acknowledgeRosterReceipt(id)
    PROVE  Faithful'
<1> USE DEF localVars
<1>1. id \in Receipts /\ NoReceipt \notin Receipts
  BY DEF Typed, TypeOK, Receipts, NoReceipt
<1>2. OrderInv /\ HeldInv /\ StoredInv /\ HandInv
  BY DEF Faithful
<1>3. Held' = Held /\ \A i \in Ids : Current(i)' = Current(i)
  BY HeldStays
<1>4. CASE UNCHANGED receiptVars
  <2> USE <1>4
  <2>1. CASE phase' = phase
    BY <2>1, SameFaithful
  <2>2. CASE phase' = "idle"
    BY <2>2, QuietFaithful DEF InHand, Reading, Acknowledging
  <2>3. CASE phase' = "acked" /\ phase = "awaiting" /\ id = storedReceipt
             /\ acknowledgeRosterReceipt(id)
    <3>1. OrderInv' /\ HeldInv'
      BY <1>2, <1>3 DEF OrderInv, HeldInv, rosterVars, receiptVars
    <3>2. HandInv'
      BY <2>3 DEF HandInv, InHand, Reading
    <3>3. storedReceipt = lastRosterReceiptId
      <4>1. id = lastRosterReceiptId \/ (id # lastRosterReceiptId /\ lastRosterReceiptId' = id)
        BY <2>3 DEF acknowledgeRosterReceipt
      <4> QED
        BY <2>3, <4>1 DEF receiptVars
    <3>4. StoredInv'
      BY <1>2, <1>3, <2>3, <3>3
      DEF StoredInv, Acknowledging, Promised, receiptVars
    <3> QED
      BY <3>1, <3>2, <3>4 DEF Faithful
  <2> QED
    BY <2>1, <2>2, <2>3
<1>5. CASE /\ id = pendingReceipt /\ rosterAppliedSequence' = AckedSequence
           /\ lastRosterReceiptId' = id /\ SettlePending
  <2>1. pendingReceipt \in acks /\ pendingReceipt # NoReceipt
    BY <1>1, <1>5
  <2>2. rosterAppliedSequence' = pendingSequence
    <3>1. rosterAppliedSequence <= pendingSequence
      BY <1>2, <2>1 DEF OrderInv
    <3> QED
      BY <1>5, <3>1, CurrentNumbers DEF AckedSequence, Larger
  <2>3. pendingReceipt' = NoReceipt /\ pendingSequence' = None /\ NoReceipt \notin acks'
    BY <1>5 DEF SettlePending, Typed, TypeOK, Receipts, NoReceipt
  <2>4. OrderInv'
    BY <1>2, <2>3 DEF OrderInv, rosterVars
  <2>5. HeldInv'
    BY <1>2, <1>3, <2>1, <2>2, <2>3 DEF HeldInv
  <2>6. StoredInv'
    <3> SUFFICES ASSUME phase' \in Acknowledging
                 PROVE  StoredInv'
      BY DEF StoredInv
    <3>1. phase \in Acknowledging
      BY DEF Acknowledging
    <3>2. storedReceipt = pendingReceipt
      BY <1>2, <2>1, <3>1 DEF StoredInv
    <3>3. Promised(storedReceipt)' = pendingSequence /\ Promised(storedReceipt) = pendingSequence
      BY <1>1, <1>5, <2>2, <2>3, <3>2 DEF Promised
    <3> QED
      BY <1>1, <1>2, <1>3, <1>5, <2>3, <3>1, <3>2, <3>3 DEF StoredInv
  <2>7. HandInv'
    <3> SUFFICES ASSUME phase' \in InHand
                 PROVE  HandInv'
      BY DEF HandInv
    <3>1. phase' = phase /\ phase \in InHand
      BY DEF InHand, Reading
    <3>2. reply.receipt = pendingReceipt
      BY <2>1, <3>1 DEF Safe, ReplyInv
    <3>3. Promised(reply.receipt)' = pendingSequence /\ Promised(reply.receipt) = pendingSequence
      BY <1>1, <1>5, <2>2, <2>3, <3>2 DEF Promised
    <3>4. \A w \in Workers : w \in Ahead => w \in Ahead'
      BY <2>2, <3>3 DEF Ahead, rosterVars
    <3>5. Scanned'
      BY <1>2, <3>1, <3>4 DEF HandInv, Scanned, rosterVars
    <3>6. \A row \in reply.rows : row.worker \in Workers /\ row.worker \in Ids
      BY WorkerIds DEF Typed, TypeOK, Replies, Rows
    <3>7. \A w \in reply.seen : w \in Workers /\ w \in Ids
      BY WorkerIds DEF Typed, TypeOK, Replies
    <3>8. /\ \A row \in reply.rows : RowIsTrue(row)'
          /\ \A w \in reply.seen : SeenIsTrue(w)'
      BY <1>2, <1>3, <3>1, <3>4, <3>6, <3>7 DEF HandInv, RowIsTrue, SeenIsTrue
    <3> QED
      BY <1>2, <3>1, <3>5, <3>8 DEF HandInv
  <2> QED
    BY <2>4, <2>5, <2>6, <2>7 DEF Faithful
<1> QED
  BY <1>4, <1>5 DEF acknowledgeRosterReceipt

\* A row that is committed is true, or its worker was written since.
LEMMA RowFaithful ==
    ASSUME Typed, Safe, Faithful, NEW row \in Rows, RevokeRow(row) \/ ApplyRow(row)
    PROVE  Faithful'
<1>1. /\ row \in reply.rows
      /\ templates' = [templates EXCEPT ![row.worker] = row.template]
      /\ phase \in {"revoke", "apply"}
      /\ UNCHANGED <<rosterVars, receiptVars, phase, hasApplied, storedReceipt, acks>>
  BY DEF RevokeRow, ApplyRow, netVars
<1>2. /\ reply'.rows = reply.rows \ {row}
      /\ reply'.seen = reply.seen
      /\ reply'.receipt = reply.receipt
      /\ reply'.base = reply.base
      /\ reply'.cursor = reply.cursor
  BY DEF RevokeRow, ApplyRow, Typed, TypeOK, Replies
<1>3. /\ row.worker \in Workers /\ row.worker \in Ids
      /\ templates'[row.worker] = row.template
      /\ \A i \in Ids : i # row.worker => templates'[i] = templates[i]
  BY <1>1, WorkerIds DEF Rows, Typed, TypeOK
<1>4. phase \in InHand /\ phase \notin Acknowledging
  BY <1>1 DEF InHand, Reading, Acknowledging
<1>5. HandInv /\ HeldInv /\ OrderInv /\ RowIsTrue(row) /\ Scanned
  BY <1>1, <1>4 DEF Faithful, HandInv
<1>6. \A i \in Ids : Current(i)' = Current(i)
  BY <1>1 DEF Current, Row, rosterVars
<1>7. Ahead' = Ahead
  BY <1>1, <1>2 DEF Ahead, Promised, rosterVars, receiptVars
<1>8. ASSUME NEW s \in Held,
             s <= rosterAppliedSequence \/ s <= Promised(reply.receipt)
      PROVE  s \in Held'
  <2> SUFFICES ASSUME s # None, NEW i \in Ids, i \in Workers => rosterSequence[i] <= s
               PROVE  templates'[i] = Current(i)
    BY <1>1, <1>6 DEF Held, rosterVars
  <2>1. CASE i = row.worker
    <3>1. s \in Int
      BY CurrentNumbers DEF Held
    <3>2. i \notin Ahead
      BY <1>3, <1>8, <2>1, <3>1, CurrentNumbers DEF Ahead
    <3> QED
      BY <1>3, <1>5, <2>1, <3>2 DEF RowIsTrue
  <2>2. CASE i # row.worker
    BY <1>3, <2>2 DEF Held
  <2> QED
    BY <2>1, <2>2
<1>9. HeldInv'
  <2> SUFFICES ASSUME hasApplied
               PROVE  /\ rosterAppliedSequence \in Held'
                      /\ pendingReceipt \in acks => pendingSequence \in Held'
    BY <1>1 DEF HeldInv, receiptVars
  <2>1. rosterAppliedSequence \in Held'
    BY <1>5, <1>8, CurrentNumbers DEF HeldInv
  <2>2. ASSUME pendingReceipt \in acks
        PROVE  pendingSequence \in Held'
    <3>1. pendingReceipt = reply.receipt
      BY <1>4, <2>2 DEF Safe, ReplyInv
    <3>2. pendingSequence <= Promised(reply.receipt)
      BY <3>1, CurrentNumbers DEF Promised
    <3> QED
      BY <1>5, <1>8, <2>2, <3>2 DEF HeldInv
  <2> QED
    BY <2>1, <2>2
<1>10. \A other \in reply'.rows : RowIsTrue(other)'
  <2>1. \A other \in reply.rows : other.worker \in Ids
    BY WorkerIds DEF Typed, TypeOK, Replies, Rows
  <2> QED
    BY <1>2, <1>4, <1>5, <1>6, <1>7, <2>1 DEF HandInv, RowIsTrue
<1>11. ASSUME NEW w \in reply.seen
       PROVE  SeenIsTrue(w)'
  <2>1. w \in Ids
    BY WorkerIds DEF Typed, TypeOK, Replies
  <2>2. CASE w = row.worker
    BY <1>3, <1>5, <1>6, <1>7, <2>1, <2>2 DEF RowIsTrue, SeenIsTrue
  <2>3. CASE w # row.worker
    <3>1. SeenIsTrue(w)
      BY <1>4, <1>5 DEF HandInv
    <3> QED
      BY <1>2, <1>3, <1>6, <1>7, <2>1, <2>3, <3>1 DEF SeenIsTrue
  <2> QED
    BY <2>2, <2>3
<1>12. Scanned'
  BY <1>1, <1>2, <1>5, <1>7 DEF Scanned, rosterVars
<1>13. HandInv'
  BY <1>1, <1>2, <1>4, <1>5, <1>10, <1>11, <1>12 DEF HandInv
<1>14. OrderInv' /\ StoredInv'
  BY <1>1, <1>4, <1>5 DEF OrderInv, StoredInv, rosterVars, receiptVars
<1> QED
  BY <1>9, <1>13, <1>14 DEF Faithful

\* Who a full roster does not contain is nobody, or was written since.
LEMMA PruneFaithful ==
    ASSUME Typed, Safe, Faithful, NEW i \in Ids, PruneStale(i)
    PROVE  Faithful'
<1>1. /\ phase = "apply" /\ reply.rows = {} /\ i \in Stale
      /\ templates' = [templates EXCEPT ![i] = None]
      /\ UNCHANGED <<rosterVars, receiptVars, phase, reply, hasApplied, storedReceipt, acks>>
  BY DEF PruneStale, netVars
<1>2. /\ templates'[i] = None
      /\ \A k \in Ids : k # i => templates'[k] = templates[k]
  BY <1>1 DEF Typed, TypeOK
<1>3. phase \in InHand /\ phase \notin Acknowledging
  BY <1>1 DEF InHand, Acknowledging
<1>4. HandInv /\ HeldInv /\ OrderInv /\ Scanned
  BY <1>3 DEF Faithful, HandInv
<1>5. reply.base = None /\ i \notin reply.seen
  BY <1>1 DEF Stale
<1>6. i \in Ahead \/ Current(i) = None
  <2>1. CASE i = Unknown
    BY <2>1 DEF Current
  <2>2. CASE i # Unknown
    <3>1. i \in Workers
      BY <2>2 DEF Ids, Workers, Unknown
    <3>2. i \in Ahead \/ i > created
      BY <1>1, <1>4, <1>5, <3>1 DEF Scanned
    <3> QED
      BY <3>2 DEF Current
  <2> QED
    BY <2>1, <2>2
<1>7. \A k \in Ids : Current(k)' = Current(k)
  BY <1>1 DEF Current, Row, rosterVars
<1>8. Ahead' = Ahead
  BY <1>1 DEF Ahead, Promised, rosterVars, receiptVars
<1>9. ASSUME NEW s \in Held,
             s <= rosterAppliedSequence \/ s <= Promised(reply.receipt)
      PROVE  s \in Held'
  <2> SUFFICES ASSUME s # None, NEW k \in Ids, k \in Workers => rosterSequence[k] <= s
               PROVE  templates'[k] = Current(k)
    BY <1>1, <1>7 DEF Held, rosterVars
  <2>1. CASE k = i
    <3>1. s \in Int
      BY CurrentNumbers DEF Held
    <3>2. k \notin Ahead
      BY <1>9, <3>1, CurrentNumbers DEF Ahead
    <3> QED
      BY <1>2, <1>6, <2>1, <3>2
  <2>2. CASE k # i
    BY <1>2, <2>2 DEF Held
  <2> QED
    BY <2>1, <2>2
<1>10. HeldInv'
  <2> SUFFICES ASSUME hasApplied
               PROVE  /\ rosterAppliedSequence \in Held'
                      /\ pendingReceipt \in acks => pendingSequence \in Held'
    BY <1>1 DEF HeldInv, receiptVars
  <2>1. rosterAppliedSequence \in Held'
    BY <1>4, <1>9, CurrentNumbers DEF HeldInv
  <2>2. ASSUME pendingReceipt \in acks
        PROVE  pendingSequence \in Held'
    <3>1. pendingReceipt = reply.receipt
      BY <1>3, <2>2 DEF Safe, ReplyInv
    <3>2. pendingSequence <= Promised(reply.receipt)
      BY <3>1, CurrentNumbers DEF Promised
    <3> QED
      BY <1>4, <1>9, <2>2, <3>2 DEF HeldInv
  <2> QED
    BY <2>1, <2>2
<1>11. ASSUME NEW w \in reply.seen
       PROVE  SeenIsTrue(w)'
  <2>1. w \in Ids /\ w # i /\ SeenIsTrue(w)
    BY <1>3, <1>4, <1>5, WorkerIds DEF HandInv, Typed, TypeOK, Replies
  <2> QED
    BY <1>1, <1>2, <1>7, <1>8, <2>1 DEF SeenIsTrue
<1>12. Scanned'
  BY <1>1, <1>4, <1>8 DEF Scanned, rosterVars
<1>13. HandInv'
  BY <1>1, <1>3, <1>4, <1>11, <1>12 DEF HandInv
<1>14. OrderInv' /\ StoredInv'
  BY <1>1, <1>3, <1>4 DEF OrderInv, StoredInv, rosterVars, receiptVars
<1> QED
  BY <1>10, <1>13, <1>14 DEF Faithful

\* A response applied to its end leaves the kiosk with what its receipt promises.
LEMMA StoreFaithful ==
    ASSUME Typed, Safe, Faithful, StoreReceipt
    PROVE  Faithful'
<1>1. /\ phase = "apply" /\ reply.rows = {} /\ Stale = {}
      /\ storedReceipt' = reply.receipt /\ phase' = "applied"
      /\ UNCHANGED <<rosterVars, receiptVars, templates, hasApplied, acks>>
  BY DEF StoreReceipt, netVars
<1>2. phase \in InHand
  BY <1>1 DEF InHand
<1>3. HandInv /\ HeldInv /\ OrderInv /\ Scanned
  BY <1>2 DEF Faithful, HandInv
<1>4. Promised(reply.receipt) \in Held
  <2> SUFFICES ASSUME NEW i \in Ids,
                      i \in Workers => rosterSequence[i] <= Promised(reply.receipt)
               PROVE  templates[i] = Current(i)
    BY CurrentNumbers DEF Held
  <2>1. i \notin Ahead
    BY CurrentNumbers DEF Ahead
  <2>2. CASE i \in reply.seen
    BY <1>1, <1>2, <1>3, <2>1, <2>2 DEF HandInv, SeenIsTrue
  <2>3. CASE i \notin reply.seen /\ reply.base = None
    <3>1. templates[i] = None
      BY <1>1, <2>3 DEF Stale
    <3>2. i = Unknown \/ i \in Workers
      BY DEF Ids, Workers, Unknown
    <3>3. i \in Workers => i > created
      BY <1>1, <1>3, <2>1, <2>3 DEF Scanned
    <3> QED
      BY <3>1, <3>2, <3>3 DEF Current
  <2>4. CASE i \notin reply.seen /\ reply.base # None
    <3>1. reply.base <= rosterAppliedSequence /\ hasApplied
      BY <1>2, <1>3, <2>4 DEF HandInv, Safe, ReplyInv
    <3>2. i \in Workers => rosterSequence[i] <= reply.base
      BY <1>1, <1>3, <2>1, <2>4 DEF Scanned
    <3>3. i \in Workers => rosterSequence[i] <= rosterAppliedSequence
      BY <3>1, <3>2, CurrentNumbers
    <3>4. rosterAppliedSequence # None
      <4>1. reply.base \in MaybeSequence
        BY DEF Typed, TypeOK, Replies
      <4> QED
        BY <2>4, <3>1, <4>1, CurrentNumbers DEF MaybeSequence, None
    <3>5. rosterAppliedSequence \in Held
      BY <1>3, <3>1 DEF HeldInv
    <3> QED
      BY <3>3, <3>4, <3>5 DEF Held
  <2> QED
    BY <2>2, <2>3, <2>4
<1>5. StoredInv'
  <2>1. reply.receipt \in Receipts
    BY <1>2 DEF Typed, HoldsReceipt
  <2>2. pendingReceipt # reply.receipt => pendingReceipt \notin acks
    BY <1>2 DEF Safe, ReplyInv
  <2>3. Held' = Held
    BY <1>1, HeldStays
  <2>4. Promised(storedReceipt)' = Promised(reply.receipt)
    BY <1>1 DEF Promised, receiptVars
  <2> QED
    BY <1>1, <1>4, <2>1, <2>2, <2>3, <2>4 DEF StoredInv, receiptVars
<1>6. OrderInv' /\ HeldInv'
  BY <1>1, <1>3, HeldStays DEF OrderInv, HeldInv, rosterVars, receiptVars
<1>7. HandInv'
  BY <1>1 DEF HandInv, InHand, Reading
<1> QED
  BY <1>5, <1>6, <1>7 DEF Faithful

\* The kiosk's steps between a response and its acknowledgement.
LEMMA KioskFaithful ==
    ASSUME Typed, Safe, Faithful, KioskNext
    PROVE  Faithful'
<1>1. OrderInv /\ HeldInv /\ StoredInv /\ HandInv
  BY DEF Faithful
<1> USE DEF localVars, netVars
<1>2. CASE RequestRoster
  BY <1>2, QuietFaithful DEF RequestRoster, InHand, Reading, Acknowledging
<1>3. CASE Validate
  <2>1. CASE reply.duplicate
    BY <1>3, <2>1, QuietFaithful DEF Validate, InHand, Reading, Acknowledging
  <2>2. CASE ~reply.duplicate
    <3>1. /\ phase = "revoke" /\ phase' = "apply"
          /\ UNCHANGED <<rosterVars, receiptVars, reply, localVars, netVars>>
      BY <1>3, <2>2 DEF Validate
    <3>2. OrderInv' /\ HeldInv'
      BY <1>1, <3>1, HeldStays DEF OrderInv, HeldInv, rosterVars, receiptVars
    <3>3. Ahead' = Ahead /\ \A i \in Ids : Current(i)' = Current(i)
      BY <3>1, HeldStays DEF Ahead, Promised, rosterVars, receiptVars
    <3>4. Scanned'
      BY <1>1, <3>1, <3>3 DEF HandInv, InHand, Scanned, rosterVars
    <3>5. \A row \in reply.rows : row.worker \in Ids
      BY WorkerIds DEF Typed, TypeOK, Replies, Rows
    <3>6. \A w \in reply.seen : w \in Ids
      BY WorkerIds DEF Typed, TypeOK, Replies
    <3>7. HandInv'
      BY <1>1, <3>1, <3>3, <3>4, <3>5, <3>6 DEF HandInv, InHand, RowIsTrue, SeenIsTrue
    <3>8. StoredInv'
      BY <3>1 DEF StoredInv, Acknowledging
    <3> QED
      BY <3>2, <3>7, <3>8 DEF Faithful
  <2> QED
    BY <2>1, <2>2
<1>4. CASE Reload
  <2>1. CASE phase = "failed"
    BY <1>4, <2>1, QuietFaithful DEF Reload, InHand, Reading, Acknowledging
  <2>2. CASE phase = "applied"
    <3>1. /\ phase' = "ack"
          /\ UNCHANGED <<rosterVars, receiptVars, templates, hasApplied, storedReceipt, acks>>
      BY <1>4, <2>2 DEF Reload
    <3>2. OrderInv' /\ HeldInv'
      BY <1>1, <3>1, HeldStays DEF OrderInv, HeldInv, rosterVars, receiptVars
    <3>3. StoredInv'
      BY <1>1, <2>2, <3>1, HeldStays DEF StoredInv, Acknowledging, Promised, receiptVars
    <3>4. HandInv'
      BY <3>1 DEF HandInv, InHand, Reading
    <3> QED
      BY <3>2, <3>3, <3>4 DEF Faithful
  <2> QED
    BY <1>4, <2>1, <2>2 DEF Reload
<1>5. CASE SendAck
  <2>1. /\ phase = "ack" /\ phase' = "awaiting" /\ acks' = acks \cup {storedReceipt}
        /\ UNCHANGED <<rosterVars, receiptVars, templates, hasApplied, storedReceipt>>
    BY <1>5 DEF SendAck
  <2>2. OrderInv'
    BY <1>1, <2>1 DEF OrderInv, rosterVars, receiptVars
  <2>3. pendingReceipt = storedReceipt => pendingSequence \in Held
    BY <1>1, <2>1 DEF StoredInv, Acknowledging, Promised
  <2>4. HeldInv'
    BY <1>1, <2>1, <2>3, HeldStays DEF HeldInv, receiptVars
  <2>5. StoredInv'
    BY <1>1, <2>1, HeldStays DEF StoredInv, Acknowledging, Promised, receiptVars
  <2>6. HandInv'
    BY <2>1 DEF HandInv, InHand, Reading
  <2> QED
    BY <2>2, <2>4, <2>5, <2>6 DEF Faithful
<1>6. CASE RecordApplied
  <2>1. /\ phase = "acked" /\ phase' = "recorded"
        /\ UNCHANGED <<rosterVars, receiptVars, templates, storedReceipt, acks>>
    BY <1>6 DEF RecordApplied
  <2>2. /\ storedReceipt \in Receipts /\ storedReceipt = lastRosterReceiptId
        /\ Promised(storedReceipt) \in Held
        /\ pendingReceipt # storedReceipt => pendingReceipt \notin acks
    BY <1>1, <2>1 DEF StoredInv, Acknowledging
  <2>3. pendingReceipt # storedReceipt
    BY <1>1, <2>2 DEF OrderInv, Receipts, NoReceipt
  <2>4. rosterAppliedSequence \in Held /\ pendingReceipt \notin acks
    BY <2>2, <2>3 DEF Promised
  <2>5. OrderInv' /\ HeldInv'
    BY <1>1, <2>1, <2>4, HeldStays DEF OrderInv, HeldInv, rosterVars, receiptVars
  <2>6. StoredInv' /\ HandInv'
    BY <2>1 DEF StoredInv, HandInv, Acknowledging, InHand, Reading
  <2> QED
    BY <2>5, <2>6 DEF Faithful
<1>7. CASE ForgetReceipt
  BY <1>7, QuietFaithful DEF ForgetReceipt, InHand, Reading, Acknowledging
<1> QED
  BY <1>2, <1>3, <1>4, <1>5, <1>6, <1>7, RowFaithful, PruneFaithful, StoreFaithful
  DEF KioskNext

LEMMA ServerFaithful ==
    ASSUME Typed, Safe, Faithful, ServerNext
    PROVE  Faithful'
<1>1. CASE ServeAwaitedAck
  <2>1. \/ acknowledgeRosterReceipt(storedReceipt) /\ phase' = "acked"
        \/ UNCHANGED receiptVars /\ phase' = "idle"
    BY <1>1 DEF ServeAwaitedAck
  <2>2. /\ phase = "awaiting" /\ storedReceipt \in acks /\ acks' \subseteq acks
        /\ UNCHANGED <<rosterVars, reply, localVars>>
    BY <1>1 DEF ServeAwaitedAck
  <2> QED
    BY <2>1, <2>2, ServeFaithful
<1> QED
  BY <1>1, AnswerIssueFaithful, ReadPageFaithful, LastPageFaithful DEF ServerNext

LEMMA LateFaithful ==
    ASSUME Typed, Safe, Faithful, LateNext
    PROVE  Faithful'
<1>1. OrderInv /\ HeldInv /\ StoredInv /\ HandInv
  BY DEF Faithful
<1> USE DEF localVars
<1>2. CASE AnswerLateRequest
  <2>1. issueRosterReceipt /\ UNCHANGED <<rosterVars, phase, reply, localVars, acks>>
    BY <1>2 DEF AnswerLateRequest
  <2>2. CASE UNCHANGED <<pendingReceipt, pendingSequence>>
    <3>1. UNCHANGED receiptVars
      BY <2>1, <2>2, IssueFaithful DEF receiptVars
    <3> QED
      BY <2>1, <3>1, SameFaithful
  <2>3. CASE pendingReceipt' \notin acks \cup {reply.receipt, storedReceipt}
             /\ pendingReceipt = NoReceipt
    <3>1. /\ UNCHANGED <<rosterAppliedSequence, lastRosterReceiptId>>
          /\ pendingReceipt' # lastRosterReceiptId
          /\ rosterAppliedSequence <= pendingSequence'
      BY <2>1, IssueFaithful
    <3>2. OrderInv'
      BY <1>1, <2>1, <3>1 DEF OrderInv, rosterVars
    <3>3. Held' = Held /\ \A i \in Ids : Current(i)' = Current(i)
      BY <2>1, HeldStays
    <3>4. HeldInv'
      BY <1>1, <2>1, <2>3, <3>1, <3>3 DEF HeldInv
    <3>5. StoredInv'
      <4>1. storedReceipt \in Receipts => Promised(storedReceipt)' = Promised(storedReceipt)
        BY <2>1, <2>3, <3>1 DEF Promised, Receipts, NoReceipt
      <4> QED
        BY <1>1, <2>1, <2>3, <3>1, <3>3, <4>1 DEF StoredInv
    <3>6. HandInv'
      <4> SUFFICES ASSUME phase \in InHand
                   PROVE  HandInv'
        BY <2>1 DEF HandInv
      <4>1. reply.receipt \in Receipts
        BY DEF Typed, HoldsReceipt
      <4>2. Promised(reply.receipt)' = Promised(reply.receipt)
        BY <2>1, <2>3, <3>1, <4>1 DEF Promised, Receipts, NoReceipt
      <4>3. Ahead' = Ahead
        BY <2>1, <3>1, <4>2 DEF Ahead, rosterVars
      <4>4. Scanned'
        BY <1>1, <2>1, <4>3 DEF HandInv, Scanned, rosterVars
      <4>5. \A row \in reply.rows : row.worker \in Ids
        BY WorkerIds DEF Typed, TypeOK, Replies, Rows
      <4>6. \A w \in reply.seen : w \in Ids
        BY WorkerIds DEF Typed, TypeOK, Replies
      <4> QED
        BY <1>1, <2>1, <3>3, <4>3, <4>4, <4>5, <4>6 DEF HandInv, RowIsTrue, SeenIsTrue
    <3> QED
      BY <3>2, <3>4, <3>5, <3>6 DEF Faithful
  <2> QED
    BY <2>1, <2>2, <2>3, IssueFaithful
<1>3. CASE LoseLateRequest
  BY <1>3, SameFaithful DEF LoseLateRequest
<1>4. ASSUME NEW id \in Receipts, ServeAck(id)
      PROVE  Faithful'
  BY <1>4, ServeFaithful DEF ServeAck
<1>5. ASSUME NEW id \in Receipts, LoseAck(id)
      PROVE  Faithful'
  BY <1>5, SameFaithful DEF LoseAck
<1> QED
  BY <1>2, <1>3, <1>4, <1>5 DEF LateNext

LEMMA FaultFaithful ==
    ASSUME Typed, Faithful, Fault
    PROVE  Faithful'
<1> USE DEF localVars, netVars
<1>1. CASE FailSync
  BY <1>1, QuietFaithful DEF FailSync, InHand, Reading, Acknowledging
<1>2. CASE FailReload
  BY <1>2, QuietFaithful DEF FailReload, InHand, Reading, Acknowledging
<1>3. CASE AckTimeout
  BY <1>3, QuietFaithful DEF AckTimeout, InHand, Reading, Acknowledging
<1>4. CASE Crash
  BY <1>4, QuietFaithful DEF Crash, InHand, Reading, Acknowledging
<1>5. CASE Reimage
  <2>1. ~hasApplied' /\ phase' = "idle" /\ UNCHANGED <<rosterVars, receiptVars>>
    BY <1>5 DEF Reimage
  <2>2. OrderInv'
    BY <2>1 DEF Faithful, OrderInv, rosterVars, receiptVars
  <2>3. HeldInv' /\ StoredInv' /\ HandInv'
    BY <2>1 DEF HeldInv, StoredInv, HandInv, Acknowledging, InHand, Reading
  <2> QED
    BY <2>2, <2>3 DEF Faithful
<1> QED
  BY <1>1, <1>2, <1>3, <1>4, <1>5 DEF Fault

LEMMA InitFaithful ==
    ASSUME Init
    PROVE  Faithful
<1>1. None \in Held
  BY DEF Held, MaybeSequence
<1>2. HeldInv
  BY <1>1 DEF Init, HeldInv
<1>3. OrderInv
  BY DEF Init, OrderInv, NoReceipt, Receipts, None
<1>4. StoredInv /\ HandInv
  BY DEF Init, StoredInv, HandInv, Acknowledging, InHand, Reading
<1> QED
  BY <1>2, <1>3, <1>4 DEF Faithful

\* The kiosk that knows an acknowledgement of the newest sequence holds every
\* row as it is.
LEMMA FaithfulIsCurrent ==
    ASSUME Typed, Safe, Faithful
    PROVE  AppliedRosterIsCurrent
<1> SUFFICES ASSUME hasApplied, rosterAppliedSequence = counter, NEW i \in Ids
             PROVE  templates[i] = Current(i)
  BY DEF AppliedRosterIsCurrent
<1>1. counter # None /\ (i \in Workers => rosterSequence[i] <= counter)
  BY CurrentNumbers DEF None
<1>2. counter \in Held
  BY DEF Faithful, HeldInv
<1> QED
  BY <1>1, <1>2 DEF Held

\* A delta skips nothing: whatever is written between two pages, repeated,
\* delayed or interrupted, and whether responses are full or partial, a kiosk
\* that has acknowledged the newest sequence holds exactly the current roster
\* (pi-kiosk/sync.py sync_workers, convex/kiosks.ts issueRosterReceipt).
THEOREM DeltasSkipNothing == Spec => []AppliedRosterIsCurrent
<1>1. Init => IInv /\ Faithful
  BY InitType, InitSafe, InitFaithful DEF IInv
<1>2. IInv /\ Faithful /\ [Next]_vars => IInv' /\ Faithful'
  <2> SUFFICES ASSUME Typed, Safe, Faithful, [Next]_vars
               PROVE  IInv' /\ Faithful'
    BY DEF IInv
  <2>1. IInv'
    BY NextSafe DEF IInv
  <2>2. ASSUME Next
        PROVE  Faithful'
    BY <2>2, PortalFaithful, ServerFaithful, KioskFaithful, LateFaithful, FaultFaithful
    DEF Next
  <2>3. ASSUME UNCHANGED vars
        PROVE  Faithful'
    <3>1. /\ UNCHANGED <<rosterVars, receiptVars, templates, hasApplied, storedReceipt,
                         reply>>
          /\ acks' \subseteq acks /\ phase' = phase
      BY <2>3 DEF vars, localVars, netVars
    <3> QED
      BY <3>1, SameFaithful
  <2> QED
    BY <2>1, <2>2, <2>3
<1>3. IInv /\ Faithful => AppliedRosterIsCurrent
  BY FaithfulIsCurrent DEF IInv
<1> QED
  BY <1>1, <1>2, <1>3, PTL DEF Spec

=============================================================================

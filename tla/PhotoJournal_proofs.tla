------------------------ MODULE PhotoJournal_proofs ------------------------
(***************************************************************************)
(* Proofs about PhotoJournal, for any workers, any number of photos and    *)
(* any failures: photos of rows are kept, no photo is left that neither a  *)
(* row nor the journal names, and a receipt certifies erasures that not    *)
(* even a power failure undoes.                                            *)
(*                                                                         *)
(* The inductive invariant follows a photo from the journal to the disk    *)
(* and back.  What a publication or a removal will retire is journaled     *)
(* before its row is changed; names are never used twice, so that what     *)
(* sync has revoked is never named again; and a drain without a failure    *)
(* has erased all of it when nothing is left to look at.                   *)
(***************************************************************************)
EXTENDS PhotoJournal, TLAPS

\* Photos that are on disk or that come back when the power fails.
Traces == files \cup flushed

\* Names given so far.
Given == Portal \cup 1..used

NamesInv ==
    /\ \A w \in Workers : photos[w] \subseteq Given
    /\ revoked \subseteq Given
    /\ revoked \cap References = {}

\* What is on disk is named by a row, or journaled, or not yet known of.
TracesInv == Traces \ (Portal \ revoked) \subseteq References \cup Journal

\* Before its row is changed: the new photos are new, and they and the old ones
\* are journaled.
Publishing == op.kind = "publish" /\ step \in {"retire", "write", "commit"}

PublishInv ==
    Publishing =>
        /\ op.worker \cap enrolled \subseteq op.rows
        /\ op.worker \subseteq Portal => receipt = "no"
        /\ op.new \subseteq 1..used
        /\ op.new \cap revoked = {}
        /\ \A w \in Workers : op.new \cap photos[w] = {}
        /\ step \in {"retire", "write"} => op.new \subseteq Journal
        /\ step \in {"write", "commit"} => Old \subseteq Journal
        /\ step = "commit" => op.new \subseteq files \cap flushed

RemoveInv ==
    op.kind = "remove" /\ step = "delete" =>
        op.worker \subseteq Portal /\ receipt = "no" /\ Old \subseteq Journal

ErasingInv ==
    /\ step \notin {"unlinked", "gone"} => erasing = {}
    /\ step = "unlinked" => erasing \cap files = {}
    /\ step = "gone" => erasing \cap Traces = {}

DrainInv ==
    op.kind = "drain" =>
        /\ receipt = "no"
        /\ ~failed => revoked \cap Traces \subseteq todo \cup erasing

ReceiptInv == receipt # "no" => revoked \cap Traces = {}

Inv ==
    /\ PhotosKept
    /\ NamesInv
    /\ TracesInv
    /\ PublishInv
    /\ RemoveInv
    /\ ErasingInv
    /\ DrainInv
    /\ ReceiptInv
-----------------------------------------------------------------------------
(* Types.                                                                  *)

LEMMA OldIsPaths ==
    ASSUME TypeOK
    PROVE  /\ Journal \subseteq Paths
           /\ Old \subseteq Paths
           /\ \A rows \in SUBSET Workers, w \in Portal :
                  replaced_worker_photo_paths({w}, rows) \subseteq Paths
<1>1. \A rows \in SUBSET Workers : Photos(rows) \subseteq Paths
  BY DEF TypeOK, Photos
<1>2. op.rows \in SUBSET Workers
  BY DEF TypeOK, Ops
<1>3. Portal \subseteq Paths
  BY DEF Paths
<1>4. ASSUME NEW rows \in SUBSET Workers, NEW worker \in SUBSET Portal
      PROVE  replaced_worker_photo_paths(worker, rows) \subseteq Paths
  <2>1. Photos(rows) \subseteq Paths
    BY <1>1
  <2>2. worker \subseteq Paths
    BY <1>3
  <2> HIDE DEF Photos
  <2> QED
    BY <2>1, <2>2 DEF replaced_worker_photo_paths
<1>5. Old \subseteq Paths
  BY <1>1, <1>2, <1>4 DEF Old
<1>6. Journal \subseteq Paths
  BY DEF TypeOK, Journal
<1> QED
  BY <1>4, <1>5, <1>6

LEMMA TypeInit == Init => TypeOK
<1> SUFFICES ASSUME Init PROVE TypeOK
  OBVIOUS
<1>1. Portal \subseteq Paths
  BY DEF Paths
<1>2. NoOp \in Ops
  BY DEF NoOp, Ops
<1>3. photos \in [Workers -> SUBSET Paths]
  BY <1>1 DEF Init
<1>4. used \in 0..MaxPaths /\ faults \in 0..MaxFaults
  BY ConstantsAssumption DEF Init
<1> QED
  BY <1>1, <1>2, <1>3, <1>4 DEF Init, TypeOK

LEMMA TypeStep == TypeOK /\ [Next]_vars => TypeOK'
<1> SUFFICES ASSUME TypeOK, [Next]_vars PROVE TypeOK'
  OBVIOUS
<1> USE DEF TypeOK
<1>n. NoOp \in Ops
  BY DEF NoOp, Ops
<1>1. ASSUME NEW w \in Workers, NEW rows \in SUBSET Workers, NEW count \in {0, 1, 2},
             BeginPublish(w, rows, count)
      PROVE  TypeOK'
  <2>1. used' \in 0..MaxPaths /\ used + 1 .. used' \subseteq Paths
    BY <1>1, ConstantsAssumption DEF BeginPublish, Paths
  <2>2. op' \in Ops
    BY <1>1, <2>1 DEF BeginPublish, Ops
  <2>3. op'.new \subseteq Paths
    BY <2>2 DEF Ops
  <2> QED
    BY <1>1, <2>1, <2>2, <2>3
       DEF BeginPublish, JournalPublished, rowVars, dirVars, recoveryVars, syncVars
<1>2. ASSUME NEW w \in Portal, publish_synced_worker(w) PROVE TypeOK'
  <2>1. PICK rows \in SUBSET Workers, count \in {0, 1, 2} : BeginPublish(w, rows, count)
    BY <1>2 DEF publish_synced_worker, Workers
  <2> QED
    BY <1>1, <2>1 DEF Workers
<1>3. ASSUME NEW w \in Local, publish_local_enrollment(w) PROVE TypeOK'
  BY <1>1, <1>3 DEF publish_local_enrollment, Workers
<1>4. ASSUME NEW w \in Portal, remove_worker_by_server_id(w) PROVE TypeOK'
  <2>1. op' \in Ops
    BY <1>4 DEF remove_worker_by_server_id, Ops, Workers
  <2>2. replaced_worker_photo_paths({w}, {w} \cap enrolled) \subseteq Paths
    BY OldIsPaths
  <2> HIDE DEF replaced_worker_photo_paths
  <2> QED
    BY <1>4, <2>1, <2>2
       DEF remove_worker_by_server_id, JournalRetired, rowVars, dirVars, recoveryVars, syncVars
<1>5. ASSUME NEW w \in Local, remove_local_worker(w) PROVE TypeOK'
  BY <1>5 DEF remove_local_worker, JournalRetired, dirVars, recoveryVars, syncVars, Workers
<1>6. CASE Retire
  <2>1. Old \subseteq Paths
    BY <1>6, OldIsPaths DEF Retire, Holds
  <2> QED
    BY <1>6, <2>1 DEF Retire, JournalRetired, rowVars, dirVars, recoveryVars, syncVars
<1>7. CASE FlushFiles
  BY <1>7 DEF FlushFiles, rowVars, journalVars, recoveryVars, syncVars
<1>8. CASE add_worker
  <2>1. Old \subseteq Paths
    BY <1>8, OldIsPaths DEF add_worker, Holds
  <2>2. op.worker \subseteq Workers /\ op.new \subseteq Paths
    BY DEF Ops
  <2>3. enrolled' \subseteq Workers /\ photos' \in [Workers -> SUBSET Paths]
    BY <1>8, <2>2 DEF add_worker
  <2>4. revoked' \subseteq Paths
    BY <1>8, <2>1 DEF add_worker, Revoke
  <2> QED
    BY <1>8, <2>3, <2>4, OldIsPaths DEF add_worker, Recover, journalVars, dirVars
<1>9. CASE DeleteRow
  <2>1. Old \subseteq Paths
    BY <1>9, OldIsPaths DEF DeleteRow, Holds
  <2>2. enrolled' \subseteq Workers /\ photos' \in [Workers -> SUBSET Paths]
    BY <1>9 DEF DeleteRow
  <2>3. revoked' \subseteq Paths
    BY <1>9, <2>1 DEF DeleteRow, Revoke
  <2> QED
    BY <1>9, <2>2, <2>3, OldIsPaths DEF DeleteRow, Recover, journalVars, dirVars
<1>10. CASE FlushErasure
  BY <1>10 DEF FlushErasure, rowVars, journalVars, recoveryVars, syncVars
<1>11. CASE Forget
  BY <1>11 DEF Forget, rowVars, dirVars, syncVars
<1>12. CASE RecoveryDone
  BY <1>12, <1>n DEF RecoveryDone, Release, rowVars, journalVars, dirVars
<1>13. ASSUME NEW p \in Paths, WriteFile(p) PROVE TypeOK'
  BY <1>13 DEF WriteFile, rowVars, journalVars, recoveryVars, syncVars
<1>14. ASSUME NEW p \in Paths, KeepEntry(p) PROVE TypeOK'
  BY <1>14 DEF KeepEntry, rowVars, dirVars, syncVars
<1>15. ASSUME NEW p \in Paths, Unlink(p) PROVE TypeOK'
  BY <1>15 DEF Unlink, AfterUnlink, rowVars, journalVars, syncVars
<1>16. CASE ReceiptNext
  BY <1>16 DEF ReceiptNext, count_unmanaged_local_workers, list_unreferenced_photo_files,
     StoreReceipt, rowVars, journalVars, dirVars, recoveryVars
<1>17. CASE recover_own_cleanup
  <2>1. op' \in Ops
    BY <1>17, <1>n DEF recover_own_cleanup, Ops, NoOp
  <2> QED
    BY <1>17, <2>1 DEF recover_own_cleanup, Recover, rowVars, journalVars, dirVars, syncVars
<1>18. CASE recover_photo_cleanup
  <2>1. op' \in Ops
    BY <1>18, <1>n DEF recover_photo_cleanup, Ops, NoOp
  <2> QED
    BY <1>18, <2>1, OldIsPaths
       DEF recover_photo_cleanup, Recover, rowVars, journalVars, dirVars, syncVars
<1>19. CASE PublishFails
  BY <1>19, OldIsPaths, ConstantsAssumption
     DEF PublishFails, Recover, rowVars, journalVars, dirVars, syncVars
<1>20. CASE EraseFails
  BY <1>20, ConstantsAssumption DEF EraseFails, rowVars, journalVars, dirVars, syncVars
<1>21. CASE Crash
  <2>1. faults' \in 0..MaxFaults
    BY <1>21, ConstantsAssumption DEF Crash
  <2>2. op' = NoOp /\ step' = "free" /\ todo' = {} /\ erasing' = {} /\ failed' = FALSE
    BY <1>21 DEF Crash, Release
  <2>3. receipt' \in {"no", "drained", "managed", "clean"}
    BY <1>21 DEF Crash
  <2>4. UNCHANGED <<enrolled, photos, published, retired, files, flushed, used, revoked>>
    BY <1>21 DEF Crash, rowVars, journalVars, dirVars
  <2> QED
    BY <1>n, <2>1, <2>2, <2>3, <2>4
<1>22. CASE PowerFailure
  <2>1. faults' \in 0..MaxFaults
    BY <1>22, ConstantsAssumption DEF PowerFailure
  <2>2. op' = NoOp /\ step' = "free" /\ todo' = {} /\ erasing' = {} /\ failed' = FALSE
    BY <1>22 DEF PowerFailure, Release
  <2>3. files' \subseteq Paths /\ flushed' \subseteq Paths /\ receipt' = "no"
    BY <1>22 DEF PowerFailure
  <2>4. UNCHANGED <<enrolled, photos, published, retired, used, revoked>>
    BY <1>22 DEF PowerFailure, rowVars, journalVars
  <2> QED
    BY <1>n, <2>1, <2>2, <2>3, <2>4
<1>23. CASE UNCHANGED vars
  BY <1>23 DEF vars, rowVars, journalVars, dirVars, recoveryVars, syncVars
<1> QED
  BY <1>2, <1>3, <1>4, <1>5, <1>6, <1>7, <1>8, <1>9, <1>10, <1>11, <1>12, <1>13, <1>14,
     <1>15, <1>16, <1>17, <1>18, <1>19, <1>20, <1>21, <1>22, <1>23
     DEF Next, HolderNext, CallNext, FaultNext

\* The type invariant holds for every value of the constants.
THEOREM TypeCorrect == Spec => []TypeOK
BY TypeInit, TypeStep, PTL DEF Spec
-----------------------------------------------------------------------------
(* The inductive invariant.                                                *)

\* The photos of rows, and what a replacement would retire, change with rows only.
LEMMA SameRows ==
    ASSUME UNCHANGED rowVars
    PROVE  /\ References' = References
           /\ UNCHANGED op => Old' = Old
BY DEF rowVars, References, Photos, Old, replaced_worker_photo_paths

LEMMA JournalGrows ==
    ASSUME NEW paths, JournalRetired(paths) \/ JournalPublished(paths)
    PROVE  Journal' = Journal \cup paths
BY DEF JournalRetired, JournalPublished, Journal

LEMMA NamesKept ==
    ASSUME NamesInv, UNCHANGED <<rowVars, revoked, used>>
    PROVE  NamesInv'
BY SameRows DEF NamesInv, Given, rowVars

\* Nothing is promised of a publication or a removal once it is being recovered.
LEMMA NothingBegun ==
    ASSUME step' \in {"free", "recover", "unlinked", "gone"}
    PROVE  PublishInv' /\ RemoveInv'
BY DEF PublishInv, RemoveInv, Publishing

\* What sync has revoked and is still on disk is journaled.
LEMMA RevokedIsJournaled ==
    ASSUME NamesInv, TracesInv
    PROVE  revoked \cap Traces \subseteq Journal
BY DEF NamesInv, TracesInv

\* What sync retires, it has been given and no row that stays names it.
LEMMA OldIsGiven ==
    ASSUME TypeOK, NamesInv, op.worker \subseteq Portal
    PROVE  /\ Old \subseteq Given
           /\ Old \cap Photos(enrolled \ op.rows) = {}
           /\ \A p \in Old : p \in Portal \/ \E w \in Workers : p \in photos[w]
<1>1. Old = (op.worker \cup Photos(op.rows)) \ Photos(enrolled \ op.rows)
  BY DEF Old, replaced_worker_photo_paths
<1>2. op.rows \subseteq Workers
  BY DEF TypeOK, Ops
<1>3. \A p \in Photos(op.rows) : \E w \in Workers : p \in photos[w]
  BY <1>2 DEF Photos
<1>4. op.worker \subseteq Given /\ \A w \in Workers : photos[w] \subseteq Given
  BY DEF Given, NamesInv
<1> QED
  BY <1>1, <1>3, <1>4

\* Photos of replaced rows are going to be retired, unless another row names them.
LEMMA ReplacedIsOld ==
    Photos(op.rows) \subseteq Old \cup Photos(enrolled \ op.rows)
BY DEF Old, replaced_worker_photo_paths

LEMMA ReferencesSplit ==
    References \subseteq Photos(op.rows) \cup Photos(enrolled \ op.rows)
BY DEF References, Photos

LEMMA InvInit == Init => Inv
<1> SUFFICES ASSUME Init PROVE Inv
  OBVIOUS
<1>1. References \subseteq Portal
  BY DEF Init, References, Photos
<1>2. PhotosKept
  BY <1>1 DEF PhotosKept, Init
<1>3. NamesInv
  BY DEF NamesInv, Given, Init
<1>4. TracesInv
  BY DEF TracesInv, Traces, Init
<1>5. PublishInv /\ RemoveInv
  BY DEF PublishInv, RemoveInv, Publishing, Init
<1>6. ErasingInv /\ DrainInv /\ ReceiptInv
  BY DEF ErasingInv, DrainInv, ReceiptInv, Init, NoOp
<1> QED
  BY <1>2, <1>3, <1>4, <1>5, <1>6 DEF Inv

-----------------------------------------------------------------------------
(* Publication and removal keep it.                                        *)

LEMMA BeginPublishKeeps ==
    ASSUME TypeOK, Inv, Free,
           NEW w \in Workers, NEW rows \in SUBSET Workers, NEW count \in {0, 1, 2},
           {w} \cap enrolled \subseteq rows,
           w \in Portal => receipt = "no",
           BeginPublish(w, rows, count)
    PROVE  Inv'
<1> DEFINE new == used + 1 .. used'
<1>1. /\ used' = used + count /\ used' <= MaxPaths
      /\ op' = [kind |-> "publish", worker |-> {w}, rows |-> rows, new |-> new]
      /\ JournalPublished(new) /\ step' = "retire"
      /\ UNCHANGED <<rowVars, dirVars, recoveryVars, syncVars, faults>>
  BY DEF BeginPublish
<1>2. References' = References
  BY <1>1, SameRows
<1>3. Journal' = Journal \cup new
  BY <1>1, JournalGrows
<1>4. new \subseteq 1..used' /\ new \cap Given = {} /\ Given \subseteq Given'
  BY <1>1, ConstantsAssumption DEF Given, TypeOK
<1> HIDE DEF new
<1>5. PhotosKept'
  BY <1>1, <1>2 DEF Inv, PhotosKept, dirVars
<1>6. NamesInv'
  BY <1>1, <1>2, <1>4 DEF Inv, NamesInv, rowVars, syncVars
<1>7. TracesInv'
  BY <1>1, <1>2, <1>3 DEF Inv, TracesInv, Traces, dirVars, syncVars
<1>8. PublishInv'
  <2>1. new \cap revoked = {} /\ \A v \in Workers : new \cap photos[v] = {}
    BY <1>4 DEF Inv, NamesInv
  <2>2. new \subseteq Journal'
    BY <1>3
  <2> QED
    BY <1>1, <1>4, <2>1, <2>2 DEF PublishInv, Publishing, rowVars, syncVars
<1>9. RemoveInv' /\ DrainInv'
  BY <1>1 DEF RemoveInv, DrainInv
<1>10. ErasingInv'
  BY <1>1 DEF Inv, ErasingInv, Free, recoveryVars
<1>11. ReceiptInv'
  BY <1>1 DEF Inv, ReceiptInv, Traces, dirVars, syncVars
<1> QED
  BY <1>5, <1>6, <1>7, <1>8, <1>9, <1>10, <1>11 DEF Inv

LEMMA PublicationStepKeeps ==
    ASSUME TypeOK, Inv, \/ Retire \/ FlushFiles \/ \E p \in Paths : WriteFile(p)
    PROVE  Inv'
<1>1. /\ op.kind = "publish" /\ step \in {"retire", "write"} /\ Publishing
      /\ UNCHANGED <<rowVars, used, op, recoveryVars, syncVars>>
  BY DEF Retire, FlushFiles, WriteFile, Holds, Publishing
<1>2. References' = References /\ Old' = Old
  BY <1>1, SameRows
<1>3. NamesInv'
  BY <1>1, NamesKept DEF Inv, syncVars
<1>4. step' \in {"write", "commit"} /\ RemoveInv' /\ DrainInv'
  BY <1>1 DEF RemoveInv, DrainInv, Retire, FlushFiles, WriteFile, Holds
<1>5. ErasingInv'
  BY <1>1, <1>4 DEF Inv, ErasingInv, recoveryVars
<1>6. CASE Retire
  <2>1. Journal' = Journal \cup Old /\ UNCHANGED <<files, flushed>> /\ step' = "write"
    BY <1>6, JournalGrows DEF Retire, dirVars
  <2>2. PhotosKept' /\ TracesInv' /\ ReceiptInv'
    BY <1>1, <1>2, <2>1 DEF Inv, PhotosKept, TracesInv, ReceiptInv, Traces, syncVars
  <2>3. PublishInv'
    BY <1>1, <1>2, <2>1 DEF Inv, PublishInv, Publishing, rowVars, syncVars
  <2> QED
    BY <1>3, <1>4, <1>5, <2>2, <2>3 DEF Inv
<1>7. CASE FlushFiles
  <2>1. /\ UNCHANGED files /\ flushed' = files /\ op.new \subseteq files
        /\ step = "write" /\ step' = "commit"
    BY <1>7 DEF FlushFiles, Holds
  <2>2. Journal' = Journal
    BY <1>7 DEF FlushFiles, journalVars, Journal
  <2>3. PhotosKept' /\ TracesInv' /\ ReceiptInv'
    BY <1>1, <1>2, <2>1, <2>2 DEF Inv, PhotosKept, TracesInv, ReceiptInv, Traces, syncVars
  <2>4. PublishInv'
    BY <1>1, <1>2, <2>1, <2>2 DEF Inv, PublishInv, Publishing, rowVars, syncVars
  <2> QED
    BY <1>3, <1>4, <1>5, <2>3, <2>4 DEF Inv
<1>8. ASSUME NEW p \in Paths, WriteFile(p) PROVE Inv'
  <2>1. /\ files' = files \cup {p} /\ UNCHANGED flushed /\ p \in op.new
        /\ step = "write" /\ step' = "write"
    BY <1>8 DEF WriteFile, Holds
  <2>2. Journal' = Journal
    BY <1>8 DEF WriteFile, journalVars, Journal
  <2>3. p \in Journal /\ p \notin revoked
    BY <1>1, <2>1 DEF Inv, PublishInv
  <2>4. PhotosKept'
    BY <1>1, <1>2, <2>1 DEF Inv, PhotosKept
  <2>5. TracesInv' /\ ReceiptInv'
    BY <1>1, <1>2, <2>1, <2>2, <2>3 DEF Inv, TracesInv, ReceiptInv, Traces, syncVars
  <2>6. PublishInv'
    BY <1>1, <1>2, <2>1, <2>2 DEF Inv, PublishInv, Publishing, rowVars, syncVars
  <2> QED
    BY <1>3, <1>4, <1>5, <2>4, <2>5, <2>6 DEF Inv
<1> QED
  BY <1>6, <1>7, <1>8

LEMMA AddWorkerKeeps ==
    ASSUME TypeOK, Inv, add_worker
    PROVE  Inv'
<1>1. /\ op.kind = "publish" /\ step = "commit" /\ Publishing
      /\ enrolled' = (enrolled \ op.rows) \cup op.worker
      /\ photos' = [w \in Workers |-> CASE w \in op.worker -> op.new
                                        [] w \in op.rows \ op.worker -> {}
                                        [] OTHER -> photos[w]]
      /\ Revoke /\ Recover(Journal)
      /\ UNCHANGED <<journalVars, dirVars, used, op, receipt>>
  BY DEF add_worker, Holds, Publishing
<1>2. /\ op.worker \cap enrolled \subseteq op.rows
      /\ op.worker \subseteq Portal => receipt = "no"
      /\ op.new \subseteq 1..used /\ op.new \cap revoked = {}
      /\ \A w \in Workers : op.new \cap photos[w] = {}
      /\ Old \subseteq Journal
      /\ op.new \subseteq files \cap flushed
  BY <1>1 DEF Inv, PublishInv
<1>3. op.worker \subseteq Workers /\ enrolled \subseteq Workers
  BY DEF TypeOK, Ops
<1>4. \A w \in Workers : photos'[w] = op.new \/ photos'[w] = {} \/ photos'[w] = photos[w]
  BY <1>1
<1>5. \A w \in enrolled' :
          \/ w \in op.worker /\ photos'[w] = op.new
          \/ w \in enrolled \ op.rows /\ photos'[w] = photos[w]
  BY <1>1, <1>3
<1>6. References' \subseteq op.new \cup Photos(enrolled \ op.rows)
  BY <1>5 DEF References, Photos
<1>7. Photos(enrolled \ op.rows) \subseteq References'
  <2>1. \A w \in enrolled \ op.rows : w \in enrolled' /\ photos'[w] = photos[w]
    BY <1>1, <1>2, <1>3
  <2> QED
    BY <2>1 DEF References, Photos
<1>8. Photos(enrolled \ op.rows) \subseteq References
  BY DEF References, Photos
<1>9. References \subseteq Old \cup References'
  BY <1>7, ReferencesSplit, ReplacedIsOld
<1>10. Journal' = Journal
  BY <1>1 DEF Journal, journalVars
<1>11. PhotosKept'
  BY <1>1, <1>2, <1>6, <1>8 DEF Inv, PhotosKept, dirVars
<1>12. revoked' \cap op.new = {} /\ revoked' \subseteq Given /\ revoked \subseteq revoked'
  <2>1. ASSUME op.worker \subseteq Portal PROVE Old \cap op.new = {} /\ Old \subseteq Given
    <3>1. op.new \cap Portal = {}
      BY <1>2, ConstantsAssumption DEF TypeOK
    <3> QED
      BY <1>2, <2>1, <3>1, OldIsGiven DEF Inv
  <2>2. revoked \subseteq Given
    BY DEF Inv, NamesInv
  <2> QED
    BY <1>1, <1>2, <2>1, <2>2 DEF Revoke
<1>13. NamesInv'
  <2>1. Given' = Given /\ op.new \subseteq Given
    BY <1>1, <1>2 DEF Given
  <2>2. \A w \in Workers : photos'[w] \subseteq Given
    BY <1>4, <2>1 DEF Inv, NamesInv
  <2>3. revoked' \cap Photos(enrolled \ op.rows) = {}
    BY <1>1, <1>8, OldIsGiven DEF Inv, NamesInv, Revoke
  <2> QED
    BY <1>6, <1>12, <2>1, <2>2, <2>3 DEF NamesInv
<1>14. TracesInv'
  <2>1. revoked' \subseteq revoked \cup Journal
    BY <1>1, <1>2 DEF Revoke
  <2>2. Traces' = Traces
    BY <1>1 DEF Traces, dirVars
  <2> QED
    BY <1>2, <1>9, <1>10, <2>1, <2>2 DEF Inv, TracesInv
<1>15. PublishInv' /\ RemoveInv'
  BY <1>1, NothingBegun DEF Recover
<1>16. ErasingInv' /\ DrainInv'
  BY <1>1 DEF Inv, ErasingInv, DrainInv, Recover
<1>17. ReceiptInv'
  BY <1>1, <1>2 DEF Inv, ReceiptInv, Revoke, Traces, dirVars
<1> QED
  BY <1>11, <1>13, <1>14, <1>15, <1>16, <1>17 DEF Inv

LEMMA BeginRemoveKeeps ==
    ASSUME TypeOK, Inv, NEW w \in Portal, remove_worker_by_server_id(w)
    PROVE  Inv'
<1> DEFINE old == replaced_worker_photo_paths({w}, {w} \cap enrolled)
<1>1. /\ step = "free" /\ receipt = "no" /\ step' = "delete"
      /\ op' = [kind |-> "remove", worker |-> {w}, rows |-> {w} \cap enrolled, new |-> {}]
      /\ JournalRetired(old)
      /\ UNCHANGED <<rowVars, dirVars, used, recoveryVars, syncVars>>
  BY DEF remove_worker_by_server_id, SyncFree, Free
<1>2. References' = References /\ Journal' = Journal \cup old
  BY <1>1, SameRows, JournalGrows
<1>3. Old' = old
  <2>1. op'.worker = {w} /\ op'.rows = {w} \cap enrolled /\ op'.worker \subseteq Portal
    BY <1>1
  <2>2. enrolled' = enrolled /\ photos' = photos
    BY <1>1 DEF rowVars
  <2> QED
    BY <2>1, <2>2 DEF Old, replaced_worker_photo_paths, Photos
<1> HIDE DEF old
<1>4. NamesInv'
  BY <1>1, NamesKept DEF Inv, syncVars
<1>5. PhotosKept' /\ TracesInv' /\ ReceiptInv'
  BY <1>1, <1>2 DEF Inv, PhotosKept, TracesInv, ReceiptInv, Traces, dirVars, syncVars
<1>6. PublishInv' /\ DrainInv'
  BY <1>1 DEF PublishInv, Publishing, DrainInv
<1>7. RemoveInv'
  BY <1>1, <1>2, <1>3 DEF RemoveInv, syncVars
<1>8. ErasingInv'
  BY <1>1 DEF Inv, ErasingInv, recoveryVars
<1> QED
  BY <1>4, <1>5, <1>6, <1>7, <1>8 DEF Inv

LEMMA DeleteRowKeeps ==
    ASSUME TypeOK, Inv, DeleteRow
    PROVE  Inv'
<1>1. /\ op.kind = "remove" /\ step = "delete"
      /\ enrolled' = enrolled \ op.rows
      /\ photos' = [w \in Workers |-> IF w \in op.rows THEN {} ELSE photos[w]]
      /\ Revoke /\ Recover(Journal)
      /\ UNCHANGED <<journalVars, dirVars, used, op, receipt>>
  BY DEF DeleteRow, Holds
<1>2. op.worker \subseteq Portal /\ receipt = "no" /\ Old \subseteq Journal
  BY <1>1 DEF Inv, RemoveInv
<1>3. revoked' = revoked \cup Old
  BY <1>1, <1>2 DEF Revoke
<1>4. References' = Photos(enrolled \ op.rows)
  <2>1. enrolled \ op.rows \subseteq Workers
    BY DEF TypeOK
  <2>2. \A w \in enrolled \ op.rows : photos'[w] = photos[w]
    BY <1>1, <2>1
  <2> QED
    BY <1>1, <2>2 DEF References, Photos
<1>5. References' \subseteq References /\ References \subseteq Old \cup References'
  BY <1>4, ReferencesSplit, ReplacedIsOld DEF References, Photos
<1>6. Journal' = Journal /\ Traces' = Traces /\ UNCHANGED <<files, flushed>>
  BY <1>1 DEF Journal, journalVars, Traces, dirVars
<1>7. PhotosKept'
  BY <1>5, <1>6 DEF Inv, PhotosKept
<1>8. NamesInv'
  <2>1. Given' = Given
    BY <1>1 DEF Given
  <2>2. \A w \in Workers : photos'[w] \subseteq Given
    BY <1>1 DEF Inv, NamesInv
  <2>3. Old \subseteq Given /\ Old \cap References' = {}
    BY <1>2, <1>4, OldIsGiven DEF Inv
  <2> QED
    BY <1>3, <1>5, <2>1, <2>2, <2>3 DEF Inv, NamesInv
<1>9. TracesInv'
  BY <1>2, <1>3, <1>5, <1>6 DEF Inv, TracesInv
<1>10. PublishInv' /\ RemoveInv'
  BY <1>1, NothingBegun DEF Recover
<1>11. ErasingInv' /\ DrainInv'
  BY <1>1 DEF Inv, ErasingInv, DrainInv, Recover
<1>12. ReceiptInv'
  BY <1>1, <1>2 DEF ReceiptInv
<1> QED
  BY <1>7, <1>8, <1>9, <1>10, <1>11, <1>12 DEF Inv

LEMMA RemoveLocalKeeps ==
    ASSUME TypeOK, Inv, NEW w \in Local, remove_local_worker(w)
    PROVE  Inv'
<1>1. /\ step = "free" /\ w \in enrolled /\ w \in Workers
      /\ JournalRetired(photos[w])
      /\ enrolled' = enrolled \ {w}
      /\ photos' = [photos EXCEPT ![w] = {}]
      /\ UNCHANGED <<dirVars, used, op, step, recoveryVars, syncVars>>
  BY DEF remove_local_worker, Free, Workers
<1>2. Journal' = Journal \cup photos[w]
  BY <1>1, JournalGrows
<1>3. \A v \in Workers \ {w} : photos'[v] = photos[v]
  BY <1>1 DEF TypeOK
<1>4. photos'[w] = {}
  BY <1>1 DEF TypeOK
<1>5. References' \subseteq References /\ References \subseteq photos[w] \cup References'
  <2>1. enrolled \ {w} \subseteq Workers \ {w}
    BY DEF TypeOK
  <2> QED
    BY <1>1, <1>3, <2>1 DEF References, Photos
<1>6. PhotosKept' /\ TracesInv'
  BY <1>1, <1>2, <1>5 DEF Inv, PhotosKept, TracesInv, Traces, dirVars, syncVars
<1>7. NamesInv'
  BY <1>1, <1>3, <1>4, <1>5 DEF Inv, NamesInv, Given, syncVars
<1>8. PublishInv' /\ RemoveInv'
  BY <1>1, NothingBegun
<1>9. ErasingInv' /\ DrainInv' /\ ReceiptInv'
  BY <1>1 DEF Inv, ErasingInv, DrainInv, ReceiptInv, Traces, dirVars, recoveryVars, syncVars
<1> QED
  BY <1>6, <1>7, <1>8, <1>9 DEF Inv

-----------------------------------------------------------------------------
(* Recovery keeps it.  The rows stay as they are.                          *)

LEMMA BeginRecoveryKeeps ==
    ASSUME TypeOK, Inv, recover_own_cleanup \/ recover_photo_cleanup \/ PublishFails
    PROVE  Inv'
<1>1. /\ step' = "recover" /\ step \notin {"unlinked", "gone"}
      /\ UNCHANGED <<rowVars, journalVars, dirVars, used, erasing, failed, syncVars>>
  BY DEF recover_own_cleanup, recover_photo_cleanup, PublishFails, Recover, SyncFree, Free
<1>2. References' = References /\ Journal' = Journal /\ Traces' = Traces
  BY <1>1, SameRows DEF Journal, journalVars, Traces, dirVars
<1>3. PhotosKept' /\ TracesInv'
  BY <1>1, <1>2 DEF Inv, PhotosKept, TracesInv, dirVars, syncVars
<1>4. NamesInv' /\ PublishInv' /\ RemoveInv'
  BY <1>1, NamesKept, NothingBegun DEF Inv, syncVars
<1>5. ErasingInv' /\ ReceiptInv'
  BY <1>1, <1>2 DEF Inv, ErasingInv, ReceiptInv, syncVars
<1>6. DrainInv'
  <2>1. CASE recover_photo_cleanup
    <3>1. receipt' = "no" /\ revoked' = revoked /\ todo' = Journal
      BY <2>1 DEF recover_photo_cleanup, SyncFree, Recover, syncVars
    <3>2. revoked \cap Traces \subseteq Journal
      BY RevokedIsJournaled DEF Inv
    <3> QED
      BY <1>2, <3>1, <3>2 DEF DrainInv
  <2>2. CASE recover_own_cleanup \/ PublishFails
    BY <2>2 DEF recover_own_cleanup, PublishFails, NoOp, DrainInv
  <2> QED
    BY <2>1, <2>2
<1> QED
  BY <1>3, <1>4, <1>5, <1>6 DEF Inv

LEMMA ErasureStepKeeps ==
    ASSUME TypeOK, Inv,
           \/ FlushErasure \/ Forget \/ EraseFails
           \/ \E p \in Paths : KeepEntry(p) \/ Unlink(p)
    PROVE  Inv'
<1>1. /\ step' \in {"recover", "unlinked", "gone"}
      /\ UNCHANGED <<rowVars, used, op, syncVars>>
  BY DEF FlushErasure, Forget, EraseFails, KeepEntry, Unlink, Recovering, AfterUnlink
<1>2. References' = References
  BY <1>1, SameRows
<1>3. NamesInv' /\ PublishInv' /\ RemoveInv'
  BY <1>1, NamesKept, NothingBegun DEF Inv, syncVars
<1>4. CASE FlushErasure
  <2>1. /\ step = "unlinked" /\ step' = "gone" /\ flushed' = files
        /\ UNCHANGED <<journalVars, files, recoveryVars>>
    BY <1>4 DEF FlushErasure
  <2>2. Journal' = Journal
    BY <2>1 DEF Journal, journalVars
  <2>3. PhotosKept' /\ TracesInv' /\ ReceiptInv'
    BY <1>1, <1>2, <2>1, <2>2 DEF Inv, PhotosKept, TracesInv, ReceiptInv, Traces, syncVars
  <2>4. ErasingInv' /\ DrainInv'
    BY <1>1, <2>1 DEF Inv, ErasingInv, DrainInv, Traces, recoveryVars, syncVars
  <2> QED
    BY <1>3, <2>3, <2>4 DEF Inv
<1>5. CASE Forget
  <2>1. /\ step = "gone" /\ step' = "recover" /\ erasing' = {} /\ UNCHANGED <<dirVars, todo, failed>>
    BY <1>5 DEF Forget
  <2>2. Journal' = Journal \ erasing
    BY <1>5 DEF Forget, Journal
  <2>3. erasing \cap Traces = {}
    BY <2>1 DEF Inv, ErasingInv
  <2>4. PhotosKept' /\ TracesInv' /\ ReceiptInv'
    BY <1>1, <1>2, <2>1, <2>2, <2>3
       DEF Inv, PhotosKept, TracesInv, ReceiptInv, Traces, dirVars, syncVars
  <2>5. ErasingInv' /\ DrainInv'
    BY <1>1, <2>1, <2>3 DEF Inv, ErasingInv, DrainInv, Traces, dirVars, syncVars
  <2> QED
    BY <1>3, <2>4, <2>5 DEF Inv
<1>6. CASE EraseFails
  <2>1. /\ step' = "recover" /\ erasing' = {} /\ failed' = TRUE
        /\ UNCHANGED <<journalVars, dirVars>>
    BY <1>6 DEF EraseFails
  <2>2. Journal' = Journal
    BY <2>1 DEF Journal, journalVars
  <2>3. PhotosKept' /\ TracesInv' /\ ReceiptInv'
    BY <1>1, <1>2, <2>1, <2>2
       DEF Inv, PhotosKept, TracesInv, ReceiptInv, Traces, dirVars, syncVars
  <2>4. ErasingInv' /\ DrainInv'
    BY <1>1, <2>1 DEF Inv, ErasingInv, DrainInv, syncVars
  <2> QED
    BY <1>3, <2>3, <2>4 DEF Inv
<1>7. ASSUME NEW p \in Paths, KeepEntry(p) PROVE Inv'
  <2>1. /\ step = "recover" /\ p \in References
        /\ todo' = todo \ {p} /\ UNCHANGED <<dirVars, step, erasing, failed>>
    BY <1>7 DEF KeepEntry, Recovering, Kept
  <2>2. Journal \subseteq Journal' \cup {p}
    BY <1>7 DEF KeepEntry, Journal
  <2>3. p \notin revoked
    BY <2>1 DEF Inv, NamesInv
  <2>4. PhotosKept' /\ TracesInv' /\ ReceiptInv'
    BY <1>1, <1>2, <2>1, <2>2
       DEF Inv, PhotosKept, TracesInv, ReceiptInv, Traces, dirVars, syncVars
  <2>5. ErasingInv' /\ DrainInv'
    BY <1>1, <2>1, <2>3 DEF Inv, ErasingInv, DrainInv, Traces, dirVars, syncVars
  <2> QED
    BY <1>3, <2>4, <2>5 DEF Inv
<1>8. ASSUME NEW p \in Paths, Unlink(p) PROVE Inv'
  <2>1. /\ step = "recover" /\ step' = "unlinked" /\ p \notin References
        /\ files' = files \ {p} /\ todo' = todo \ {p} /\ erasing' = {p}
        /\ UNCHANGED <<journalVars, flushed, failed>>
    BY <1>8 DEF Unlink, Recovering, Kept, AfterUnlink
  <2>2. Journal' = Journal
    BY <2>1 DEF Journal, journalVars
  <2>3. erasing = {}
    BY <2>1 DEF Inv, ErasingInv
  <2>4. PhotosKept' /\ TracesInv' /\ ReceiptInv'
    BY <1>1, <1>2, <2>1, <2>2 DEF Inv, PhotosKept, TracesInv, ReceiptInv, Traces, syncVars
  <2>5. ErasingInv' /\ DrainInv'
    BY <1>1, <2>1, <2>3 DEF Inv, ErasingInv, DrainInv, Traces, syncVars
  <2> QED
    BY <1>3, <2>4, <2>5 DEF Inv
<1> QED
  BY <1>4, <1>5, <1>6, <1>7, <1>8

\* A drain that has looked at everything and did not fail has erased what sync revoked.
LEMMA RecoveryDoneKeeps ==
    ASSUME TypeOK, Inv, RecoveryDone
    PROVE  Inv'
<1>1. /\ step = "recover" /\ todo = {} /\ erasing = {}
      /\ UNCHANGED receipt \/ (op.kind = "drain" /\ ~failed)
      /\ op' = NoOp /\ step' = "free" /\ erasing' = {}
      /\ UNCHANGED <<rowVars, journalVars, dirVars, used, revoked>>
  BY DEF RecoveryDone, Release, Inv, ErasingInv
<1>2. References' = References /\ Journal' = Journal /\ Traces' = Traces
  BY <1>1, SameRows DEF Journal, journalVars, Traces, dirVars
<1>3. PhotosKept' /\ TracesInv'
  BY <1>1, <1>2 DEF Inv, PhotosKept, TracesInv, dirVars
<1>4. NamesInv' /\ PublishInv' /\ RemoveInv'
  BY <1>1, NamesKept, NothingBegun DEF Inv
<1>5. ErasingInv' /\ DrainInv'
  BY <1>1 DEF ErasingInv, DrainInv, NoOp
<1>6. ReceiptInv'
  <2>1. op.kind = "drain" /\ ~failed => revoked \cap Traces = {}
    BY <1>1 DEF Inv, DrainInv
  <2> QED
    BY <1>1, <1>2, <2>1 DEF Inv, ReceiptInv
<1> QED
  BY <1>3, <1>4, <1>5, <1>6 DEF Inv

LEMMA ReceiptStepKeeps ==
    ASSUME TypeOK, Inv, ReceiptNext
    PROVE  Inv'
<1>1. /\ receipt # "no"
      /\ UNCHANGED <<rowVars, journalVars, dirVars, used, op, step, recoveryVars, revoked>>
  BY DEF ReceiptNext, count_unmanaged_local_workers, list_unreferenced_photo_files, StoreReceipt
<1>2. /\ References' = References /\ Old' = Old
      /\ Journal' = Journal /\ Traces' = Traces
  BY <1>1, SameRows DEF Journal, journalVars, Traces, dirVars
<1>3. PhotosKept' /\ TracesInv' /\ ReceiptInv'
  BY <1>1, <1>2 DEF Inv, PhotosKept, TracesInv, ReceiptInv, dirVars
<1>4. NamesInv'
  BY <1>1, NamesKept DEF Inv
<1>5. PublishInv'
  BY <1>1, <1>2 DEF Inv, PublishInv, Publishing, rowVars, dirVars
<1>6. RemoveInv'
  BY <1>1 DEF Inv, RemoveInv
<1>7. ErasingInv' /\ DrainInv'
  BY <1>1, <1>2 DEF Inv, ErasingInv, DrainInv, recoveryVars, dirVars
<1> QED
  BY <1>3, <1>4, <1>5, <1>6, <1>7 DEF Inv

-----------------------------------------------------------------------------
(* Failures keep it.                                                       *)

LEMMA FailureKeeps ==
    ASSUME TypeOK, Inv, Crash \/ PowerFailure
    PROVE  Inv'
<1>1. /\ op' = NoOp /\ step' = "free" /\ erasing' = {} /\ receipt' \in {receipt, "no"}
      /\ UNCHANGED <<rowVars, journalVars, used, revoked>>
  BY DEF Crash, PowerFailure, Release
<1>2. /\ files \cap flushed \subseteq files' \cap flushed'
      /\ Traces' \subseteq Traces
  <2>1. CASE Crash
    BY <2>1 DEF Crash, dirVars, Traces
  <2>2. CASE PowerFailure
    BY <2>2 DEF PowerFailure, Traces
  <2> QED
    BY <2>1, <2>2
<1>3. References' = References /\ Journal' = Journal
  BY <1>1, SameRows DEF Journal, journalVars
<1>4. PhotosKept' /\ TracesInv' /\ ReceiptInv'
  BY <1>1, <1>2, <1>3 DEF Inv, PhotosKept, TracesInv, ReceiptInv
<1>5. NamesInv' /\ PublishInv' /\ RemoveInv'
  BY <1>1, NamesKept, NothingBegun DEF Inv
<1>6. ErasingInv' /\ DrainInv'
  BY <1>1 DEF ErasingInv, DrainInv, NoOp
<1> QED
  BY <1>4, <1>5, <1>6 DEF Inv

-----------------------------------------------------------------------------
(* The theorems.                                                           *)

LEMMA InvStep == TypeOK /\ Inv /\ [Next]_vars => Inv'
<1> SUFFICES ASSUME TypeOK, Inv, [Next]_vars PROVE Inv'
  OBVIOUS
<1>1. ASSUME NEW w \in Portal, publish_synced_worker(w) PROVE Inv'
  <2>1. w \in Workers /\ Free /\ receipt = "no"
    BY <1>1 DEF publish_synced_worker, SyncFree, Workers
  <2>2. PICK rows \in SUBSET Workers, count \in {0, 1, 2} :
            {w} \cap enrolled \subseteq rows /\ BeginPublish(w, rows, count)
    BY <1>1 DEF publish_synced_worker, Workers
  <2> QED
    BY <2>1, <2>2, BeginPublishKeeps
<1>2. ASSUME NEW w \in Local, publish_local_enrollment(w) PROVE Inv'
  <2>1. w \in Workers /\ w \notin Portal /\ Free
    BY <1>2, ConstantsAssumption DEF publish_local_enrollment, Workers
  <2>2. PICK rows \in SUBSET Workers, count \in {0, 1, 2} :
            {w} \cap enrolled \subseteq rows /\ BeginPublish(w, rows, count)
    BY <1>2, <2>1 DEF publish_local_enrollment
  <2> QED
    BY <2>1, <2>2, BeginPublishKeeps
<1>3. CASE CallNext
  BY <1>1, <1>2, <1>3, BeginRemoveKeeps, RemoveLocalKeeps, BeginRecoveryKeeps DEF CallNext
<1>4. CASE HolderNext
  BY <1>4, PublicationStepKeeps, AddWorkerKeeps, DeleteRowKeeps, ErasureStepKeeps,
     RecoveryDoneKeeps DEF HolderNext
<1>5. CASE FaultNext
  BY <1>5, BeginRecoveryKeeps, ErasureStepKeeps, FailureKeeps DEF FaultNext
<1>6. CASE UNCHANGED vars
  <2>1. /\ UNCHANGED <<rowVars, journalVars, dirVars, used, op, step, recoveryVars>>
        /\ UNCHANGED syncVars
    BY <1>6 DEF vars
  <2>2. /\ References' = References /\ Old' = Old
        /\ Journal' = Journal /\ Traces' = Traces
    BY <2>1, SameRows DEF Journal, journalVars, Traces, dirVars
  <2>3. PhotosKept' /\ TracesInv' /\ ReceiptInv'
    BY <2>1, <2>2 DEF Inv, PhotosKept, TracesInv, ReceiptInv, dirVars, syncVars
  <2>4. NamesInv'
    BY <2>1, NamesKept DEF Inv, syncVars
  <2>5. PublishInv'
    BY <2>1, <2>2 DEF Inv, PublishInv, Publishing, rowVars, dirVars, syncVars
  <2>6. RemoveInv' /\ ErasingInv' /\ DrainInv'
    BY <2>1, <2>2 DEF Inv, RemoveInv, ErasingInv, DrainInv, recoveryVars, dirVars, syncVars
  <2> QED
    BY <2>3, <2>4, <2>5, <2>6 DEF Inv
<1> QED
  BY <1>3, <1>4, <1>5, <1>6, ReceiptStepKeeps DEF Next

LEMMA Invariance == Spec => []Inv
<1>1. TypeOK /\ Inv /\ [Next]_vars => Inv'
  BY InvStep
<1> QED
  BY <1>1, InvInit, TypeCorrect, PTL DEF Spec

\* However a publication, removal or recovery is cut short, every photo that a row
\* names is on disk and survives a power failure.
\* (database.py _publish_worker_photos, _recover_photo_cleanup_unlocked)
THEOREM PhotosAreKept == Spec => []PhotosKept
<1>1. Inv => PhotosKept
  BY DEF Inv
<1> QED
  BY <1>1, Invariance, PTL

\* No photo that sync or an enrollment published outlives its row without an entry
\* in the journal.  (database.py record_photo_cleanup)
THEOREM NoPhotoIsOrphaned == Spec => []NoOrphans
<1>1. Inv => NoOrphans
  BY DEF Inv, TracesInv, Traces, NoOrphans
<1> QED
  BY <1>1, Invariance, PTL

\* Both at once: rows, journal and card agree wherever a publication, a removal
\* or a recovery was cut short.  (database.py _recover_photo_cleanup_unlocked)
THEOREM PhotosFollowTheirRows == Spec => []PhotosFollowRows
BY PhotosAreKept, NoPhotoIsOrphaned, PTL DEF PhotosFollowRows

\* When sync stores a receipt, the photos of the rows it has deleted or replaced
\* stay gone whatever happens.  (sync.py sync_workers phase=receipt)
THEOREM ReceiptsCertifyErasure == Spec => []ErasedBeforeReceipt
<1>1. Inv => ErasedBeforeReceipt
  BY DEF Inv, ReceiptInv, Traces, ErasedBeforeReceipt
<1> QED
  BY <1>1, Invariance, PTL
=============================================================================

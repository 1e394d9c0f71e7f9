---------------------------- MODULE PhotoJournal ----------------------------
(***************************************************************************)
(* Worker photos on the kiosk: database.py from replaced_worker_photo_paths *)
(* to list_unreferenced_photo_files, as roster sync and the enrollment CLI *)
(* use them.                                                               *)
(*                                                                         *)
(* A photo is a file, and the rows of the workers table name the files.    *)
(* Neither can be changed together with the other, so a journal in the     *)
(* database says which files are being published and which are retired,    *)
(* and a recovery removes the journaled files that no row names.  One lock *)
(* file serializes all of this across threads and processes; a process may *)
(* die holding it, a file operation may fail, and the power may fail,      *)
(* which loses the directory changes that were not flushed.  Commits to    *)
(* the database are durable.                                               *)
(***************************************************************************)
EXTENDS Integers, FiniteSets

CONSTANTS
    Portal,     \* workers of the portal's roster
    Local,      \* workers enrolled at the kiosk
    MaxPaths,   \* photos ever published
    MaxFaults   \* failed file operations, crashes and power failures

ASSUME ConstantsAssumption ==
    /\ MaxPaths \in Nat /\ MaxFaults \in Nat
    /\ Portal \cap Local = {} /\ Portal \cap 1..MaxPaths = {}

Workers == Portal \cup Local

\* New names are numbers, never used twice.  An older client left thumbnails
\* that are named for workers of the portal.
Paths == 1..MaxPaths \cup Portal

VARIABLES
    \* the database
    enrolled,
    photos,     \* photo_paths of each row
    published,  \* photo_cleanup_journal, by kind
    retired,
    \* the photo directory
    files,
    flushed,    \* what it holds after a power failure
    used,       \* the last name given to a photo
    \* the holder of the lock
    op,
    step,
    todo,       \* journal entries it has still to look at
    erasing,    \* the entry it is erasing
    failed,     \* first_error
    \* roster sync
    receipt,    \* how far the receipt phase is
    revoked,    \* photos of rows that it has deleted or replaced
    faults

rowVars == <<enrolled, photos>>
journalVars == <<published, retired>>
dirVars == <<files, flushed>>
recoveryVars == <<todo, erasing, failed>>
syncVars == <<receipt, revoked>>
vars == <<rowVars, journalVars, dirVars, used, op, step, recoveryVars, syncVars, faults>>

\* worker is what it is for, rows are the rows that will go, new the new photos.
Ops == [kind : {"none", "publish", "remove", "recover", "drain"},
        worker : SUBSET Workers, rows : SUBSET Workers, new : SUBSET Paths]
NoOp == [kind |-> "none", worker |-> {}, rows |-> {}, new |-> {}]

\* Rows of an older client may share a thumbnail, and it may have left one over.
Init ==
    /\ enrolled \in SUBSET Workers
    /\ photos \in [Workers -> SUBSET Portal]
    /\ \A w \in Workers \ enrolled : photos[w] = {}
    /\ published = {}
    /\ retired = {}
    /\ files = Portal
    /\ flushed = Portal
    /\ used = 0
    /\ op = NoOp
    /\ step = "free"
    /\ todo = {}
    /\ erasing = {}
    /\ failed = FALSE
    /\ receipt = "no"
    /\ revoked = {}
    /\ faults = 0

Photos(rows) == UNION {photos[w] : w \in rows}
References == Photos(enrolled)

\* A slip: only photos that were published are ever erased.
PublishedOnly == published

Journal == published \cup retired

\* A slip: new photos are not journaled before their row is committed.
JournalNothing(paths) == UNCHANGED journalVars

\* INSERT OR REPLACE.
JournalPublished(paths) == published' = published \cup paths /\ retired' = retired \ paths

\* A slip: an entry of the other kind is not replaced.
JournalBeside(paths) == retired' = retired \cup paths /\ UNCHANGED published

JournalRetired(paths) == published' = published \ paths /\ retired' = retired \cup paths

\* The worker's thumbnail and the photos of its rows, unless another row names them.
replaced_worker_photo_paths(worker, rows) ==
    (worker \cup Photos(rows)) \ Photos(enrolled \ rows)

Free == step = "free"
Holds(kind, at) == op.kind = kind /\ step = at

\* Sync is one thread: while it completes a receipt it starts nothing else.
SyncFree == Free /\ receipt = "no"

Release == op' = NoOp /\ step' = "free" /\ todo' = {} /\ erasing' = {} /\ failed' = FALSE

Recover(entries) == step' = "recover" /\ todo' = entries /\ UNCHANGED <<erasing, failed>>

-----------------------------------------------------------------------------
(* Publication.                                                            *)

\* The journal has the new names before any file has.
BeginPublish(w, rows, count) ==
    /\ used + count <= MaxPaths
    /\ used' = used + count
    /\ op' = [kind |-> "publish", worker |-> {w}, rows |-> rows, new |-> used + 1 .. used']
    /\ JournalPublished(op'.new)
    /\ step' = "retire"
    /\ UNCHANGED <<rowVars, dirVars, recoveryVars, syncVars, faults>>

\* A synced worker replaces its own row, or adopts a local one of its name; the
\* portal may have no photo of it.
publish_synced_worker(w) ==
    /\ SyncFree
    /\ \E rows \in IF w \in enrolled THEN {{w}} ELSE {{}} \cup {{l} : l \in Local \cap enrolled} :
       \E count \in {0, 1} : BeginPublish(w, rows, count)

publish_local_enrollment(w) ==
    /\ Free
    /\ \E count \in {1, 2} : BeginPublish(w, {w} \cap enrolled, count)

\* A local enrollment retires photos that other rows name, too.
Old == IF op.worker \subseteq Portal
       THEN replaced_worker_photo_paths(op.worker, op.rows) ELSE Photos(op.rows)

Revoke == revoked' = IF op.worker \subseteq Portal THEN revoked \cup Old ELSE revoked

Retire ==
    /\ Holds("publish", "retire")
    /\ JournalRetired(Old)
    /\ step' = "write"
    /\ UNCHANGED <<rowVars, dirVars, used, op, recoveryVars, syncVars, faults>>

WriteFile(p) ==
    /\ Holds("publish", "write")
    /\ p \in op.new \ files
    /\ files' = files \cup {p}
    /\ UNCHANGED <<rowVars, journalVars, flushed, used, op, step, recoveryVars, syncVars,
                   faults>>

FlushFiles ==
    /\ Holds("publish", "write")
    /\ op.new \subseteq files
    /\ flushed' = files
    /\ step' = "commit"
    /\ UNCHANGED <<rowVars, journalVars, files, used, op, recoveryVars, syncVars, faults>>

add_worker ==
    /\ Holds("publish", "commit")
    /\ enrolled' = (enrolled \ op.rows) \cup op.worker
    /\ photos' = [w \in Workers |-> CASE w \in op.worker -> op.new
                                      [] w \in op.rows \ op.worker -> {}
                                      [] OTHER -> photos[w]]
    /\ Revoke
    /\ Recover(Journal)
    /\ UNCHANGED <<journalVars, dirVars, used, op, receipt, faults>>

\* A file or the commit fails: what was published so far is recovered at once.
PublishFails ==
    /\ op.kind = "publish" /\ step \in {"write", "commit"}
    /\ faults < MaxFaults
    /\ faults' = faults + 1
    /\ Recover(Journal)
    /\ UNCHANGED <<rowVars, journalVars, dirVars, used, op, syncVars>>

-----------------------------------------------------------------------------
(* Removal.                                                                *)

\* The row is deleted in a transaction of its own.
remove_worker_by_server_id(w) ==
    /\ SyncFree
    /\ op' = [kind |-> "remove", worker |-> {w}, rows |-> {w} \cap enrolled, new |-> {}]
    /\ JournalRetired(replaced_worker_photo_paths({w}, {w} \cap enrolled))
    /\ step' = "delete"
    /\ UNCHANGED <<rowVars, dirVars, used, recoveryVars, syncVars, faults>>

DeleteRow ==
    /\ Holds("remove", "delete")
    /\ enrolled' = enrolled \ op.rows
    /\ photos' = [w \in Workers |-> IF w \in op.rows THEN {} ELSE photos[w]]
    /\ Revoke
    /\ Recover(Journal)
    /\ UNCHANGED <<journalVars, dirVars, used, op, receipt, faults>>

\* A local row goes in one transaction with the journaling of its photos.
remove_local_worker(w) ==
    /\ Free
    /\ w \in enrolled
    /\ JournalRetired(photos[w])
    /\ enrolled' = enrolled \ {w}
    /\ photos' = [photos EXCEPT ![w] = {}]
    /\ UNCHANGED <<dirVars, used, op, step, recoveryVars, syncVars, faults>>

-----------------------------------------------------------------------------
(* Recovery.                                                               *)

\* The command line recovers what its removals have retired.
recover_own_cleanup ==
    /\ Free
    /\ op' = [NoOp EXCEPT !.kind = "recover"]
    /\ \E entries \in (SUBSET retired) \ {{}} : Recover(entries)
    /\ UNCHANGED <<rowVars, journalVars, dirVars, used, syncVars, faults>>

\* Before sync applies a roster, and before it completes a receipt.
recover_photo_cleanup ==
    /\ SyncFree
    /\ op' = [NoOp EXCEPT !.kind = "drain"]
    /\ Recover(Journal)
    /\ UNCHANGED <<rowVars, journalVars, dirVars, used, syncVars, faults>>

Recovering(p) == step = "recover" /\ p \in todo

\* A slip: a retired photo is erased although its row is still there.
KeptIfPublished(p) == p \in published /\ p \in References

Kept(p) == p \in References

\* Published photos of a committed row are settled; retired ones stay journaled
\* while a row names them.
KeepEntry(p) ==
    /\ Recovering(p)
    /\ Kept(p)
    /\ published' = published \ {p}
    /\ todo' = todo \ {p}
    /\ UNCHANGED <<rowVars, retired, dirVars, used, op, step, erasing, failed, syncVars,
                   faults>>

\* A slip: a file that is already missing is forgotten without a flush.
TrustAbsence(p) == IF p \in files THEN "unlinked" ELSE "gone"

AfterUnlink(p) == "unlinked"

Unlink(p) ==
    /\ Recovering(p)
    /\ ~Kept(p)
    /\ files' = files \ {p}
    /\ todo' = todo \ {p}
    /\ erasing' = {p}
    /\ step' = AfterUnlink(p)
    /\ UNCHANGED <<rowVars, journalVars, flushed, used, op, failed, syncVars, faults>>

FlushErasure ==
    /\ step = "unlinked"
    /\ flushed' = files
    /\ step' = "gone"
    /\ UNCHANGED <<rowVars, journalVars, files, used, op, recoveryVars, syncVars, faults>>

Forget ==
    /\ step = "gone"
    /\ published' = published \ erasing
    /\ retired' = retired \ erasing
    /\ erasing' = {}
    /\ step' = "recover"
    /\ UNCHANGED <<rowVars, dirVars, used, op, todo, failed, syncVars, faults>>

\* The entry stays for a later recovery; the others are still looked at.
EraseFails ==
    /\ faults < MaxFaults
    /\ faults' = faults + 1
    /\ \/ step = "unlinked" /\ UNCHANGED todo
       \/ \E p \in todo : Recovering(p) /\ ~Kept(p) /\ todo' = todo \ {p}
    /\ erasing' = {}
    /\ failed' = TRUE
    /\ step' = "recover"
    /\ UNCHANGED <<rowVars, journalVars, dirVars, used, op, syncVars>>

\* Sync goes on to the receipt, or to the rows of the roster.
RecoveryDone ==
    /\ step = "recover" /\ todo = {}
    /\ \/ op.kind = "drain" /\ ~failed /\ receipt' = "drained"
       \/ UNCHANGED receipt
    /\ Release
    /\ UNCHANGED <<rowVars, journalVars, dirVars, used, revoked, faults>>

-----------------------------------------------------------------------------
(* The receipt: two questions of their own, and then it is stored.         *)

count_unmanaged_local_workers ==
    /\ receipt = "drained"
    /\ receipt' = IF Local \cap enrolled = {} THEN "managed" ELSE "no"
    /\ UNCHANGED <<rowVars, journalVars, dirVars, used, op, step, recoveryVars, revoked,
                   faults>>

list_unreferenced_photo_files ==
    /\ receipt = "managed"
    /\ receipt' = IF files \subseteq References THEN "clean" ELSE "no"
    /\ UNCHANGED <<rowVars, journalVars, dirVars, used, op, step, recoveryVars, revoked,
                   faults>>

StoreReceipt ==
    /\ receipt = "clean"
    /\ receipt' = "no"
    /\ UNCHANGED <<rowVars, journalVars, dirVars, used, op, step, recoveryVars, revoked,
                   faults>>

-----------------------------------------------------------------------------
(* Failures.                                                               *)

\* The lock goes with its process, which may or may not be sync's.
Crash ==
    /\ faults < MaxFaults
    /\ faults' = faults + 1
    /\ step # "free" \/ receipt # "no"
    /\ Release
    /\ receipt' \in {receipt, "no"}
    /\ UNCHANGED <<rowVars, journalVars, dirVars, used, revoked>>

\* Each directory change that was not flushed is kept or lost.
PowerFailure ==
    /\ faults < MaxFaults
    /\ faults' = faults + 1
    /\ \E kept \in SUBSET ((files \ flushed) \cup (flushed \ files)) :
           files' = (files \cap flushed) \cup kept
    /\ flushed' = files'
    /\ Release
    /\ receipt' = "no"
    /\ UNCHANGED <<rowVars, journalVars, used, revoked>>

-----------------------------------------------------------------------------

HolderNext ==
    \/ Retire \/ FlushFiles \/ add_worker \/ DeleteRow
    \/ FlushErasure \/ Forget \/ RecoveryDone
    \/ \E p \in Paths : WriteFile(p) \/ KeepEntry(p) \/ Unlink(p)

ReceiptNext ==
    count_unmanaged_local_workers \/ list_unreferenced_photo_files \/ StoreReceipt

CallNext ==
    \/ \E w \in Portal : publish_synced_worker(w) \/ remove_worker_by_server_id(w)
    \/ \E w \in Local : publish_local_enrollment(w) \/ remove_local_worker(w)
    \/ recover_own_cleanup \/ recover_photo_cleanup

FaultNext == PublishFails \/ EraseFails \/ Crash \/ PowerFailure

Next == HolderNext \/ ReceiptNext \/ CallNext \/ FaultNext

Spec == Init /\ [][Next]_vars

\* Whoever holds the lock goes on.  Sync runs for ever, and the command line
\* does not keep the lock from it.
FairSpec ==
    /\ Spec
    /\ WF_vars(HolderNext) /\ WF_vars(ReceiptNext)
    /\ SF_vars(recover_photo_cleanup)

-----------------------------------------------------------------------------
(* Properties.                                                             *)

\* The type invariant.
TypeOK ==
    /\ enrolled \subseteq Workers
    /\ photos \in [Workers -> SUBSET Paths]
    /\ published \subseteq Paths /\ retired \subseteq Paths
    /\ published \cap retired = {}
    /\ files \subseteq Paths /\ flushed \subseteq Paths
    /\ used \in 0..MaxPaths
    /\ op \in Ops
    /\ step \in {"free", "retire", "write", "commit", "delete", "recover", "unlinked", "gone"}
    /\ todo \subseteq Paths /\ erasing \subseteq Paths
    /\ failed \in BOOLEAN
    /\ receipt \in {"no", "drained", "managed", "clean"}
    /\ revoked \subseteq Paths
    /\ faults \in 0..MaxFaults

\* Every photo that a row names is on disk, and stays there when the power fails,
\* wherever a publication, removal or recovery was cut short.
\* (database.py _publish_worker_photos, _recover_photo_cleanup_unlocked)
PhotosKept == References \subseteq files \cap flushed

\* No photo outlives its row unnoticed: a file that is on disk, or that comes back
\* when the power fails, is named by a row or journaled.  A thumbnail that an
\* older client has left over is not known before sync removes its worker.
\* (database.py record_photo_cleanup)
NoOrphans == (files \cup flushed) \ Portal \subseteq References \cup Journal

\* Rows, journal and card agree, before and after a power failure.
PhotosFollowRows == PhotosKept /\ NoOrphans

\* A receipt certifies that the photos of the rows sync has deleted or replaced are
\* gone for good: not even a power failure brings one back.
\* (sync.py sync_workers phase=receipt)
ErasedBeforeReceipt == receipt = "clean" => revoked \cap flushed \subseteq References

\* "A missing file alone does not prove its deletion was flushed; finish the journal
\* before certifying this receipt": when the directory is found clean, no photo
\* without a row comes back after a power failure.  (sync.py sync_workers)
MissingIsFlushed == [][receipt' = "clean" /\ receipt # "clean" =>
                       flushed' \subseteq References']_vars

\* A photo that sync has retired is erased in the end, whatever fails on the way.
\* (database.py recover_photo_cleanup)
EventuallyErased ==
    \A p \in Paths : [](p \in revoked => <>(p \notin flushed \/ p \in References))
=============================================================================

-------------------------- MODULE EnrollmentPhotos --------------------------
(***************************************************************************)
(* Enrollment photos in the portal's file storage.                         *)
(*                                                                         *)
(* An enrollment request uploads the accepted photos one by one, saves the *)
(* worker with all of them, and cleans up whatever is still pending.  An   *)
(* upload is an action of three steps: the file is stored, then registered *)
(* as pending with a job that expires it.  The request, the action and     *)
(* every answer may be lost; mutations are serializable.  Photo 0 stands   *)
(* for a photo of the time before uploads were tracked, which several      *)
(* workers may share.  Left out: names, employee ids and encodings, which  *)
(* a save may refuse (RequestFails), and removal, which leaves photos.     *)
(***************************************************************************)
EXTENDS Integers

CONSTANTS
    Users,            \* each with one enrollment request at a time
    Workers,
    MaxPhotos,        \* photos ever uploaded
    MaxTime           \* in units of EXPIRY_MS

VARIABLES
    hour,
    files,            \* _storage
    uploads,          \* photos 1..uploads have been stored
    pending,          \* pendingEnrollmentPhotos: owner and expiry
    expiries,         \* photos with an expire job scheduled
    attached,         \* photoStorageIds of each worker
    storing,          \* the upload action of each user: its file
    request,          \* the enrollment request of each user
    strayed           \* history: files whose upload died before registration

vars == <<hour, files, uploads, pending, expiries, attached, storing, request,
          strayed>>

LegacyPhoto == 0
Photos == 0..MaxPhotos
NoPhoto == -1
NotPending == [owner |-> "none", expires |-> 0]
NoRequest == [pc |-> "idle", photos |-> {}]

Init ==
    /\ hour = 0
    /\ files = {LegacyPhoto}
    /\ uploads = 0
    /\ pending = [p \in Photos |-> NotPending]
    /\ expiries = {}
    /\ attached \in [Workers -> {{}, {LegacyPhoto}}]
    /\ \E w \in Workers : attached[w] # {}
    /\ storing = [u \in Users |-> NoPhoto]
    /\ request = [u \in Users |-> NoRequest]
    /\ strayed = {}

IsPending(p) == pending[p] # NotPending

-----------------------------------------------------------------------------
(* The request.                                                            *)

BeginRequest(u) ==
    /\ request[u].pc = "idle"
    /\ request' = [request EXCEPT ![u].pc = "uploading"]
    /\ UNCHANGED <<hour, files, uploads, pending, expiries, attached, storing,
                   strayed>>

\* A step refused, or an answer lost: what was uploaded is cleaned up.
RequestFails(u) ==
    /\ request[u].pc = "uploading"
    /\ request' = [request EXCEPT ![u].pc = "cleaning"]
    /\ UNCHANGED <<hour, files, uploads, pending, expiries, attached, storing,
                   strayed>>

RequestDies(u) ==
    /\ request[u].pc # "idle"
    /\ request' = [request EXCEPT ![u] = NoRequest]
    /\ UNCHANGED <<hour, files, uploads, pending, expiries, attached, storing,
                   strayed>>

-----------------------------------------------------------------------------
(* The upload action.                                                      *)

Store(u) ==
    /\ request[u].pc = "uploading"
    /\ storing[u] = NoPhoto
    /\ uploads < MaxPhotos
    /\ uploads' = uploads + 1
    /\ files' = files \cup {uploads + 1}
    /\ storing' = [storing EXCEPT ![u] = uploads + 1]
    /\ UNCHANGED <<hour, pending, expiries, attached, request, strayed>>

\* The request learns the id unless it has failed or died meanwhile.
register(u) ==
    /\ storing[u] # NoPhoto
    /\ pending' = [pending EXCEPT ![storing[u]] =
                        [owner |-> u, expires |-> hour + 1]]
    /\ expiries' = expiries \cup {storing[u]}
    /\ storing' = [storing EXCEPT ![u] = NoPhoto]
    /\ request' = [request EXCEPT ![u].photos =
            IF request[u].pc = "uploading" THEN @ \cup {storing[u]} ELSE @]
    /\ UNCHANGED <<hour, files, uploads, attached, strayed>>

\* The registration is refused and the file deleted again.  One that commits is
\* answered: its answer is not lost between the mutation and the action.
UploadRefused(u) ==
    /\ storing[u] # NoPhoto
    /\ files' = files \ {storing[u]}
    /\ storing' = [storing EXCEPT ![u] = NoPhoto]
    /\ UNCHANGED <<hour, uploads, pending, expiries, attached, request, strayed>>

\* The action dies after storing the file, or cannot delete it again.
UploadDies(u) ==
    /\ storing[u] # NoPhoto
    /\ strayed' = strayed \cup {storing[u]}
    /\ storing' = [storing EXCEPT ![u] = NoPhoto]
    /\ UNCHANGED <<hour, files, uploads, pending, expiries, attached, request>>

-----------------------------------------------------------------------------
(* Attachment, in the transaction that saves the worker.                   *)

\* consumeEnrollmentPhotos, as far as it may refuse.
Consumable(u, w, photos) ==
    \A p \in photos :
        /\ p \in files
        /\ IF IsPending(p)
           THEN pending[p].owner = u /\ pending[p].expires > hour
           ELSE p \in attached[w]

\* A slip: photos are deleted though another worker still names them.
ReplacedAnywhere(w, next) == attached[w] \ next

\* deleteReplacedPhotos.
Replaced(w, next) ==
    (attached[w] \ next) \ UNION {attached[v] : v \in Workers \ {w}}

\* A worker is created, restored or given another face.
SaveWorker(u, w) ==
    /\ request[u].pc = "uploading"
    /\ request[u].photos # {}
    /\ storing[u] = NoPhoto
    /\ \E kept \in SUBSET attached[w] :
        LET photos == request[u].photos \cup kept IN
        /\ Consumable(u, w, photos)
        /\ pending' = [p \in Photos |-> IF p \in photos THEN NotPending
                                                        ELSE pending[p]]
        /\ files' = files \ Replaced(w, photos)
        /\ attached' = [attached EXCEPT ![w] = photos]
    /\ request' = [request EXCEPT ![u].pc = "cleaning"]
    /\ UNCHANGED <<hour, uploads, expiries, storing, strayed>>

purgeBiometrics(w) ==
    /\ files' = files \ Replaced(w, {})
    /\ attached' = [attached EXCEPT ![w] = {}]
    /\ UNCHANGED <<hour, uploads, pending, expiries, storing, request, strayed>>

-----------------------------------------------------------------------------
(* Deletion of what was never attached.                                    *)

cleanup(u) ==
    /\ request[u].pc = "cleaning"
    /\ LET own == {p \in request[u].photos : IsPending(p)} IN
        /\ files' = files \ own
        /\ pending' = [p \in Photos |-> IF p \in own THEN NotPending
                                                     ELSE pending[p]]
    /\ request' = [request EXCEPT ![u] = NoRequest]
    /\ UNCHANGED <<hour, uploads, expiries, attached, storing, strayed>>

\* A slip: at the very time of its expiry a photo does not count as expired.
LongExpired(p) == pending[p].expires < hour

HasExpired(p) == pending[p].expires <= hour

\* The job runs at the expiry or later.
expire(p) ==
    /\ p \in expiries
    /\ IsPending(p) => pending[p].expires <= hour
    /\ expiries' = expiries \ {p}
    /\ IF IsPending(p) /\ HasExpired(p)
       THEN /\ files' = files \ {p}
            /\ pending' = [pending EXCEPT ![p] = NotPending]
       ELSE UNCHANGED <<files, pending>>
    /\ UNCHANGED <<hour, uploads, attached, storing, request, strayed>>

Tick ==
    /\ hour < MaxTime
    /\ hour' = hour + 1
    /\ UNCHANGED <<files, uploads, pending, expiries, attached, storing, request,
                   strayed>>

-----------------------------------------------------------------------------
Enroll(u) ==
    \/ BeginRequest(u)
    \/ RequestFails(u)
    \/ RequestDies(u)
    \/ Store(u)
    \/ register(u)
    \/ UploadRefused(u)
    \/ UploadDies(u)
    \/ \E w \in Workers : SaveWorker(u, w)
    \/ cleanup(u)

Next ==
    \/ \E u \in Users : Enroll(u)
    \/ \E w \in Workers : purgeBiometrics(w)
    \/ \E p \in expiries : expire(p)
    \/ Tick

Spec == Init /\ [][Next]_vars

-----------------------------------------------------------------------------
Attached == UNION {attached[w] : w \in Workers}

\* A photo some worker names is never deleted, by the cleanup of a request
\* that failed late, by a due expiry or by another worker's new photos; and no
\* deletion of a pending photo finds the file gone.
AttachedPhotosKept ==
    /\ Attached \subseteq files
    /\ \A p \in Photos : IsPending(p) => p \in files \ Attached

\* A stored file that no worker names will be deleted: an upload holds it or
\* its expiry is still scheduled, wherever the request failed.  Only an upload
\* that dies between two of its steps leaves a file behind.
NothingLeftBehind ==
    \A p \in files \ (Attached \cup strayed) :
        \/ \E u \in Users : storing[u] = p
        \/ IsPending(p) /\ p \in expiries

\* Both together: every stored file is named by a worker or awaits its end, and
\* every file a worker names is stored.
PhotosAreAccountedFor == AttachedPhotosKept /\ NothingLeftBehind
=============================================================================

--------------------------- MODULE ShiftCloseout ---------------------------
(***************************************************************************)
(* The closeout of one shift date, signed by supervisors in their browsers.*)
(*                                                                         *)
(* A page shows the record, its revision and the evidence of the blockers. *)
(* What a supervisor decides is kept by the browser tab with a request id  *)
(* until the server's receipt or its refusal arrives; until then the tab   *)
(* sends only that action, again and again.  An answer may be lost, and a  *)
(* request whose page gave up on it may still arrive; one that is lost is  *)
(* one that does not arrive.  The save is one serializable transaction.    *)
(*                                                                         *)
(* Blockers are named by their evidence; "clear" is evidence of none.      *)
(* Left out: notes, without which blockers cannot be acknowledged and which*)
(* the page demands first, and the figures that are copied into the record.*)
(***************************************************************************)
EXTENDS Integers, FiniteSetsExt

CONSTANTS
    Actors,
    Evidence,         \* evidence of blockers, besides "clear"
    MaxRequests,      \* actions ever decided on
    MaxCopies,        \* copies of requests under way
    MaxRevision

VARIABLES
    blockers,         \* the evidence now
    closeout,         \* shiftCloseouts
    receipts,         \* shiftCloseoutActionReceipts: results by request
    decided,          \* requests 1..decided have been made
    intent,           \* what each asks for
    page,             \* what each actor's page shows
    tab,              \* the pending action of each actor
    wire,             \* copies of each request under way
    applied,          \* history: how often each request took effect
    vouched,          \* history: evidence acknowledged by someone who saw it
    doubtful          \* history: refused while another copy was under way, or
                      \* sent once more after a refusal

serverVars == <<closeout, receipts, applied>>
vars == <<blockers, serverVars, decided, intent, page, tab, wire, vouched,
          doubtful>>

Requests == 1..MaxRequests
NoRequest == 0
NoRevision == -1
Clear == "clear"
NoCloseout == [revision |-> NoRevision, status |-> "none", acknowledged |-> FALSE,
               evidence |-> Clear]
NoTab == [request |-> NoRequest, awaiting |-> FALSE, rejected |-> FALSE]
NoIntent == [actor |-> "nobody", action |-> "save",
             expected |-> NoRevision, acknowledge |-> "no", evidence |-> Clear]
NoReceipt == [revision |-> NoRevision, status |-> "none"]

Init ==
    /\ blockers \in Evidence \cup {Clear}
    /\ closeout = NoCloseout
    /\ receipts = [r \in Requests |-> NoReceipt]
    /\ decided = 0
    /\ intent = [r \in Requests |-> NoIntent]
    /\ page = [a \in Actors |-> [revision |-> NoRevision, status |-> "none",
                                 evidence |-> Clear]]
    /\ tab = [a \in Actors |-> NoTab]
    /\ wire = [r \in Requests |-> 0]
    /\ applied = [r \in Requests |-> 0]
    /\ vouched = {}
    /\ doubtful = {}

\* Exceptions arise and are reviewed, kiosks report, attendance is corrected.
BlockersChange(e) ==
    /\ e # blockers
    /\ blockers' = e
    /\ UNCHANGED <<serverVars, decided, intent, page, tab, wire, vouched, doubtful>>

-----------------------------------------------------------------------------
(* The page and its tab storage.                                           *)

buildCloseoutPayload(a) ==
    /\ page' = [page EXCEPT ![a] = [revision |-> closeout.revision,
                                    status |-> closeout.status,
                                    evidence |-> blockers]]
    /\ UNCHANGED <<blockers, serverVars, decided, intent, tab, wire, vouched,
                   doubtful>>

\* The buttons the page enables.  A client may also leave the acknowledgement
\* as it was, here when it completes.  What reopening says of blockers is not
\* read.
Offered(a, action, acknowledge) ==
    CASE action = "save" -> page[a].status # "completed" /\ acknowledge # "asBefore"
      [] action = "complete" -> page[a].evidence = Clear \/ acknowledge # "no"
      [] action = "reopen" -> page[a].status = "completed" /\ acknowledge = "no"

beginCloseoutAction(a, action, acknowledge) ==
    /\ tab[a] = NoTab
    /\ decided < MaxRequests
    /\ Offered(a, action, acknowledge)
    /\ decided' = decided + 1
    /\ intent' = [intent EXCEPT ![decided + 1] =
            [actor |-> a, action |-> action, expected |-> page[a].revision,
             acknowledge |-> acknowledge,
             evidence |-> IF acknowledge = "yes" THEN page[a].evidence ELSE Clear]]
    /\ tab' = [tab EXCEPT ![a] =
            [request |-> decided + 1, awaiting |-> FALSE, rejected |-> FALSE]]
    /\ vouched' = IF acknowledge = "yes" THEN vouched \cup {page[a].evidence}
                  ELSE vouched
    /\ UNCHANGED <<blockers, serverVars, page, wire, doubtful>>

sendCloseoutAction(a) ==
    /\ tab[a].request # NoRequest
    /\ ~tab[a].awaiting
    /\ MapThenSumSet(LAMBDA r : wire[r], Requests) < MaxCopies
    /\ tab' = [tab EXCEPT ![a].awaiting = TRUE]
    /\ wire' = [wire EXCEPT ![tab[a].request] = @ + 1]
    /\ doubtful' = IF tab[a].rejected THEN doubtful \cup {tab[a].request}
                   ELSE doubtful
    /\ UNCHANGED <<blockers, serverVars, decided, intent, page, vouched>>

\* The connection failed or the page was reloaded; the tab keeps the action.
AnswerLost(a) ==
    /\ tab[a].awaiting
    /\ tab' = [tab EXCEPT ![a].awaiting = FALSE]
    /\ UNCHANGED <<blockers, serverVars, decided, intent, page, wire, vouched,
                   doubtful>>

reconcileRejectedCloseoutAction(a) ==
    /\ tab[a].rejected
    /\ ~tab[a].awaiting
    /\ tab' = [tab EXCEPT ![a] = NoTab]
    /\ UNCHANGED <<blockers, serverVars, decided, intent, page, wire, vouched,
                   doubtful>>

-----------------------------------------------------------------------------
(* The mutation.                                                           *)

Completed == closeout.status = "completed"

\* A slip: a receipt answers only while its revision is the latest.
AnsweredIfLatest(r) ==
    /\ receipts[r] # NoReceipt
    /\ receipts[r].revision = closeout.revision

Answered(r) == receipts[r] # NoReceipt

Acknowledged(r) ==
    /\ intent[r].action # "reopen"
    /\ \/ intent[r].acknowledge = "yes"
       \/ /\ intent[r].acknowledge = "asBefore"
          /\ closeout.acknowledged
          /\ closeout.evidence = blockers

\* A slip: what is acknowledged is not compared with what blocks now.
AnyAcknowledgement(r) ==
    blockers # Clear /\ intent[r].action = "complete" => Acknowledged(r)

BlockersAccepted(r) ==
    blockers # Clear =>
        /\ (intent[r].action # "reopen" /\ intent[r].acknowledge = "yes") =>
                intent[r].evidence = blockers
        /\ intent[r].action = "complete" => Acknowledged(r)

StatusAllows(r) == Completed <=> intent[r].action = "reopen"

\* Nothing is written to sign a signed closeout again.
AlreadyComplete(r) ==
    /\ ~Answered(r)
    /\ intent[r].expected = closeout.revision
    /\ Completed
    /\ intent[r].action = "complete"

Accepted(r) ==
    /\ ~Answered(r)
    /\ intent[r].expected = closeout.revision
    /\ StatusAllows(r)
    /\ BlockersAccepted(r)

NextStatus(r) ==
    CASE intent[r].action = "complete" -> "completed"
      [] intent[r].action = "reopen" -> "reopened"
      [] OTHER -> IF closeout = NoCloseout THEN "open" ELSE closeout.status

NextRevision == IF closeout = NoCloseout THEN 1 ELSE closeout.revision + 1

ApplyAction(r) ==
    /\ NextRevision <= MaxRevision
    /\ closeout' = [revision |-> NextRevision, status |-> NextStatus(r),
                    acknowledged |-> Acknowledged(r),
                    evidence |-> IF Acknowledged(r) THEN blockers ELSE Clear]
    /\ receipts' = [receipts EXCEPT ![r] =
                        [revision |-> NextRevision, status |-> NextStatus(r)]]
    /\ applied' = [applied EXCEPT ![r] = @ + 1]
    /\ vouched' = IF intent[r].action = "reopen" THEN {} ELSE vouched

Waits(r) == tab[intent[r].actor].request = r /\ tab[intent[r].actor].awaiting

\* The receipt clears the pending action of the page that waits for it.
Confirm(r) ==
    tab' = IF Waits(r) THEN [tab EXCEPT ![intent[r].actor] = NoTab] ELSE tab

\* A conflict marks it as rejected; a record whose status does not allow the
\* action is an error like any other, after which the outcome stays open.
Refuse(r) ==
    LET conflict == \/ intent[r].expected # closeout.revision
                    \/ StatusAllows(r) /\ ~BlockersAccepted(r)
    IN
    /\ tab' = IF Waits(r)
              THEN [tab EXCEPT ![intent[r].actor].awaiting = FALSE,
                               ![intent[r].actor].rejected = @ \/ conflict]
              ELSE tab
    /\ doubtful' = IF Waits(r) /\ conflict /\ wire[r] > 1
                   THEN doubtful \cup {r} ELSE doubtful

save(r) ==
    /\ wire[r] > 0
    /\ wire' = [wire EXCEPT ![r] = @ - 1]
    /\ \/ /\ Answered(r)
          /\ Confirm(r)
          /\ UNCHANGED <<serverVars, vouched, doubtful>>
       \/ /\ AlreadyComplete(r)
          /\ receipts' = [receipts EXCEPT ![r] = [revision |-> closeout.revision,
                                                  status |-> closeout.status]]
          /\ Confirm(r)
          /\ UNCHANGED <<closeout, applied, vouched, doubtful>>
       \/ /\ Accepted(r)
          /\ ApplyAction(r)
          /\ Confirm(r)
          /\ UNCHANGED doubtful
       \/ /\ ~Answered(r) /\ ~AlreadyComplete(r) /\ ~Accepted(r)
          /\ Refuse(r)
          /\ UNCHANGED <<serverVars, vouched>>
    /\ UNCHANGED <<blockers, decided, intent, page>>

-----------------------------------------------------------------------------
Browse(a) ==
    \/ buildCloseoutPayload(a)
    \/ \E action \in {"save", "complete", "reopen"},
          acknowledge \in {"yes", "no", "asBefore"} :
            beginCloseoutAction(a, action, acknowledge)
    \/ sendCloseoutAction(a)
    \/ AnswerLost(a)
    \/ reconcileRejectedCloseoutAction(a)

Next ==
    \/ \E e \in Evidence \cup {Clear} : BlockersChange(e)
    \/ \E a \in Actors : Browse(a)
    \/ \E r \in 1..decided : save(r)

Spec == Init /\ [][Next]_vars

-----------------------------------------------------------------------------
\* Whoever completes a closeout, its blockers at that moment are ones that a
\* supervisor saw and acknowledged since it was last open, though blockers
\* change between the page and the signature and acknowledgements carry over.
SignedForSeenBlockers ==
    [][closeout' # closeout /\ closeout'.status = "completed" =>
            blockers = Clear \/ blockers \in vouched]_vars

\* An action has at most one effect however often it is sent, and none if the
\* page reports it as rejected, unless an earlier copy, on which the page had
\* given up, was still under way then, or the supervisor sent it once more.
RejectedNotApplied ==
    \A r \in Requests :
        /\ applied[r] <= 1
        /\ \A a \in Actors :
            tab[a].request = r /\ tab[a].rejected /\ r \notin doubtful =>
                applied[r] = 0
=============================================================================

-------------------------- MODULE DirectCorrections --------------------------
(***************************************************************************)
(* Corrections made from the activity log: a dialog                        *)
(* (src/src/components/AttendanceCorrectionDialog.tsx) whose request may   *)
(* have been saved although its answer never came.  The page               *)
(* (src/src/app/log/page.tsx) then locks on that request until it is       *)
(* settled, through closing, other dates and reloads of the tab, and the   *)
(* portal recognises a repeated request by its id.                         *)
(*                                                                         *)
(* One supervisor with one tab whose session storage works.  Rows are      *)
(* loaded at once.  What is typed into a dialog is chosen when it is saved.*)
(* Another supervisor voids the same rows and reverses that again.         *)
(***************************************************************************)
EXTENDS Naturals, FiniteSets

CONSTANTS
    Dates,        \* the factory dates the log may show
    Reasons,      \* what makes two drafts of the same kind different
    MaxIds,       \* bounds the requests
    MaxDialogs,   \* bounds the dialogs opened
    MaxCopies,    \* bounds the copies of requests under way at a time
    MaxVisits,    \* bounds how often the page is left and opened again
    MaxOthers,    \* bounds what the other supervisor does
    MaxSignOuts   \* bounds how often the session ends

DirectCorrectionsAssumption ==
    /\ {MaxIds, MaxDialogs, MaxCopies, MaxVisits, MaxOthers, MaxSignOuts}
         \subseteq Nat

VARIABLES
    date,      \* the date the page shows
    dialog,    \* the open dialog: a set of at most one
    dialogs,   \* how many were opened
    visit,     \* which visit of the page this is
    checks,    \* looks at the neighbouring day before a save
    pending,   \* the page's lock: a set of at most one request
    stored,    \* the same in the session storage
    ids,       \* the id kept for each payload that is not acknowledged
    posted,    \* requests 1..posted were posted
    known,     \* history: those whose outcome the supervisor was told
    copies,    \* copies of requests under way
    applied,   \* the corrections saved, by request
    taken,     \* the dates whose row another supervisor holds voided
    others,    \* how often that changed
    signedIn,  \* whether the session is valid
    signOuts   \* how often it ended

pageVars == <<date, dialog, dialogs, visit, checks, pending, stored, ids,
              posted, known>>
portalVars == <<applied, taken, others, signedIn, signOuts>>
vars == <<pageVars, copies, portalVars>>

\* Each date has one row to void; a punch added is its own row.
Payloads == [date : Dates, kind : {"add", "void"}, reason : Reasons]

Init ==
    /\ date \in Dates
    /\ dialog = {}
    /\ dialogs = 0
    /\ visit = 0
    /\ checks = {}
    /\ pending = {}
    /\ stored = {}
    /\ ids = <<>>
    /\ posted = 0
    /\ known = {}
    /\ copies = {}
    /\ applied = {}
    /\ taken = {}
    /\ others = 0
    /\ signedIn = TRUE
    /\ signOuts = 0

-----------------------------------------------------------------------------
(* The page.                                                               *)

\* A slip: an unconfirmed request only concerns its own date.
LockedHere == {}

\* The requests of another date that have to be settled first.
pendingElsewhere == {p \in pending : p.payload.date # date}

\* A fresh draft, or the unconfirmed request of this date, frozen.
openCorrection ==
    /\ dialog = {}
    /\ dialogs < MaxDialogs
    /\ pendingElsewhere = {}
    /\ LET here == {p \in pending : p.payload.date = date}
       IN dialog' = {[number |-> dialogs + 1, frozen |-> here,
                      phase |-> IF here = {} THEN "editing" ELSE "uncertain"]}
    /\ dialogs' = dialogs + 1
    /\ UNCHANGED <<date, visit, checks, pending, stored, ids, posted, known,
                   copies, portalVars>>

close ==
    /\ dialog # {}
    /\ dialog' = {}
    /\ UNCHANGED <<date, dialogs, visit, checks, pending, stored, ids, posted,
                   known, copies, portalVars>>

\* What the storage still holds from an earlier visit of the page.
readPendingDirectCorrection == stored

\* Another date discards the draft.
setDate ==
    /\ \E d \in Dates \ {date} : date' = d
    /\ dialog' = {}
    /\ UNCHANGED <<dialogs, visit, checks, pending, stored, ids, posted, known,
                   copies, portalVars>>

\* The page is left and opened again, within the portal or by a reload that
\* also forgets what it was waiting for.
Revisit ==
    /\ visit < MaxVisits
    /\ visit' = visit + 1
    /\ dialog' = {}
    /\ pending' = readPendingDirectCorrection
    /\ \/ UNCHANGED <<checks, copies>>
       \/ /\ checks' = {}
          /\ copies' = {[c EXCEPT !.awaited = FALSE] :
                          c \in {x \in copies : x.state = "sent"}}
    /\ UNCHANGED <<date, dialogs, stored, ids, posted, known, portalVars>>

-----------------------------------------------------------------------------
(* The dialog.                                                             *)

Without(p) == [q \in DOMAIN ids \ {p} |-> ids[q]]

\* The id kept for a payload, or a new one.
correctionRequestId(payload) ==
    IF payload \in DOMAIN ids THEN ids[payload] ELSE posted + 1

\* The lock, and its copy in the session storage.
writePendingDirectCorrection(request) ==
    /\ pending' = {request}
    /\ stored' = {request}

\* The lock is set before the request leaves.
send(d, request) ==
    /\ request.id <= MaxIds
    /\ Cardinality(copies) < MaxCopies
    /\ copies' = copies \cup {[request |-> request, number |-> d.number,
                               visit |-> visit, state |-> "sent",
                               awaited |-> TRUE]}
    /\ posted' = IF request.id > posted THEN request.id ELSE posted
    /\ writePendingDirectCorrection(request)
    /\ dialog' = {[d EXCEPT !.phase = "saving"]}

Draft(payload) == [payload |-> payload, id |-> correctionRequestId(payload)]

Keep(request) ==
    ids' = [p \in DOMAIN ids \cup {request.payload} |->
              IF p = request.payload THEN request.id ELSE ids[p]]

\* Save: near midnight the neighbouring day is read first.
submit(d, payload) ==
    /\ d.phase = "editing"
    /\ payload.date = date
    /\ \/ /\ send(d, Draft(payload))
          /\ Keep(Draft(payload))
          /\ UNCHANGED checks
       \/ /\ dialog' = {[d EXCEPT !.phase = "saving"]}
          /\ checks' = checks \cup {[number |-> d.number, payload |-> payload]}
          /\ UNCHANGED <<pending, stored, ids, posted, copies>>
    /\ UNCHANGED <<date, dialogs, visit, known, portalVars>>

\* A slip: a dialog that was closed goes on.
Unclosed(k) == {[number |-> k.number, frozen |-> {}, phase |-> "saving"]}

\* The dialog a check belongs to, unless it was closed meanwhile.
Asking(k) == {d \in dialog : d.number = k.number}

\* The neighbouring day was read: nothing like it there, or the dialog asks
\* again, as it does when the day could not be read.
Checked(k) ==
    /\ checks' = checks \ {k}
    /\ \/ /\ Asking(k) = {}
          /\ UNCHANGED <<dialog, pending, stored, ids, posted, copies>>
       \/ \E d \in Asking(k) :
            \/ /\ send(d, Draft(k.payload))
               /\ Keep(Draft(k.payload))
            \/ /\ dialog' = {[d EXCEPT !.phase = "editing"]}
               /\ UNCHANGED <<pending, stored, ids, posted, copies>>
    /\ UNCHANGED <<date, dialogs, visit, known, portalVars>>

\* A frozen request is repeated as it is.
Retry(d) ==
    /\ d.phase = "uncertain"
    /\ \E request \in d.frozen : send(d, request)
    /\ UNCHANGED <<date, dialogs, visit, checks, ids, known, portalVars>>

-----------------------------------------------------------------------------
(* The portal.                                                             *)

\* The row of a date is voided by the other supervisor or by a request.
Voided(d) == d \in taken \/ \E p \in applied : p.payload.date = d
                                               /\ p.payload.kind = "void"

\* A copy arrives: it is refused without a session, recognised, rejected or
\* saved.  Only the answer to a copy that is still awaited matters.
POST(c) ==
    LET saved == c.request \in applied
        answer == IF ~signedIn THEN "refused"
                  ELSE IF saved THEN "ok"
                  ELSE IF c.request.payload.kind = "void"
                          /\ Voided(c.request.payload.date)
                  THEN "rejected" ELSE "ok"
    IN /\ c.state = "sent"
       /\ applied' = IF answer = "ok" THEN applied \cup {c.request} ELSE applied
       /\ copies' = (copies \ {c}) \cup
                      IF c.awaited THEN {[c EXCEPT !.state = answer]} ELSE {}
       /\ UNCHANGED <<pageVars, taken, others, signedIn, signOuts>>

OtherSupervisor(d) ==
    /\ others < MaxOthers
    /\ others' = others + 1
    /\ \/ ~Voided(d) /\ taken' = taken \cup {d}
       \/ d \in taken /\ taken' = taken \ {d}
    /\ UNCHANGED <<pageVars, copies, applied, signedIn, signOuts>>

SessionEnds ==
    /\ signedIn
    /\ signOuts < MaxSignOuts
    /\ signedIn' = FALSE
    /\ signOuts' = signOuts + 1
    /\ UNCHANGED <<pageVars, copies, applied, taken, others>>

SignIn ==
    /\ ~signedIn
    /\ signedIn' = TRUE
    /\ UNCHANGED <<pageVars, copies, applied, taken, others, signOuts>>

-----------------------------------------------------------------------------
(* The answer.                                                             *)

\* A slip: an answer clears whatever is stored.
AllCleared(request) == stored' = {}

\* What is stored of a request is cleared; a newer request stays.
clearPending(request) == stored' = {p \in stored : p.id # request.id}

\* A request is settled: its id is released, and the page it came from
\* unlocks.
Settled(c) ==
    /\ ids' = Without(c.request.payload)
    /\ clearPending(c.request)
    /\ pending' = IF c.visit = visit
                  THEN {p \in pending : p.id # c.request.id} ELSE pending
    /\ known' = known \cup {c.request.id}

\* The dialog of a copy, if it is the one that is open, changes its phase.
Phase(c, phase, frozen) ==
    dialog' = {IF d.number = c.number
               THEN [d EXCEPT !.phase = phase, !.frozen = frozen] ELSE d :
                 d \in dialog}

Saved(c) ==
    /\ c.state = "ok"
    /\ Settled(c)
    /\ dialog' = {d \in dialog : d.number # c.number}

\* Nothing was saved: the draft may be edited.
Rejected(c) ==
    /\ c.state = "rejected"
    /\ Settled(c)
    /\ Phase(c, "editing", {})

\* Refused for the session, which says nothing of an earlier copy.
Refused(c) ==
    /\ c.state = "refused"
    /\ Phase(c, "uncertain", {c.request})
    /\ UNCHANGED <<pending, stored, ids, known>>

Answer(c) ==
    /\ c.awaited
    /\ Saved(c) \/ Rejected(c) \/ Refused(c)
    /\ copies' = copies \ {c}
    /\ UNCHANGED <<date, dialogs, visit, checks, posted, portalVars>>

\* No answer, or one that says nothing: the copy may arrive all the same.
NoAnswer(c) ==
    /\ c.awaited
    /\ Phase(c, "uncertain", {c.request})
    /\ copies' = (copies \ {c}) \cup
                   IF c.state = "sent" THEN {[c EXCEPT !.awaited = FALSE]} ELSE {}
    /\ UNCHANGED <<date, dialogs, visit, checks, pending, stored, ids, posted,
                   known, portalVars>>

Lost(c) ==
    /\ ~c.awaited
    /\ copies' = copies \ {c}
    /\ UNCHANGED <<pageVars, portalVars>>

Next ==
    \/ openCorrection
    \/ close
    \/ setDate
    \/ Revisit
    \/ \E d \in dialog : Retry(d) \/ \E p \in Payloads : submit(d, p)
    \/ \E k \in checks : Checked(k)
    \/ \E c \in copies : POST(c) \/ Answer(c) \/ NoAnswer(c) \/ Lost(c)
    \/ \E d \in Dates : OtherSupervisor(d)
    \/ SessionEnds
    \/ SignIn

Spec == Init /\ [][Next]_vars

-----------------------------------------------------------------------------
\* While the supervisor does not know what became of a correction, no other
\* one is posted from the activity log: not by a dialog closed earlier, not
\* for another date, not after a reload, and not because a late answer to an
\* older request unlocked the page.
OneUnconfirmed == \A i, j \in 1..posted \ known : i = j
=============================================================================

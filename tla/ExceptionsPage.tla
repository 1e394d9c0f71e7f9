---------------------------- MODULE ExceptionsPage ----------------------------
(***************************************************************************)
(* A supervisor's page of one day's exceptions                             *)
(* (src/src/app/exceptions/page.tsx): which day it shows and what it holds *)
(* of it, the note typed for an exception and its review, and the          *)
(* correction drafted for it, while reads overlap, answers are lost, the   *)
(* evidence changes and midnight passes.                                   *)
(*                                                                         *)
(* Each day has one exception, that can be corrected whatever its evidence *)
(* is.  The dialog of a correction covers the page.  Roles without the     *)
(* right to review, filters and the times entered are left out; the reason *)
(* stands for all that is typed in a correction.                           *)
(***************************************************************************)
EXTENDS Naturals, FiniteSets

CONSTANTS
    Days,         \* the factory's days, 1..n
    Links,        \* the addresses a link may lead to: sets of at most one day
    Texts,        \* what may be typed
    MaxReads,     \* bounds the reads of the page
    MaxChanges,   \* bounds what others change
    MaxRequests   \* bounds the reviews and corrections sent

ASSUME ExceptionsPageAssumption ==
    /\ Days \subseteq Nat /\ 1 \in Days
    /\ Links \subseteq SUBSET Days /\ \A l \in Links : Cardinality(l) <= 1
    /\ {MaxReads, MaxChanges, MaxRequests} \subseteq Nat

VARIABLES
    day,         \* the factory's current day
    url,         \* the day in the address, a set of at most one
    date,        \* the day selected
    kept,        \* whether the selection no longer follows the current day
    data,        \* what the page shows: a set of at most one reading
    reads,       \* the reads that have not come back
    reading,     \* the number of the last one
    note,        \* the note typed and not saved: a set of at most one
    review,      \* the review under way: a set of at most one
    draft,       \* the correction drafted: a set of at most one
    conflict,    \* whether its source was found changed
    saving,      \* the correction under way: a set of at most one
    late,        \* corrections given up that may still arrive
    acked,       \* corrections acknowledged, whose id is not used again
    requests,    \* how many reviews and corrections were sent
    evidence,    \* [day -> the version of what the exception is derived from]
    saved,       \* [day -> the note saved, a set of at most one]
    applied,     \* the corrections applied
    changes,     \* how often others changed something
    typed,       \* history: what was typed last and not given up
    notes        \* history: the notes ever saved

choice == <<day, url, date, kept>>
shown == <<data, reads, reading>>
work == <<note, review, draft, conflict, saving, late, acked, requests>>
portal == <<evidence, saved, applied, changes>>
history == <<typed, notes>>
vars == <<choice, shown, work, portal, history>>

-----------------------------------------------------------------------------
(* useSelectedData: what is shown belongs to the selection and to its last *)
(* read.                                                                   *)

\* Another read replaces what is shown.
Refresh(d) ==
    /\ reading < MaxReads
    /\ reading' = reading + 1
    /\ reads' = reads \cup {[date |-> d, number |-> reading + 1, got |-> {}]}
    /\ data' = {}

\* After a save, unless another day was selected meanwhile.
RefreshAfter(d) == IF d = date THEN Refresh(d) ELSE UNCHANGED shown

Loading == \E r \in reads : r.number = reading

\* The portal answers a read.
Read(r) ==
    /\ r.got = {}
    /\ reads' = (reads \ {r}) \cup
                  {[r EXCEPT !.got = {[date |-> r.date,
                                       print |-> evidence[r.date],
                                       note |-> saved[r.date]]}]}
    /\ UNCHANGED <<choice, data, reading, work, portal, history>>

\* A slip: any read of the day selected counts.
OfSelection(r) == r.date = date

IsCurrent(r) == r.number = reading

\* The answer arrives, or the read fails or runs out of time.
Arrive(r) ==
    /\ reads' = reads \ {r}
    /\ data' \in IF IsCurrent(r) THEN {r.got, {}} ELSE {data}
    /\ UNCHANGED <<choice, reading, work, portal, history>>

Reload ==
    /\ ~Loading /\ review = {} /\ saving = {} /\ draft = {}
    /\ Refresh(date)
    /\ UNCHANGED <<choice, work, portal, history>>

-----------------------------------------------------------------------------
(* useFactoryDateSelection: the selection follows the current day until a  *)
(* day is chosen or something is typed.                                    *)

Init ==
    /\ day = 1
    /\ url \in {{}, {1}}
    /\ date = 1
    /\ kept = (url # {})
    /\ data = {}
    /\ reads = {[date |-> 1, number |-> 1, got |-> {}]}
    /\ reading = 1
    /\ note = {}
    /\ review = {}
    /\ draft = {}
    /\ conflict = FALSE
    /\ saving = {}
    /\ late = {}
    /\ acked = {}
    /\ requests = 0
    /\ evidence = [d \in Days |-> 0]
    /\ saved = [d \in Days |-> {}]
    /\ applied = {}
    /\ changes = 0
    /\ typed = {}
    /\ notes = {}

Midnight ==
    /\ day + 1 \in Days
    /\ day' = day + 1
    /\ UNCHANGED <<url, date, kept, shown, work, portal, history>>

\* A slip: typing a note does not hold the day.
KeptByCorrection == kept' = (kept \/ draft' # {} \/ review' # {} \/ saving' # {})

\* The effect after anything typed or sent has changed.
keepDate ==
    kept' = (kept \/ draft' # {} \/ note' # {} \/ review' # {} \/ saving' # {})

\* Another day is selected: the drafts of the old one are dropped.
Select(d) ==
    IF d = date THEN UNCHANGED <<date, note, draft, shown>>
    ELSE /\ date' = d
         /\ note' = {}
         /\ draft' = {}
         /\ Refresh(d)

\* The supervisor picks a day.
setDate(d) ==
    /\ d # date
    /\ review = {} /\ saving = {} /\ draft = {}
    /\ kept' = TRUE
    /\ Select(d)
    /\ typed' = {}
    /\ UNCHANGED <<day, url, review, conflict, saving, late, acked, requests,
                   portal, notes>>

\* A link changes the day in the address.
Follow(l) ==
    /\ l # url
    /\ url' = l
    /\ kept' = (l # {})
    /\ Select(CHOOSE d \in l \cup {day} : l # {} => d \in l)
    /\ typed' = IF date' = date THEN typed ELSE {}
    /\ UNCHANGED <<day, review, conflict, saving, late, acked, requests,
                   portal, notes>>

\* Every 30 seconds and when the tab is shown again.
checkDay ==
    /\ ~kept
    /\ date # day
    /\ Select(day)
    /\ UNCHANGED <<day, url, kept, review, conflict, saving, late, acked,
                   requests, portal, history>>

-----------------------------------------------------------------------------
(* The review of the exception shown, with its note.                       *)

Type(t) ==
    /\ data # {} /\ draft = {}
    /\ note' = {t}
    /\ typed' = {[date |-> date, text |-> t]}
    /\ UNCHANGED <<day, url, date, shown, review, draft, conflict, saving,
                   late, acked, requests, portal, notes>>
    /\ keepDate

\* The note goes as it is shown: what was typed, or what was saved before.
updateReview ==
    /\ \E r \in data :
         review' = {[date |-> r.date, print |-> r.print, typed |-> note,
                     note |-> IF note # {} THEN note ELSE r.note,
                     state |-> "sent"]}
    /\ review = {} /\ saving = {} /\ draft = {}
    /\ requests < MaxRequests
    /\ requests' = requests + 1
    /\ UNCHANGED <<day, url, date, shown, note, draft, conflict, saving, late,
                   acked, portal, history>>
    /\ keepDate

\* The portal's answer; the answer, or the request, may be lost.
ReviewServed(r) ==
    /\ r.state = "sent"
    /\ \/ /\ r.print = evidence[r.date]
          /\ saved' = [saved EXCEPT ![r.date] = r.note]
          /\ notes' = notes \cup {[date |-> r.date, text |-> t] : t \in r.note}
          /\ \E s \in {"ok", "failed"} : review' = {[r EXCEPT !.state = s]}
       \/ /\ r.print # evidence[r.date]
          /\ \E s \in {"conflict", "failed"} : review' = {[r EXCEPT !.state = s]}
          /\ UNCHANGED <<saved, notes>>
       \/ /\ review' = {[r EXCEPT !.state = "failed"]}
          /\ UNCHANGED <<saved, notes>>
    /\ UNCHANGED <<choice, shown, note, draft, conflict, saving, late, acked,
                   requests, evidence, applied, changes, typed>>

\* A slip: the note on the page goes with the one that was saved.
AllDropped(r) == note' = IF r.date = date THEN {} ELSE note

\* The note that was sent makes way for the saved one, unless it was edited
\* meanwhile.
DropSent(r) ==
    note' = IF r.date = date /\ note = r.typed THEN {} ELSE note

ReviewAnswered(r) ==
    /\ \/ r.state = "ok" /\ DropSent(r) /\ RefreshAfter(r.date)
       \/ r.state = "conflict" /\ RefreshAfter(r.date) /\ UNCHANGED note
       \/ r.state = "failed" /\ UNCHANGED <<note, shown>>
    /\ review' = {}
    /\ UNCHANGED <<day, url, date, draft, conflict, saving, late, acked,
                   requests, portal, history>>
    /\ keepDate

-----------------------------------------------------------------------------
(* The correction suggested for the exception shown.                       *)

\* The draft holds on to the evidence it was opened on.
openCorrection ==
    /\ review = {} /\ saving = {} /\ draft = {}
    /\ \E r \in data, t \in Texts :
         draft' = {[date |-> r.date, print |-> r.print, text |-> t]}
    /\ conflict' = FALSE
    /\ UNCHANGED <<day, url, date, shown, note, review, saving, late, acked,
                   requests, portal, history>>
    /\ keepDate

editReason(t) ==
    /\ draft' = {[d EXCEPT !.text = t] : d \in draft}
    /\ draft' # draft
    /\ UNCHANGED <<day, url, date, shown, note, review, conflict, saving, late,
                   acked, requests, portal, history>>
    /\ keepDate

closeCorrection ==
    /\ draft # {} /\ saving = {}
    /\ draft' = {}
    /\ UNCHANGED <<day, url, date, shown, note, review, conflict, saving, late,
                   acked, requests, portal, history>>
    /\ keepDate

\* A slip: the correction does not say which exception it comes from.
Unrelated(d) == {}

\* The exception a correction comes from, by the fingerprint of its source.
relatedException(d) == {d.print}

\* The same correction has the same id until it is acknowledged.
submitCorrection ==
    /\ ~conflict
    /\ data # {} /\ saving = {}
    /\ \E d \in {x \in draft : x.date = date} :
         LET request == [date |-> d.date, source |-> relatedException(d),
                         text |-> d.text]
         IN saving' = {[request |-> request, again |-> request \in acked,
                        seen |-> d.print, state |-> "sent"]}
    /\ requests < MaxRequests
    /\ requests' = requests + 1
    /\ UNCHANGED <<day, url, date, shown, note, review, draft, conflict, late,
                   acked, portal, history>>
    /\ keepDate

Same(a, s) == a.request = s.request /\ a.again = s.again

\* What the portal does with a correction, and answers.
Create(s, answer) ==
    LET known == \E a \in applied : Same(a, s)
        current == s.request.source \subseteq {evidence[s.request.date]}
    IN \/ /\ known \/ ~current
          /\ answer = IF known THEN "ok" ELSE "conflict"
          /\ UNCHANGED <<evidence, applied>>
       \/ /\ ~known /\ current
          /\ answer = "ok"
          /\ applied' = applied \cup
                          {[request |-> s.request, again |-> s.again,
                            seen |-> s.seen, at |-> evidence[s.request.date]]}
          /\ evidence' = [evidence EXCEPT ![s.request.date] = @ + 1]

\* The correction arrives, and its answer may be lost.
CorrectionServed(s) ==
    /\ s.state = "sent"
    /\ \E answer \in {"ok", "conflict"} :
         /\ Create(s, answer)
         /\ \E state \in {answer, "failed"} :
              saving' = {[s EXCEPT !.state = state]}
    /\ UNCHANGED <<choice, shown, note, review, draft, conflict, late, acked,
                   requests, saved, changes, history>>

\* The page gives up on a correction that has not arrived yet.
CorrectionDelayed(s) ==
    /\ s.state = "sent"
    /\ saving' = {[s EXCEPT !.state = "failed"]}
    /\ late' = late \cup {s}
    /\ UNCHANGED <<choice, shown, note, review, draft, conflict, acked,
                   requests, portal, history>>

LateCorrection(s) ==
    /\ late' = late \ {s}
    /\ \E answer \in {"ok", "conflict"} : Create(s, answer)
    /\ UNCHANGED <<choice, shown, note, review, draft, conflict, saving, acked,
                   requests, saved, changes, history>>

CorrectionAnswered(s) ==
    /\ \/ /\ s.state = "ok"
          /\ acked' = acked \cup {s.request}
          /\ draft' = {}
          /\ RefreshAfter(s.request.date)
          /\ UNCHANGED conflict
       \/ /\ s.state = "conflict"
          /\ conflict' = TRUE
          /\ RefreshAfter(s.request.date)
          /\ UNCHANGED <<draft, acked>>
       \/ /\ s.state = "failed"
          /\ UNCHANGED <<draft, acked, conflict, shown>>
    /\ saving' = {}
    /\ UNCHANGED <<day, url, date, note, review, late, requests, portal, history>>
    /\ keepDate

-----------------------------------------------------------------------------
\* Scans and other supervisors.
EvidenceChanges(d) ==
    /\ changes < MaxChanges
    /\ changes' = changes + 1
    /\ evidence' = [evidence EXCEPT ![d] = @ + 1]
    /\ UNCHANGED <<choice, shown, work, saved, applied, history>>

OtherReview(d, t) ==
    /\ changes < MaxChanges
    /\ changes' = changes + 1
    /\ saved' = [saved EXCEPT ![d] = {t}]
    /\ UNCHANGED <<choice, shown, work, evidence, applied, history>>

Next ==
    \/ Midnight
    \/ checkDay
    \/ Reload
    \/ \E r \in reads : Read(r) \/ Arrive(r)
    \/ \E d \in Days : setDate(d) \/ EvidenceChanges(d)
    \/ \E d \in Days, t \in Texts : OtherReview(d, t)
    \/ \E l \in Links : Follow(l)
    \/ \E t \in Texts : Type(t) \/ editReason(t)
    \/ updateReview
    \/ \E r \in review : ReviewServed(r) \/ ReviewAnswered(r)
    \/ openCorrection
    \/ closeCorrection
    \/ submitCorrection
    \/ \E s \in saving :
         CorrectionServed(s) \/ CorrectionDelayed(s) \/ CorrectionAnswered(s)
    \/ \E s \in late : LateCorrection(s)

Spec == Init /\ [][Next]_vars

-----------------------------------------------------------------------------
\* What the supervisor typed last stays on the page until it is saved or the
\* supervisor goes to another day: neither the answer to a save under way nor
\* midnight takes it away.
TypedIsKept ==
    \A t \in typed : \/ t.date = date /\ note = {t.text}
                     \/ t \in notes

\* A correction only ever changes attendance the supervisor was shown when it
\* was drafted, so that lost answers, edited repetitions and late copies never
\* correct the same thing twice.
AppliedAsSeen == \A a \in applied : a.seen = a.at

\* What is shown of a day never goes back to an earlier reading.
ShownIsLatest ==
    [][\A r \in data, q \in data' : r.date = q.date => r.print <= q.print]_vars
=============================================================================

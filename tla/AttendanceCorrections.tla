----------------------- MODULE AttendanceCorrections -----------------------
(***************************************************************************)
(* Corrections of attendance that void an event, and their reversal.       *)
(*                                                                         *)
(* A supervisor's request carries an id that the browser repeats until the *)
(* answer arrives, so any request may be served again at any later time,   *)
(* after another one or after a reversal.  A request made from an exception*)
(* also carries the fingerprint of its source.  The source of an event's   *)
(* exception is its evidence as long as no active correction voids it.     *)
(* Left out: added events, which are replayed and reversed alike and have  *)
(* no further guard that involves another correction.                      *)
(***************************************************************************)
EXTENDS Integers

CONSTANTS
    Events,           \* attendance rows of one date and worker
    MaxRequests,
    MaxChanges        \* changes of the evidence beside the corrections

VARIABLES
    evidence,         \* what the exception of an event is derived from
    asked,            \* requests 1..asked have been made
    wanted,           \* what each asks for
    corrections,      \* attendanceCorrections, by the request that made them
    reversals,        \* attendanceCorrectionReversals: of which, by which
    effects           \* history: how often each request took effect

vars == <<evidence, asked, wanted, corrections, reversals, effects>>

Requests == 1..MaxRequests
NoFingerprint == -1
NoRequest == [kind |-> "none", event |-> CHOOSE e \in Events : TRUE,
              print |-> NoFingerprint, correction |-> 0]

Init ==
    /\ evidence = 0
    /\ asked = 0
    /\ wanted = [r \in Requests |-> NoRequest]
    /\ corrections = {}
    /\ reversals = {}
    /\ effects = [r \in Requests |-> 0]

IsReversed(c) == \E v \in reversals : v.correction = c
PriorVoids(e) == {c \in corrections : wanted[c].event = e}
ActiveVoids(e) == {c \in PriorVoids(e) : ~IsReversed(c)}

EvidenceChanges ==
    /\ evidence < MaxChanges
    /\ evidence' = evidence + 1
    /\ UNCHANGED <<asked, wanted, corrections, reversals, effects>>

-----------------------------------------------------------------------------
(* Requests, drawn up from what a page showed.                             *)

Ask(what) ==
    /\ asked < MaxRequests
    /\ asked' = asked + 1
    /\ wanted' = [wanted EXCEPT ![asked + 1] = what]
    /\ UNCHANGED <<evidence, corrections, reversals, effects>>

\* Directly, or from an exception, which shows an event not voided yet.
AskVoid(e) ==
    \/ Ask([NoRequest EXCEPT !.kind = "void", !.event = e])
    \/ /\ ActiveVoids(e) = {}
       /\ Ask([NoRequest EXCEPT !.kind = "void", !.event = e, !.print = evidence])

AskReversal(c) ==
    /\ ~IsReversed(c)
    /\ Ask([NoRequest EXCEPT !.kind = "reverse", !.correction = c])

-----------------------------------------------------------------------------
(* The mutations.                                                          *)

\* A slip: a request is forgotten with the correction that was reversed.
ReplayedIfActive(r) == r \in corrections /\ ~IsReversed(r)

Replayed(r) == r \in corrections

\* A slip: one reversed void clears the way for another.
SomeVoidReversed(e) ==
    PriorVoids(e) = {} \/ \E c \in PriorVoids(e) : IsReversed(c)

NotVoided(e) == \A c \in PriorVoids(e) : IsReversed(c)

SourceIsCurrent(r) ==
    wanted[r].print # NoFingerprint =>
        /\ ActiveVoids(wanted[r].event) = {}
        /\ wanted[r].print = evidence

create(r) ==
    /\ wanted[r].kind = "void"
    /\ ~Replayed(r)
    /\ SourceIsCurrent(r)
    /\ NotVoided(wanted[r].event)
    /\ corrections' = corrections \cup {r}
    /\ effects' = [effects EXCEPT ![r] = @ + 1]
    /\ UNCHANGED <<evidence, asked, wanted, reversals>>

reverse(r) ==
    /\ wanted[r].kind = "reverse"
    /\ \A v \in reversals : v.request # r
    /\ ~IsReversed(wanted[r].correction)
    /\ reversals' = reversals \cup {[correction |-> wanted[r].correction,
                                     request |-> r]}
    /\ effects' = [effects EXCEPT ![r] = @ + 1]
    /\ UNCHANGED <<evidence, asked, wanted, corrections>>

-----------------------------------------------------------------------------
Next ==
    \/ EvidenceChanges
    \/ \E e \in Events : AskVoid(e)
    \/ \E c \in corrections : AskReversal(c)
    \/ \E r \in 1..asked : create(r) \/ reverse(r)

Spec == Init /\ [][Next]_vars

-----------------------------------------------------------------------------
\* However voids, reversals and late repetitions interleave, no event is
\* voided by two corrections at a time.
OneActiveVoid ==
    \A e \in Events : \A c, d \in ActiveVoids(e) : c = d

\* A request that is repeated, even after what it did was reversed, does
\* nothing again.
OneEffect == \A r \in Requests : effects[r] <= 1

\* Both together: what is done to an event is done once.
VoidsAreSingle == OneActiveVoid /\ OneEffect
=============================================================================

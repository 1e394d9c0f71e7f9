----------------------- MODULE AttendanceUpload_proofs -----------------------
(***************************************************************************)
(* Proofs about AttendanceUpload, for any number of scans, any page size   *)
(* and any budgets: the upload implements the ledger, the server has every *)
(* scan at most once, and only refused scans are quarantined.              *)
(*                                                                         *)
(* The inductive invariant relates the batches of the page in hand to the  *)
(* queue: they are disjoint, none of their scans is quarantined, and all   *)
(* scans of one batch claim the same kiosk.  Hence a supervisor who        *)
(* releases and repairs scans while a request is under way cannot change   *)
(* what its answer means.                                                  *)
(***************************************************************************)
EXTENDS AttendanceUpload, TLAPS

\* The part of the type that the other facts rest on.
Typed ==
    /\ recorded \in 0..NumLogs
    /\ claim \in [Logs -> Claims]
    /\ valid \in [Logs -> BOOLEAN]
    /\ synced \in [Logs -> BOOLEAN]
    /\ quarantined \in [Logs -> BOOLEAN]
    /\ groups \in Seq(Batches)
    /\ sent \in Batches
    /\ late \subseteq Batches
    /\ copies \in [Logs -> Nat]

\* Nothing is known of a scan before it is recorded; what is confirmed is
\* booked, and what is booked is acceptable.
BooksInv ==
    \A log \in Logs :
        /\ log > recorded => ~synced[log] /\ ~quarantined[log] /\ copies[log] = 0
        /\ synced[log] => copies[log] > 0
        /\ copies[log] > 0 => Acceptable(log)
        /\ copies[log] <= 1
        /\ quarantined[log] => ~Acceptable(log)

\* A batch in hand: recorded, not quarantined, of one claim.
Sound(batch) ==
    /\ batch \subseteq Rows
    /\ \A log \in batch : ~quarantined[log]
    /\ \A a, b \in batch : claim[a] = claim[b]

BatchInv ==
    /\ Sound(sent)
    /\ \A i \in 1..Len(groups) : Sound(groups[i]) /\ groups[i] \cap sent = {}
    /\ \A i, j \in 1..Len(groups) : i # j => groups[i] \cap groups[j] = {}

\* What an answer that is not handled yet says of the batch.
AnswerInv ==
    /\ sent = {} => answer = "none"
    /\ answer = "ok" => \A log \in sent : copies[log] > 0
    /\ answer = "mismatch" => \A log \in sent : claim[log] = "foreign"
    /\ answer = "invalid" => \E log \in sent : ~valid[log]

LateInv == \A batch \in late : \A log \in batch : log \in Rows /\ Acceptable(log)

Inv == BooksInv /\ BatchInv /\ AnswerInv /\ LateInv

-----------------------------------------------------------------------------
(* The batches of a page.                                                  *)

LEMMA GroupsOfPage ==
    ASSUME Typed, NEW page \in SUBSET Logs, NEW gs \in claim_groups(page)
    PROVE  /\ gs \in Seq(Batches)
           /\ \A i \in 1..Len(gs) : /\ gs[i] \subseteq page
                                    /\ \A a, b \in gs[i] : claim[a] = claim[b]
           /\ \A i, j \in 1..Len(gs) : i # j => gs[i] \cap gs[j] = {}
<1> DEFINE Claiming(c) == {log \in page : claim[log] = c}
           Precedes(c, d) == \E log \in Claiming(c) : \A other \in Claiming(d) : log < other
<1>0. PICK order \in UNION {[1..n -> Claims] : n \in 1..PageSize} :
        /\ \A m, k \in DOMAIN order : m < k => Precedes(order[m], order[k])
        /\ gs = [k \in DOMAIN order |-> Uploadable(Claiming(order[k]))]
  BY DEF claim_groups
<1>1. PICK n \in 1..PageSize : order \in [1..n -> Claims]
  OBVIOUS
<1>2. /\ n \in Nat
      /\ Len(gs) = n
      /\ gs \in Seq(Batches)
      /\ \A i \in 1..n : gs[i] = {log \in page : claim[log] = order[i] /\ mapped[log]}
  BY <1>0, <1>1, ConstantsAssumption DEF Batches, Uploadable
<1>3. ASSUME NEW i \in 1..n, NEW j \in 1..n, i < j
      PROVE  order[i] # order[j]
  <2>1. PICK log \in Claiming(order[i]) : \A other \in Claiming(order[j]) : log < other
    BY <1>0, <1>1, <1>3
  <2>2. log \in Nat
    BY DEF Logs
  <2>3. QED
    BY <2>1, <2>2
<1>4. ASSUME NEW i \in 1..n, NEW j \in 1..n, i # j
      PROVE  order[i] # order[j]
  BY <1>2, <1>3, <1>4
<1>5. QED
  BY <1>2, <1>4

-----------------------------------------------------------------------------
(* Type correctness of the part the proofs use.                            *)

LEMMA InitTyped == Init => Typed
  BY ConstantsAssumption DEF Init, Typed, Claims, Batches

LEMMA PageIsQueued ==
    ASSUME Typed
    PROVE  /\ Page \in SUBSET Logs
           /\ Page \subseteq Queued
           /\ Rows \subseteq Logs
  BY ConstantsAssumption DEF Typed, Page, Candidates, Queued, Rows, Logs

LEMMA NextTyped ==
    ASSUME Typed, [Next]_vars
    PROVE  Typed'
<1> USE DEF Typed, rowVars, cycleVars, netVars
<1>1. ASSUME NEW log \in Logs, NEW c \in Claims, NEW v \in BOOLEAN, NEW m \in BOOLEAN,
             Record(log, c, v, m)
      PROVE  Typed'
  BY <1>1, ConstantsAssumption DEF Record, Logs
<1>2. ASSUME NEW log \in Logs, MapWorker(log)
      PROVE  Typed'
  BY <1>2 DEF MapWorker
<1>3. ASSUME NEW log \in Logs, NEW r \in BOOLEAN, retry_attendance_rejection(log, r)
      PROVE  Typed'
  BY <1>3 DEF retry_attendance_rejection
<1>0. <<>> \in Seq(Batches) /\ {} \in Batches
  BY DEF Batches
<1>4. CASE StartCycle \/ EndPass
  <2>1. /\ groups' = <<>> \/ groups' = groups
        /\ UNCHANGED <<recorded, claim, valid, synced, quarantined, sent, late, copies>>
    BY <1>4 DEF StartCycle, EndPass, BeginPass
  <2>2. QED
    BY <1>0, <2>1
<1>5. CASE ReadPage
  BY <1>5, GroupsOfPage, PageIsQueued DEF ReadPage
<1>6. CASE FinishPage
  BY <1>6 DEF FinishPage, StoreCursor
<1>7. CASE SkipGroup \/ upload_attendance
  <2>1. groups # <<>>
    BY <1>7 DEF SkipGroup, upload_attendance
  <2>2. Head(groups) \in Batches /\ Tail(groups) \in Seq(Batches)
    BY <2>1
  <2>3. QED
    BY <1>7, <2>2 DEF SkipGroup, upload_attendance
<1>8. CASE OutOfBudget
  BY <1>8 DEF OutOfBudget, Abandon, Batches
<1>9. CASE mark_synced
  BY <1>9 DEF mark_synced, Batches
<1>10. CASE Bisect
  <2>1. FirstHalf(sent) \in Batches /\ sent \ FirstHalf(sent) \in Batches
    BY DEF FirstHalf, Batches
  <2>2. <<FirstHalf(sent), sent \ FirstHalf(sent)>> \in Seq(Batches)
    BY <2>1
  <2>3. groups' \in Seq(Batches)
    BY <1>10, <2>2 DEF Bisect
  <2>4. QED
    BY <1>10, <2>3 DEF Bisect, Batches
<1>11. ASSUME NEW log \in Logs, RejectMismatch(log) \/ RejectInvalid(log)
       PROVE  Typed'
  BY <1>11 DEF RejectMismatch, RejectInvalid, reject_attendance, Batches
<1>12. CASE ServeBatch
  BY <1>12 DEF ServeBatch, bulkCreateFromHttp
<1>13. ASSUME NEW batch \in late, ServeLate(batch)
       PROVE  Typed'
  BY <1>13 DEF ServeLate, bulkCreateFromHttp
<1>14. CASE GiveUp \/ Crash
  <2>1. /\ groups' = <<>> /\ sent' = {}
        /\ UNCHANGED <<recorded, claim, valid, synced, quarantined, copies>>
        /\ late' \subseteq late \cup {sent}
    BY <1>14 DEF GiveUp, Crash, Abandon, Delayed
  <2>2. QED
    BY <1>0, <2>1
<1>15. CASE UNCHANGED vars
  BY <1>15 DEF vars
<1>16. QED
  BY <1>1, <1>2, <1>3, <1>4, <1>5, <1>6, <1>7, <1>8, <1>9, <1>10, <1>11, <1>12,
     <1>13, <1>14, <1>15
  DEF Next, WorldNext, SyncNext, ServerNext, Fault

\* The rest of the type: the cycle's own variables.
CycleTyped ==
    /\ mapped \in [Logs -> BOOLEAN]
    /\ scanAfter \in [Passes -> 0..NumLogs]
    /\ pass \in Passes \cup {"idle"}
    /\ cursor \in 0..NumLogs
    /\ pagesLeft \in 0..PagesPerCycle
    /\ pageEnd \in 0..NumLogs
    /\ budget \in 0..RequestBudget
    /\ answer \in {"none", "ok", "mismatch", "invalid"}

LEMMA NextCycleTyped ==
    ASSUME Typed, CycleTyped, [Next]_vars
    PROVE  CycleTyped'
<1> USE ConstantsAssumption DEF CycleTyped, rowVars, cycleVars, netVars
<1>1. CASE WorldNext
  <2>1. /\ \/ UNCHANGED mapped
           \/ \E log \in Logs, m \in BOOLEAN : mapped' = [mapped EXCEPT ![log] = m]
        /\ UNCHANGED scanAfter \/ scanAfter' = [p \in Passes |-> 0]
        /\ UNCHANGED <<pass, cursor, pagesLeft, pageEnd, budget, answer>>
    BY <1>1 DEF WorldNext, Record, MapWorker, retry_attendance_rejection
  <2>2. mapped' \in [Logs -> BOOLEAN]
    BY <2>1
  <2>3. scanAfter' \in [Passes -> 0..NumLogs]
    BY <2>1
  <2>4. QED
    BY <2>1, <2>2, <2>3
<1>2. CASE StartCycle
  BY <1>2 DEF StartCycle, BeginPass, Passes
<1>3. CASE ReadPage
  <2>1. /\ \E last \in Page : pageEnd' = last
        /\ pagesLeft > 0 /\ pagesLeft' = pagesLeft - 1
        /\ UNCHANGED <<mapped, scanAfter, pass, cursor, budget, answer>>
    BY <1>3 DEF ReadPage
  <2>2. \A log \in Page : log \in 0..NumLogs
    BY PageIsQueued DEF Logs
  <2>3. pageEnd' \in 0..NumLogs
    BY <2>1, <2>2
  <2>4. pagesLeft' \in 0..PagesPerCycle
    BY <2>1
  <2>5. QED
    BY <2>1, <2>3, <2>4
<1>4. CASE FinishPage
  <2>1. /\ cursor' = pageEnd /\ pageEnd' = 0
        /\ scanAfter' = [scanAfter EXCEPT ![pass] = pageEnd]
        /\ UNCHANGED <<mapped, pass, pagesLeft, budget, answer>>
    BY <1>4 DEF FinishPage, StoreCursor
  <2>2. scanAfter' \in [Passes -> 0..NumLogs]
    BY <2>1
  <2>3. QED
    BY <2>1, <2>2
<1>5. CASE EndPass
  <2>1. /\ scanAfter' = [scanAfter EXCEPT ![pass] = 0] \/ UNCHANGED scanAfter
        /\ UNCHANGED <<mapped, budget, answer>>
        /\ \/ BeginPass("historical")
           \/ pass' = "idle" /\ UNCHANGED <<cursor, pagesLeft, pageEnd>>
    BY <1>5 DEF EndPass, RewindCursor
  <2>2. scanAfter' \in [Passes -> 0..NumLogs]
    BY <2>1
  <2>3. CASE BeginPass("historical")
    <3>1. scanAfter["historical"] \in 0..NumLogs /\ "historical" \in Passes
      BY DEF Passes
    <3>2. QED
      BY <2>1, <2>2, <2>3, <3>1 DEF BeginPass
  <2>4. QED
    BY <2>1, <2>2, <2>3
<1>6. CASE SkipGroup \/ upload_attendance
  BY <1>6 DEF SkipGroup, upload_attendance, MayRequest
<1>7. CASE OutOfBudget \/ Fault
  BY <1>7 DEF OutOfBudget, Fault, GiveUp, Crash, Abandon
<1>8. CASE mark_synced \/ Bisect
  BY <1>8 DEF mark_synced, Bisect
<1>9. CASE \E log \in Logs : RejectMismatch(log) \/ RejectInvalid(log)
  BY <1>9 DEF RejectMismatch, RejectInvalid
<1>10. CASE ServerNext
  BY <1>10 DEF ServerNext, ServeBatch, ServeLate, Verdict
<1>11. CASE UNCHANGED vars
  BY <1>11 DEF vars
<1>12. QED
  BY <1>1, <1>2, <1>3, <1>4, <1>5, <1>6, <1>7, <1>8, <1>9, <1>10, <1>11
  DEF Next, SyncNext

\* Every reachable state of the upload is well typed: no cursor, page budget or
\* request budget leaves its range.  (sync.py _sync_attendance)
THEOREM TypeCorrect == Spec => []TypeOK
<1>1. Init => Typed /\ CycleTyped
  BY InitTyped, ConstantsAssumption DEF Init, CycleTyped, Passes
<1>2. Typed /\ CycleTyped /\ [Next]_vars => (Typed /\ CycleTyped)'
  BY NextTyped, NextCycleTyped
<1>3. Typed /\ CycleTyped => TypeOK
  BY DEF Typed, CycleTyped, TypeOK
<1>4. QED
  BY <1>1, <1>2, <1>3, PTL DEF Spec

-----------------------------------------------------------------------------
(* The invariant.                                                          *)

LEMMA InitInv == Init => Inv
<1> SUFFICES ASSUME Init PROVE Inv
  OBVIOUS
<1>1. BooksInv
  BY DEF Init, BooksInv
<1>2. BatchInv
  BY DEF Init, BatchInv, Sound
<1>3. AnswerInv /\ LateInv
  BY DEF Init, AnswerInv, LateInv
<1>4. QED
  BY <1>1, <1>2, <1>3 DEF Inv

\* New rows and released ones touch no batch in hand.
LEMMA WorldInv ==
    ASSUME Typed, Inv, WorldNext
    PROVE  Inv'
<1> USE DEF Inv, rowVars, cycleVars, netVars
<1>1. ASSUME NEW log \in Logs, NEW c \in Claims, NEW v \in BOOLEAN, NEW m \in BOOLEAN,
             Record(log, c, v, m)
      PROVE  Inv'
  <2>1. /\ log = recorded + 1
        /\ recorded' = log
        /\ \A other \in Logs : other # log =>
               claim'[other] = claim[other] /\ valid'[other] = valid[other]
        /\ UNCHANGED <<synced, quarantined, groups, sent, answer, late, copies>>
    BY <1>1 DEF Record, Typed
  <2>2. recorded \in Nat /\ Rows \subseteq Rows' /\ log \notin Rows /\ Rows \subseteq Logs
    BY <2>1, PageIsQueued DEF Rows, Typed
  <2>3. BooksInv'
    BY <2>1, <2>2 DEF BooksInv, Acceptable, Logs
  <2>4. ASSUME NEW batch, Sound(batch)
        PROVE  Sound(batch)'
    BY <2>1, <2>2, <2>4 DEF Sound
  <2>5. BatchInv'
    BY <2>1, <2>4 DEF BatchInv
  <2>6. AnswerInv'
    <3>1. \A other \in sent : other \in Logs /\ other # log
      BY <2>2 DEF BatchInv, Sound
    <3>2. QED
      BY <2>1, <3>1 DEF AnswerInv
  <2>7. LateInv'
    BY <2>1, <2>2 DEF LateInv, Acceptable
  <2>8. QED
    BY <2>3, <2>5, <2>6, <2>7
<1>2. ASSUME NEW log \in Logs, MapWorker(log)
      PROVE  Inv'
  BY <1>2 DEF MapWorker, BooksInv, BatchInv, Sound, AnswerInv, LateInv, Acceptable, Rows
<1>3. ASSUME NEW log \in Logs, NEW r \in BOOLEAN, retry_attendance_rejection(log, r)
      PROVE  Inv'
  <2>1. /\ quarantined[log]
        /\ ~quarantined'[log]
        /\ \A other \in Logs : other # log =>
               quarantined'[other] = quarantined[other] /\ valid'[other] = valid[other]
        /\ valid[log] => valid'[log]
        /\ UNCHANGED <<recorded, claim, synced, groups, sent, answer, late, copies>>
    BY <1>3 DEF retry_attendance_rejection, Typed
  <2>2. BooksInv'
    BY <2>1 DEF BooksInv, Acceptable
  <2>3. log \notin sent
    BY <2>1 DEF BatchInv, Sound
  <2>4. ASSUME NEW batch \in SUBSET Logs, Sound(batch)
        PROVE  Sound(batch)'
    BY <2>1, <2>4 DEF Sound, Rows
  <2>5. BatchInv'
    <3>1. sent \in SUBSET Logs /\ \A i \in 1..Len(groups) : groups[i] \in SUBSET Logs
      BY DEF Typed, Batches
    <3>2. QED
      BY <2>1, <2>4, <3>1 DEF BatchInv
  <2>6. AnswerInv'
    BY <2>1, <2>3 DEF AnswerInv, Typed, Batches
  <2>7. LateInv'
    BY <2>1 DEF LateInv, Acceptable, Rows, Typed, Batches
  <2>8. QED
    BY <2>2, <2>5, <2>6, <2>7
<1>4. QED
  BY <1>1, <1>2, <1>3 DEF WorldNext

\* Steps that change neither rows nor books and take no batch in hand.
LEMMA AbandonInv ==
    ASSUME Typed, Inv, UNCHANGED <<rowVars, synced, quarantined, copies>>,
           groups' = <<>>, sent' = {}, answer' = "none", late' = late \/ Delayed
    PROVE  Inv'
<1> USE DEF Inv, rowVars
<1>1. BooksInv'
  BY DEF BooksInv, Acceptable
<1>2. BatchInv'
  BY DEF BatchInv, Sound
<1>3. AnswerInv'
  BY DEF AnswerInv
<1>4. LateInv'
  <2>1. CASE late' = late
    BY <2>1 DEF LateInv, Rows, Acceptable
  <2>2. CASE Verdict(sent) = "ok" /\ late' = late \cup {sent}
    <3>1. \A log \in sent : log \in Rows /\ Acceptable(log)
      BY <2>2 DEF BatchInv, Sound, Verdict, Acceptable
    <3>2. QED
      BY <2>2, <3>1 DEF LateInv, Rows, Acceptable
  <2>3. QED
    BY <2>1, <2>2 DEF Delayed
<1>5. QED
  BY <1>1, <1>2, <1>3, <1>4

\* Steps that leave rows, books and late batches alone.
LEMMA HandInv ==
    ASSUME Typed, Inv, UNCHANGED <<rowVars, synced, quarantined, copies, late>>,
           BatchInv', AnswerInv'
    PROVE  Inv'
  BY DEF Inv, rowVars, BooksInv, LateInv, Acceptable, Rows

\* Soundness depends on the rows only, and parts of a sound batch are sound.
LEMMA SoundPart ==
    ASSUME UNCHANGED <<rowVars, quarantined>>,
           NEW batch, Sound(batch), NEW part \in SUBSET batch
    PROVE  Sound(part)'
  BY DEF rowVars, Sound, Rows

\* Emptying or keeping the page changes nothing.
LEMMA QuietInv ==
    ASSUME Typed, Inv, UNCHANGED <<rowVars, synced, quarantined, netVars, copies>>,
           groups' = groups \/ groups' = <<>>
    PROVE  Inv'
<1> USE DEF netVars
<1>1. BatchInv'
  BY SoundPart DEF Inv, BatchInv
<1>2. AnswerInv'
  BY DEF Inv, AnswerInv, rowVars
<1>3. QED
  BY <1>1, <1>2, HandInv

LEMMA ReadPageInv ==
    ASSUME Typed, Inv, ReadPage
    PROVE  Inv'
<1> USE DEF netVars
<1>1. /\ sent = {} /\ groups' \in claim_groups(Page)
      /\ UNCHANGED <<rowVars, synced, quarantined, netVars, copies>>
  BY DEF ReadPage, AtPage
<1>2. Page \in SUBSET Logs /\ \A log \in Page : log \in Rows /\ ~quarantined[log]
  BY PageIsQueued DEF Queued
<1>3. /\ \A i \in 1..Len(groups') : /\ groups'[i] \subseteq Page
                                     /\ \A a, b \in groups'[i] : claim[a] = claim[b]
      /\ \A i, j \in 1..Len(groups') : i # j => groups'[i] \cap groups'[j] = {}
  BY <1>1, <1>2, GroupsOfPage
<1>4. \A i \in 1..Len(groups') : Sound(groups'[i])
  BY <1>2, <1>3 DEF Sound
<1>5. BatchInv'
  BY <1>1, <1>3, <1>4, SoundPart DEF Inv, BatchInv
<1>6. AnswerInv'
  BY <1>1 DEF Inv, AnswerInv, rowVars
<1>7. QED
  BY <1>1, <1>5, <1>6, HandInv

LEMMA NextGroupInv ==
    ASSUME Typed, Inv, SkipGroup \/ upload_attendance
    PROVE  Inv'
<1> USE DEF netVars
<1>1. /\ groups # <<>> /\ sent = {} /\ groups' = Tail(groups)
      /\ sent' = {} \/ sent' = Head(groups)
      /\ UNCHANGED <<rowVars, synced, quarantined, answer, late, copies>>
  BY DEF SkipGroup, upload_attendance
<1>2. /\ answer = "none"
      /\ Sound(sent)
      /\ \A i \in 1..Len(groups) : Sound(groups[i])
      /\ \A i, j \in 1..Len(groups) : i # j => groups[i] \cap groups[j] = {}
  BY <1>1 DEF Inv, BatchInv, AnswerInv
<1>3. /\ groups \in Seq(Batches) /\ Len(groups) \in Nat \ {0} /\ Head(groups) = groups[1]
      /\ Len(groups') = Len(groups) - 1
      /\ \A i \in 1..Len(groups') : i + 1 \in 1..Len(groups) /\ groups'[i] = groups[i + 1]
  BY <1>1 DEF Typed
<1>4. (\A i \in 1..Len(groups) : Sound(groups[i]))'
  BY <1>1, <1>2, <1>3, SoundPart
<1>5. Sound(sent)'
  BY <1>1, <1>2, <1>3, SoundPart
<1>6. ASSUME NEW i \in 1..Len(groups'), NEW j \in 1..Len(groups'), i # j
      PROVE  groups'[i] \cap groups'[j] = {}
  <2>1. i + 1 # j + 1 /\ i + 1 \in 1..Len(groups) /\ j + 1 \in 1..Len(groups)
    BY <1>3, <1>6
  <2>2. QED
    BY <1>2, <1>3, <2>1
<1>7. \A i \in 1..Len(groups') : groups'[i] \cap sent' = {}
  BY <1>1, <1>2, <1>3
<1>8. BatchInv'
  BY <1>4, <1>5, <1>6, <1>7 DEF BatchInv
<1>9. AnswerInv'
  BY <1>1, <1>2 DEF AnswerInv
<1>10. QED
  BY <1>1, <1>8, <1>9, HandInv

LEMMA BisectInv ==
    ASSUME Typed, Inv, Bisect
    PROVE  Inv'
<1>0. \E A \in SUBSET sent : groups' = <<A, sent \ A>> \o groups
  BY DEF Bisect, FirstHalf
<1>a. PICK A \in SUBSET sent : groups' = <<A, sent \ A>> \o groups
  BY <1>0
<1>b. PICK B \in SUBSET sent : B = sent \ A
  OBVIOUS
<1>1. /\ groups' = <<A, B>> \o groups
      /\ sent' = {} /\ answer' = "none"
      /\ UNCHANGED <<rowVars, synced, quarantined, late, copies>>
  BY <1>a, <1>b DEF Bisect
<1>2. A \subseteq sent /\ B \subseteq sent /\ A \cap B = {}
  BY <1>b
<1>3. /\ Sound(sent)
      /\ \A i \in 1..Len(groups) : Sound(groups[i]) /\ groups[i] \cap sent = {}
      /\ \A i, j \in 1..Len(groups) : i # j => groups[i] \cap groups[j] = {}
  BY DEF Inv, BatchInv
<1>4. /\ groups \in Seq(Batches) /\ <<A, B>> \in Seq(Batches)
  BY <1>2 DEF Typed, Batches
<1>5. /\ Len(groups) \in Nat
      /\ Len(groups') = Len(groups) + 2
      /\ groups'[1] = A /\ groups'[2] = B
      /\ \A i \in 1..Len(groups') : i = 1 \/ i = 2 \/
            (i - 2 \in 1..Len(groups) /\ groups'[i] = groups[i - 2])
  BY <1>1, <1>4
<1>6. (\A i \in 1..Len(groups) : Sound(groups[i]))'
  <2>1. ASSUME NEW batch, Sound(batch)
        PROVE  Sound(batch)'
    BY <1>1, <2>1, SoundPart
  <2>2. Sound(A) /\ Sound(B)
    BY <1>2, <1>3 DEF Sound
  <2>3. \A i \in 1..Len(groups') : Sound(groups'[i])
    BY <1>3, <1>5, <2>2
  <2>4. QED
    BY <2>1, <2>3
<1>7. \A i, j \in 1..Len(groups') : i # j => groups'[i] \cap groups'[j] = {}
  BY <1>2, <1>3, <1>5
<1>8. Sound(sent)'
  BY <1>1, <1>3, SoundPart
<1>9. BatchInv'
  BY <1>1, <1>6, <1>7, <1>8 DEF BatchInv
<1>10. AnswerInv'
  BY <1>1 DEF AnswerInv
<1>11. QED
  BY <1>1, <1>9, <1>10, HandInv

LEMMA SyncedInv ==
    ASSUME Typed, Inv, mark_synced
    PROVE  Inv'
<1>1. /\ answer = "ok"
      /\ \A log \in Logs : synced'[log] = (synced[log] \/ log \in sent)
      /\ sent' = {} /\ answer' = "none" /\ groups' = groups
      /\ UNCHANGED <<rowVars, quarantined, late, copies>>
  BY DEF mark_synced, attendance_acknowledged, cycleVars
<1>2. sent \subseteq Rows /\ \A log \in sent : copies[log] > 0
  BY <1>1 DEF Inv, BatchInv, Sound, AnswerInv
<1>3. BooksInv'
  <2>1. \A log \in sent : ~(log > recorded)
    BY <1>2 DEF Rows, Typed
  <2>2. QED
    BY <1>1, <1>2, <2>1 DEF Inv, BooksInv, Acceptable, rowVars
<1>4. BatchInv'
  <2>1. Sound(sent) /\ sent' \in SUBSET sent
    BY <1>1 DEF Inv, BatchInv
  <2>2. Sound(sent)'
    BY <1>1, <2>1, SoundPart
  <2>3. QED
    BY <1>1, <2>2, SoundPart DEF Inv, BatchInv
<1>5. AnswerInv' /\ LateInv'
  BY <1>1 DEF Inv, AnswerInv, LateInv, Acceptable, rowVars, Rows
<1>6. QED
  BY <1>3, <1>4, <1>5 DEF Inv

\* A quarantined scan leaves the batch in hand, and is in no other.
LEMMA QuarantineInv ==
    ASSUME Typed, Inv, NEW log \in Logs, RejectMismatch(log) \/ RejectInvalid(log)
    PROVE  Inv'
<1>1. /\ log \in sent /\ sent' = sent \ {log}
      /\ quarantined' = [quarantined EXCEPT ![log] = TRUE]
      /\ answer' = (IF sent' = {} THEN "none" ELSE answer)
      /\ answer = "mismatch" \/ (answer = "invalid" /\ sent = {log})
      /\ groups' = groups
      /\ UNCHANGED <<rowVars, synced, late, copies>>
  BY DEF RejectMismatch, RejectInvalid, Alone, reject_attendance, cycleVars
<1>2. log \in Rows /\ ~Acceptable(log)
  BY <1>1 DEF Inv, BatchInv, Sound, AnswerInv, Acceptable
<1>3. \A other \in Logs : quarantined'[other] = (quarantined[other] \/ other = log)
  BY <1>1 DEF Typed
<1>4. BooksInv'
  BY <1>1, <1>2, <1>3 DEF Inv, BooksInv, Acceptable, rowVars, Rows, Typed
<1>5. ASSUME NEW batch \in SUBSET Logs, NEW part \in SUBSET (batch \ {log}), Sound(batch)
      PROVE  Sound(part)'
  BY <1>1, <1>3, <1>5 DEF Sound, Rows, rowVars
<1>6. sent \in SUBSET Logs /\ \A i \in 1..Len(groups) : groups[i] \in SUBSET Logs
  BY DEF Typed, Batches
<1>7. Sound(sent)'
  BY <1>1, <1>5, <1>6 DEF Inv, BatchInv
<1>8. \A i \in 1..Len(groups) : Sound(groups[i])' /\ groups[i] \cap sent' = {}
  BY <1>1, <1>5, <1>6 DEF Inv, BatchInv
<1>9. BatchInv'
  BY <1>1, <1>7, <1>8 DEF Inv, BatchInv
<1>10. AnswerInv' /\ LateInv'
  BY <1>1 DEF Inv, AnswerInv, LateInv, Acceptable, rowVars, Rows
<1>11. QED
  BY <1>4, <1>9, <1>10 DEF Inv

\* Booking acceptable scans keeps the books in order.
LEMMA BookingInv ==
    ASSUME Typed, BooksInv, NEW batch \in SUBSET Logs,
           \A log \in batch : log \in Rows /\ Acceptable(log),
           bulkCreateFromHttp(batch), UNCHANGED <<rowVars, synced, quarantined>>
    PROVE  /\ BooksInv'
           /\ \A log \in batch : copies'[log] > 0
           /\ \A log \in Logs : copies'[log] > 0 <=> copies[log] > 0 \/ log \in batch
<1>1. \A log \in Logs : copies[log] \in Nat /\
        copies'[log] = IF log \in batch /\ copies[log] = 0 THEN 1 ELSE copies[log]
  BY DEF bulkCreateFromHttp, Typed
<1>2. QED
  BY <1>1 DEF BooksInv, Acceptable, rowVars, Rows, Typed

LEMMA ServeInv ==
    ASSUME Typed, Inv, ServeBatch
    PROVE  Inv'
<1>1. /\ sent # {} /\ answer' = Verdict(sent)
      /\ \/ answer' = "ok" /\ bulkCreateFromHttp(sent)
         \/ answer' # "ok" /\ UNCHANGED copies
      /\ UNCHANGED <<rowVars, synced, quarantined, groups, sent, late>>
  BY DEF ServeBatch, cycleVars
<1>2. sent \in SUBSET Logs /\ Sound(sent)
  BY DEF Typed, Batches, Inv, BatchInv
<1>3. Verdict(sent) = "ok" => \A log \in sent : log \in Rows /\ Acceptable(log)
  BY <1>2 DEF Verdict, Acceptable, Sound
<1>4. BooksInv' /\ (answer' = "ok" => \A log \in sent : copies'[log] > 0)
  <2>1. CASE answer' = "ok"
    BY <1>1, <1>2, <1>3, <2>1, BookingInv DEF Inv
  <2>2. CASE answer' # "ok"
    BY <1>1, <2>2 DEF Inv, BooksInv, Acceptable, rowVars
  <2>3. QED
    BY <2>1, <2>2
<1>5. BatchInv'
  BY <1>1, SoundPart DEF Inv, BatchInv
<1>6. /\ Verdict(sent) = "mismatch" => \A log \in sent : claim[log] = "foreign"
      /\ Verdict(sent) = "invalid" => \E log \in sent : ~valid[log]
  BY <1>2 DEF Verdict, Sound
<1>7. AnswerInv'
  BY <1>1, <1>4, <1>6 DEF AnswerInv, rowVars
<1>8. LateInv'
  BY <1>1 DEF Inv, LateInv, Acceptable, rowVars, Rows
<1>9. QED
  BY <1>4, <1>5, <1>7, <1>8 DEF Inv

LEMMA ServeLateInv ==
    ASSUME Typed, Inv, NEW batch \in late, ServeLate(batch)
    PROVE  Inv'
<1>1. /\ late' = late \ {batch} /\ bulkCreateFromHttp(batch)
      /\ UNCHANGED <<rowVars, synced, quarantined, groups, sent, answer>>
  BY DEF ServeLate, cycleVars
<1>2. batch \in SUBSET Logs /\ \A log \in batch : log \in Rows /\ Acceptable(log)
  BY DEF Typed, Batches, Inv, LateInv
<1>3. /\ BooksInv'
      /\ \A log \in Logs : copies[log] > 0 => copies'[log] > 0
  BY <1>1, <1>2, BookingInv DEF Inv
<1>4. BatchInv'
  BY <1>1, SoundPart DEF Inv, BatchInv
<1>5. AnswerInv'
  BY <1>1, <1>3 DEF Inv, AnswerInv, rowVars, Typed, Batches
<1>6. LateInv'
  BY <1>1 DEF Inv, LateInv, Acceptable, rowVars, Rows
<1>7. QED
  BY <1>3, <1>4, <1>5, <1>6 DEF Inv

LEMMA NextInv ==
    ASSUME Typed, Inv, [Next]_vars
    PROVE  Inv'
<1>1. CASE WorldNext
  BY <1>1, WorldInv
<1>2. CASE StartCycle \/ FinishPage \/ EndPass
  BY <1>2, QuietInv DEF StartCycle, FinishPage, EndPass, BeginPass
<1>3. CASE ReadPage
  BY <1>3, ReadPageInv
<1>4. CASE SkipGroup \/ upload_attendance
  BY <1>4, NextGroupInv
<1>5. CASE OutOfBudget \/ Fault
  BY <1>5, AbandonInv DEF OutOfBudget, Fault, GiveUp, Crash, Abandon
<1>6. CASE mark_synced
  BY <1>6, SyncedInv
<1>7. CASE Bisect
  BY <1>7, BisectInv
<1>8. CASE \E log \in Logs : RejectMismatch(log) \/ RejectInvalid(log)
  BY <1>8, QuarantineInv
<1>9. CASE ServerNext
  BY <1>9, ServeInv, ServeLateInv DEF ServerNext
<1>10. CASE UNCHANGED vars
  BY <1>10, QuietInv DEF vars, cycleVars, netVars
<1>11. QED
  BY <1>1, <1>2, <1>3, <1>4, <1>5, <1>6, <1>7, <1>8, <1>9, <1>10 DEF Next, SyncNext

LEMMA Invariance == Spec => [](Typed /\ Inv)
<1>1. Init => Typed /\ Inv
  BY InitTyped, InitInv
<1>2. Typed /\ Inv /\ [Next]_vars => (Typed /\ Inv)'
  BY NextTyped, NextInv
<1>3. QED
  BY <1>1, <1>2, PTL DEF Spec

\* However often a batch is sent, and however late it arrives, the server has
\* every scan at most once.  (convex/attendance.ts insertAttendanceEvent)
THEOREM ScansBookedOnce == Spec => []BookedOnce
<1>1. Inv => BookedOnce
  BY DEF Inv, BooksInv, BookedOnce
<1>2. QED
  BY <1>1, Invariance, PTL

\* Only scans the server refuses on their own account are quarantined, in spite
\* of bisection, releases and repairs under way.  (sync.py _upload_attendance)
THEOREM QuarantineIsJust == Spec => []OnlyRefusedQuarantined
<1>1. Inv => OnlyRefusedQuarantined
  BY DEF Inv, BooksInv, OnlyRefusedQuarantined
<1>2. QED
  BY <1>1, Invariance, PTL

\* Both at once: no scan is booked twice and none is set aside for another's
\* fault.  (convex/attendance.ts insertAttendanceEvent, sync.py _upload_attendance)
THEOREM ScansRightlySettled == Spec => []RightlySettled
BY ScansBookedOnce, QuarantineIsJust, PTL DEF RightlySettled

-----------------------------------------------------------------------------
(* The upload implements the ledger.                                       *)

Booked == {log \in Logs : copies[log] > 0}
Aside == {log \in Logs : quarantined[log]}

\* Whoever changes none of these does nothing the ledger sees.
LEMMA UnseenStep ==
    ASSUME UNCHANGED <<recorded, synced, quarantined, copies>>
    PROVE  UNCHANGED Ledger!vars
  BY DEF Ledger!vars, Rows, Queued

LEMMA InitLedger == Init => Ledger!Init
  BY DEF Init, Ledger!Init, Rows, Queued

\* A scan in a batch that is or will be booked is owed or already booked.
LEMMA AcceptStep ==
    ASSUME Typed, Inv, NEW batch \in SUBSET Logs,
           \A log \in batch : log \in Rows /\ Acceptable(log),
           bulkCreateFromHttp(batch), UNCHANGED <<rowVars, synced, quarantined>>
    PROVE  Ledger!Next
<1>1. batch \subseteq Queued \cup Booked
  BY DEF Inv, BooksInv, Queued, Booked
<1>2. Booked' = Booked \cup batch
  BY BookingInv DEF Inv, Booked
<1>3. Ledger!Accept(batch)
  BY <1>1, <1>2 DEF Ledger!Accept, Booked, Rows, Queued, rowVars
<1>4. QED
  BY <1>3 DEF Ledger!Next

LEMMA LedgerStep ==
    ASSUME Typed, Inv, [Next]_vars
    PROVE  [Ledger!Next]_(Ledger!vars)
<1>1. ASSUME NEW log \in Logs, NEW c \in Claims, NEW v \in BOOLEAN, NEW m \in BOOLEAN,
             Record(log, c, v, m)
      PROVE  Ledger!Next
  <2>1. log = recorded + 1 /\ recorded' = log /\ UNCHANGED <<synced, quarantined, copies>>
    BY <1>1 DEF Record
  <2>2. recorded \in Nat
    BY DEF Typed
  <2>3. Rows' = Rows \cup {log} /\ log \notin Rows
    BY <2>1, <2>2 DEF Rows
  <2>4. ~synced[log] /\ ~quarantined[log]
    BY <2>1, <2>2 DEF Inv, BooksInv
  <2>5. Queued' = Queued \cup {log}
    BY <2>1, <2>3, <2>4 DEF Queued
  <2>6. Ledger!Record(log)
    BY <2>1, <2>3, <2>5 DEF Ledger!Record
  <2>7. QED
    BY <2>6 DEF Ledger!Next
<1>2. ASSUME NEW log \in Logs, NEW r \in BOOLEAN, retry_attendance_rejection(log, r)
      PROVE  Ledger!Next
  <2>1. /\ quarantined[log]
        /\ quarantined' = [quarantined EXCEPT ![log] = FALSE]
        /\ UNCHANGED <<recorded, synced, copies>>
    BY <1>2 DEF retry_attendance_rejection
  <2>2. \A other \in Logs : quarantined'[other] = (quarantined[other] /\ other # log)
    BY <2>1 DEF Typed
  <2>3. log \in Rows /\ ~synced[log]
    <3>1. ~(log > recorded) /\ ~Acceptable(log)
      BY <2>1 DEF Inv, BooksInv
    <3>2. QED
      BY <3>1 DEF Inv, BooksInv, Rows, Logs, Typed
  <2>4. Rows \subseteq Logs
    BY PageIsQueued
  <2>5. Queued' = Queued \cup {log} /\ Aside' = Aside \ {log} /\ log \in Aside
    BY <2>1, <2>2, <2>3, <2>4 DEF Queued, Aside, Rows
  <2>6. Ledger!Release(log)
    BY <2>1, <2>5 DEF Ledger!Release, Aside, Rows
  <2>7. QED
    BY <2>6 DEF Ledger!Next
<1>3. CASE mark_synced
  <2>1. /\ answer = "ok"
        /\ \A log \in Logs : synced'[log] = (synced[log] \/ log \in sent)
        /\ UNCHANGED <<recorded, quarantined, copies>>
    BY <1>3 DEF mark_synced, attendance_acknowledged, rowVars
  <2>2. Rows \subseteq Logs
    BY PageIsQueued
  <2>3. sent \cap Queued \subseteq Queued \cap Booked
    BY <2>1, <2>2 DEF Inv, AnswerInv, Booked, Queued
  <2>4. Queued' = Queued \ (sent \cap Queued)
    BY <2>1, <2>2 DEF Queued, Rows
  <2>5. Ledger!Confirm(sent \cap Queued)
    BY <2>1, <2>3, <2>4 DEF Ledger!Confirm, Booked, Rows
  <2>6. sent \cap Queued \in SUBSET Logs
    BY <2>2 DEF Queued
  <2>7. QED
    BY <2>5, <2>6 DEF Ledger!Next
<1>4. ASSUME NEW log \in Logs, RejectMismatch(log) \/ RejectInvalid(log)
      PROVE  Ledger!Next
  <2>1. /\ log \in sent
        /\ quarantined' = [quarantined EXCEPT ![log] = TRUE]
        /\ answer = "mismatch" \/ (answer = "invalid" /\ sent = {log})
        /\ UNCHANGED <<recorded, synced, copies>>
    BY <1>4 DEF RejectMismatch, RejectInvalid, Alone, reject_attendance, rowVars
  <2>2. \A other \in Logs : quarantined'[other] = (quarantined[other] \/ other = log)
    BY <2>1 DEF Typed
  <2>3. log \in Rows /\ ~quarantined[log] /\ ~Acceptable(log)
    BY <2>1 DEF Inv, BatchInv, Sound, AnswerInv, Acceptable
  <2>4. ~synced[log] /\ ~(copies[log] > 0)
    BY <2>3 DEF Inv, BooksInv
  <2>5. Rows \subseteq Logs
    BY PageIsQueued
  <2>6. log \in Queued \ Booked /\ Queued' = Queued \ {log} /\ Aside' = Aside \cup {log}
    BY <2>1, <2>2, <2>3, <2>4, <2>5 DEF Queued, Aside, Booked, Rows
  <2>7. Ledger!SetAside(log)
    BY <2>1, <2>6 DEF Ledger!SetAside, Aside, Booked, Rows
  <2>8. QED
    BY <2>7 DEF Ledger!Next
<1>5. CASE ServeBatch
  <2>1. /\ answer' = Verdict(sent)
        /\ \/ answer' = "ok" /\ bulkCreateFromHttp(sent)
           \/ UNCHANGED copies
        /\ UNCHANGED <<rowVars, synced, quarantined>>
    BY <1>5 DEF ServeBatch
  <2>2. sent \in SUBSET Logs
    BY DEF Typed, Batches
  <2>3. Verdict(sent) = "ok" => \A log \in sent : log \in Rows /\ Acceptable(log)
    BY DEF Verdict, Acceptable, Inv, BatchInv, Sound
  <2>4. CASE UNCHANGED copies
    BY <2>1, <2>4, UnseenStep DEF rowVars
  <2>5. CASE answer' = "ok" /\ bulkCreateFromHttp(sent)
    BY <2>1, <2>2, <2>3, <2>5, AcceptStep
  <2>6. QED
    BY <2>1, <2>4, <2>5
<1>6. ASSUME NEW batch \in late, ServeLate(batch)
      PROVE  Ledger!Next
  <2>1. bulkCreateFromHttp(batch) /\ UNCHANGED <<rowVars, synced, quarantined>>
    BY <1>6 DEF ServeLate
  <2>2. batch \in SUBSET Logs /\ \A log \in batch : log \in Rows /\ Acceptable(log)
    BY DEF Typed, Batches, Inv, LateInv
  <2>3. QED
    BY <2>1, <2>2, AcceptStep
<1>7. ASSUME NEW log \in Logs, MapWorker(log)
      PROVE  UNCHANGED Ledger!vars
  BY <1>7, UnseenStep DEF MapWorker
<1>8. CASE StartCycle \/ ReadPage \/ FinishPage \/ EndPass
  BY <1>8, UnseenStep DEF StartCycle, ReadPage, FinishPage, EndPass, rowVars
<1>9. CASE SkipGroup \/ upload_attendance \/ OutOfBudget \/ Bisect \/ Fault
  BY <1>9, UnseenStep
  DEF SkipGroup, upload_attendance, OutOfBudget, Bisect, Fault, GiveUp, Crash, rowVars
<1>10. CASE UNCHANGED vars
  BY <1>10, UnseenStep DEF vars, rowVars
<1>11. QED
  BY <1>1, <1>2, <1>3, <1>4, <1>5, <1>6, <1>7, <1>8, <1>9, <1>10
  DEF Next, WorldNext, SyncNext, ServerNext

\* Uploading in batches, with bisection, retries, late requests and crashes,
\* implements the ledger: a scan leaves the kiosk's queue only when the server
\* has it or refused it, and is never set aside once it is booked.  (sync.py)
THEOREM UploadImplementsLedger == Spec => LedgerSpec
<1>1. Init => Ledger!Init
  BY InitLedger
<1>2. Typed /\ Inv /\ [Next]_vars => [Ledger!Next]_(Ledger!vars)
  BY LedgerStep
<1>3. QED
  BY <1>1, <1>2, Invariance, PTL DEF Spec, LedgerSpec, Ledger!Spec

\* No scan is forgotten: what the kiosk neither owes nor has set aside is on
\* the server's books.  (database.py get_unsynced_logs, mark_synced)
THEOREM NoScanForgotten == Spec => []Ledger!Accounted
<1>1. Typed /\ Inv => Ledger!Accounted
  <2> SUFFICES ASSUME Typed, Inv PROVE Ledger!Accounted
    OBVIOUS
  <2>1. Rows \subseteq Logs /\ \A log \in Logs : log \notin Rows => log > recorded
    BY PageIsQueued DEF Rows, Logs, Typed
  <2>2. Rows = Queued \cup Aside \cup Booked
    BY <2>1 DEF Inv, BooksInv, Queued, Aside, Booked, Typed
  <2>3. Aside \cap (Queued \cup Booked) = {}
    BY DEF Inv, BooksInv, Queued, Aside, Booked
  <2>4. QED
    BY <2>2, <2>3 DEF Ledger!Accounted, Aside, Booked
<1>2. QED
  BY <1>1, Invariance, PTL

=============================================================================

------------------------- MODULE RecognitionReviews -------------------------
(***************************************************************************)
(* What a kiosk's recognizer decided about each face, its attempts, in the *)
(* portal: their upload under ids that changed with a release              *)
(* (src/convex/recognitionAttempts.ts) and their review in two places, the *)
(* Recognition Lab and the exceptions (src/convex/shiftExceptions.ts).     *)
(* What the Lab lists is RecognitionLab's.                                 *)
(*                                                                         *)
(* A kiosk of the older release names an attempt by its row, and rows      *)
(* start again from one when the kiosk's card is set up anew; since then   *)
(* every attempt has a UUID, and what was queued before carries its row as *)
(* an alias.  A request of the older release is not delayed beyond the     *)
(* update, which takes minutes.  Two attempts never have the same          *)
(* evidence, and the worker of a candidate keeps its id, so the number of  *)
(* a scan stands for its evidence.  The bisection of a refused batch is    *)
(* that of AttendanceUpload: a request carries any one or two of the queue.*)
(***************************************************************************)
EXTENDS Naturals, FiniteSets, Sequences

CONSTANTS
    Decisions,    \* what was decided about each scan: a sequence of [decision, low]
    Unkeyed,      \* scans of a client that sends no ids
    Notes,        \* what may be noted; "" clears the note
    MaxResets,    \* bounds how often the card is set up anew
    MaxLate,      \* bounds the requests given up and still on their way
    MaxReviews,   \* bounds the reviews
    Reviewed      \* bounds the attempts that are reviewed

RecognitionReviewsAssumption ==
    /\ Decisions \in Seq([decision : STRING, low : BOOLEAN])
    /\ Unkeyed \subseteq DOMAIN Decisions /\ 1 \in Unkeyed
    /\ Reviewed \subseteq DOMAIN Decisions
    /\ {MaxResets, MaxLate, MaxReviews} \subseteq Nat

VARIABLES
    \* the kiosk
    release,    \* "old" or "new"
    recorded,   \* the scans made so far
    rowOf,      \* [scan -> its row on the kiosk]
    lastRow,
    aged,       \* scans recorded by the older release
    queue,      \* scans not yet acknowledged
    lost,       \* scans that were queued when the card was set up anew
    resets,
    \* the network
    late,       \* requests the kiosk has given up
    \* the portal
    rows,       \* recognitionAttempts, in order of insertion
    explicit,   \* exceptionReviews, by attempt; at = 0 when there is none
    time,       \* of the last review
    expected    \* history: the status that should be shown, by attempt, and the
                \* notes of which one should be

kioskVars == <<release, recorded, rowOf, lastRow, aged, queue, lost, resets>>
portalVars == <<rows, explicit, time, expected>>
vars == <<kioskVars, late, portalVars>>

Scans == DOMAIN Decisions
Attempts == 1..Len(Decisions)
Labels == {"confirmed", "ignored"}   \* "corrected" counts as "confirmed" does

NoId == <<>>
RowId(n) == <<"row", rowOf[n]>>
Uuid(n) == <<"uuid", n>>

\* A new row is not reviewed, whatever the kiosk says.
normalizeAttempt(m) ==
    [source |-> m.source, alias |-> NoId, evidence |-> m.evidence,
     reviewed |-> FALSE, label |-> "", note |-> "", updatedAt |-> 0]

NotReviewed == [status |-> "open", notes |-> {""}]

\* A row of a client without ids is there, from before labels were checked:
\* reviewed, with a label that counts for nothing.
Init ==
    /\ release = "old"
    /\ recorded = {1}
    /\ rowOf = [n \in Scans |-> 0]
    /\ lastRow = 0
    /\ aged = {}
    /\ queue = {}
    /\ lost = {}
    /\ resets = 0
    /\ late = {}
    /\ rows = <<[source |-> NoId, alias |-> NoId, evidence |-> 1, reviewed |-> TRUE,
                 label |-> "seen", note |-> "", updatedAt |-> 0]>>
    /\ explicit = [a \in Attempts |-> [status |-> "open", note |-> "", at |-> 0]]
    /\ time = 0
    /\ expected = [a \in Attempts |-> NotReviewed]

-----------------------------------------------------------------------------
(* The kiosk.                                                              *)

\* record_recognition_attempt: a row, and since the update a UUID.
Record ==
    \E n \in Scans \ (recorded \cup Unkeyed) :
        /\ \A k \in Scans \ (recorded \cup Unkeyed) : n <= k
        /\ recorded' = recorded \cup {n}
        /\ queue' = queue \cup {n}
        /\ lastRow' = lastRow + 1
        /\ rowOf' = [rowOf EXCEPT ![n] = lastRow + 1]
        /\ aged' = IF release = "old" THEN aged \cup {n} ELSE aged
        /\ UNCHANGED <<release, lost, resets, late, portalVars>>

\* The update waits for no request of the older release.
Update ==
    /\ release = "old"
    /\ late = {}
    /\ release' = "new"
    /\ UNCHANGED <<recorded, rowOf, lastRow, aged, queue, lost, resets, late,
                   portalVars>>

\* The card is set up anew: its rows are gone and start from one again.
Reset ==
    /\ resets < MaxResets
    /\ resets' = resets + 1
    /\ lost' = lost \cup queue
    /\ queue' = {}
    /\ lastRow' = 0
    /\ UNCHANGED <<release, recorded, rowOf, aged, late, portalVars>>

\* get_unsynced_recognition_attempts: what was queued before the update gets its
\* UUID when it is read, before anything is sent.
Message(n) ==
    [source |-> IF n \in Unkeyed THEN NoId
                ELSE IF release = "old" THEN RowId(n) ELSE Uuid(n),
     alias |-> IF release = "new" /\ n \in aged THEN RowId(n) ELSE NoId,
     evidence |-> n]

Batch(scans) ==
    [i \in 1..Cardinality(scans) |->
        Message(CHOOSE n \in scans : Cardinality({k \in scans : k <= n}) = i)]

-----------------------------------------------------------------------------
(* The portal: an upload is one transaction.                               *)

Earliest(indexes) == {i \in indexes : \A k \in indexes : i <= k}

\* The row an id stands for, by its source or else by its alias.
Named(table, id) ==
    LET bySource == {i \in DOMAIN table : table[i].source = id}
        byAlias == {i \in DOMAIN table : table[i].alias = id}
    IN Earliest(IF bySource # {} THEN bySource ELSE byAlias)

sameEvidence(row, m) == row.evidence = m.evidence

\* A slip: the row of an alias is adopted whatever its evidence is.
AdoptsAny(table, m) ==
    IF m.alias = NoId THEN {}
    ELSE Earliest({i \in DOMAIN table : table[i].source = m.alias})

\* Only an exact old upload is adopted: a row number reused after a reset is
\* other evidence.
Adopts(table, m) ==
    IF m.alias = NoId THEN {}
    ELSE {k \in Earliest({i \in DOMAIN table : table[i].source = m.alias}) :
             sameEvidence(table[k], m)}

Without(table, m) ==
    {i \in DOMAIN table : table[i].source = NoId /\ sameEvidence(table[i], m)}

\* The tables an attempt may lead to: one, or none when an id was used for
\* other evidence.
Ingest(table, m) ==
    IF m.source = NoId
    THEN {IF Without(table, m) # {} THEN table
          ELSE Append(table, normalizeAttempt(m))}
    ELSE IF Named(table, m.source) # {}
    THEN {table : i \in {k \in Named(table, m.source) : sameEvidence(table[k], m)}}
    ELSE IF Adopts(table, m) # {}
    THEN {[table EXCEPT ![i].source = m.source, ![i].alias = m.alias] :
             i \in Adopts(table, m)}
    ELSE {Append(table, normalizeAttempt(m))}

\* One attempt after the other; a request carries one or two of them.
ingestAttemptBatch(batch) ==
    LET first == Ingest(rows, batch[1])
    IN IF Len(batch) = 1 THEN first
       ELSE UNION {Ingest(table, batch[2]) : table \in first}

Requests == {scans \in SUBSET queue : Cardinality(scans) \in 1..2}

\* The batch is acknowledged: every attempt is in the table.
Acknowledge ==
    \E scans \in Requests :
        /\ rows' \in ingestAttemptBatch(Batch(scans))
        /\ queue' = queue \ scans
        /\ UNCHANGED <<release, recorded, rowOf, lastRow, aged, lost, resets,
                       late, explicit, time, expected>>

\* The answer is lost.
LoseAnswer ==
    \E scans \in Requests :
        /\ rows' \in ingestAttemptBatch(Batch(scans))
        /\ UNCHANGED <<kioskVars, late, explicit, time, expected>>

\* The kiosk gives a request up that has not arrived.
GiveUp ==
    \E scans \in Requests :
        /\ Cardinality(late) < MaxLate
        /\ late' = late \cup {Batch(scans)}
        /\ UNCHANGED <<kioskVars, portalVars>>

\* It arrives, or it does not.
AnswerLate ==
    \E batch \in late :
        /\ late' = late \ {batch}
        /\ rows' \in ingestAttemptBatch(batch) \cup {rows}
        /\ UNCHANGED <<kioskVars, explicit, time, expected>>

\* A client without ids sends an attempt, again and again.
PostUnkeyed ==
    \E n \in Unkeyed :
        /\ rows' \in ingestAttemptBatch(<<Message(n)>>)
        /\ UNCHANGED <<kioskVars, late, explicit, time, expected>>

-----------------------------------------------------------------------------
(* Reviews.                                                                *)

Label(row) == IF row.label = "" THEN "confirmed" ELSE row.label
Completed(row) == row.reviewed /\ Label(row) \in Labels

\* A slip: a review of the exception stands, whatever the Lab did since.
explicitReviewStands(a) == explicit[a].at > 0

\* The review of the exception counts if it is later than the Lab's.
explicitReviewIsNewer(a) ==
    explicit[a].at > 0 /\ explicit[a].at > rows[a].updatedAt

\* What the exceptions show of an attempt.
Shown(a) ==
    IF explicitReviewIsNewer(a)
    THEN [status |-> explicit[a].status, note |-> explicit[a].note]
    ELSE [status |-> IF ~Completed(rows[a]) THEN "open"
                     ELSE IF Label(rows[a]) = "ignored" THEN "ignored" ELSE "reviewed",
          note |-> rows[a].note]

Risky(a) ==
    LET d == Decisions[rows[a].evidence]
    IN d.decision # "accepted" \/ d.low

\* An attempt that the Lab completed is an exception only if it is risky or was
\* reviewed as one.
Listed(a) == ~Completed(rows[a]) \/ Risky(a) \/ explicit[a].at > 0

\* The mutation: an omitted label or note stays that of the attempt.  A note of
\* the exceptions is not the attempt's, so that an older one may come back: of the
\* note nothing is expected then.
updateReview(a, label, note) ==
    /\ rows' = [rows EXCEPT
                  ![a].reviewed = label # "unreviewed",
                  ![a].label = IF label = "unreviewed" THEN @ ELSE label,
                  ![a].note = IF note = {} THEN @ ELSE CHOOSE n \in note : TRUE,
                  ![a].updatedAt = time']
    /\ expected' = [expected EXCEPT ![a] =
                      [status |-> CASE label = "unreviewed" -> "open"
                                    [] label = "ignored" -> "ignored"
                                    [] OTHER -> "reviewed",
                       notes |-> IF note = {} THEN Notes \cup {""} ELSE note]]

\* The Lab: its page sends no note, other clients may; no note is cleared.
ReviewInLab ==
    \E a \in DOMAIN rows, label \in Labels \cup {"unreviewed"},
       note \in {{}} \cup {{n} : n \in Notes \ {""}} :
        /\ rows[a].evidence \in Reviewed
        /\ time < MaxReviews
        /\ time' = time + 1
        /\ updateReview(a, label, note)
        /\ UNCHANGED <<kioskVars, late, explicit>>

\* A slip: an omitted note keeps that of the last review of the exception.
storedReviewNote(a) == explicit[a].note

\* The note a supervisor sees.
currentReviewNote(a) ==
    IF explicitReviewIsNewer(a) THEN explicit[a].note ELSE rows[a].note

\* The exceptions: an omitted note keeps the one that is shown.
review ==
    \E a \in DOMAIN rows, status \in {"open", "reviewed", "ignored"},
       note \in {{}} \cup {{n} : n \in Notes} :
        /\ Listed(a)
        /\ rows[a].evidence \in Reviewed
        /\ time < MaxReviews
        /\ time' = time + 1
        /\ LET kept == IF note = {} THEN currentReviewNote(a)
                       ELSE CHOOSE n \in note : TRUE
           IN explicit' = [explicit EXCEPT ![a] =
                             [status |-> status, note |-> kept, at |-> time']]
        /\ expected' = [expected EXCEPT ![a] =
                          [status |-> status,
                           notes |-> IF note = {} THEN {Shown(a).note} ELSE note]]
        /\ UNCHANGED <<kioskVars, late, rows>>

-----------------------------------------------------------------------------
Next ==
    \/ Record \/ Update \/ Reset
    \/ Acknowledge \/ LoseAnswer \/ GiveUp \/ AnswerLate \/ PostUnkeyed
    \/ ReviewInLab \/ review

Spec == Init /\ [][Next]_vars

-----------------------------------------------------------------------------
(* Properties.                                                             *)

\* Whatever is lost, late or repeated, across the update that renamed the
\* attempts and cards set up anew: an attempt is in the table at most once, and
\* there once it was acknowledged.  (ingestAttemptBatch)
EvidenceOnce ==
    /\ \A a, b \in DOMAIN rows : rows[a].evidence = rows[b].evidence => a = b
    /\ \A n \in recorded \ (queue \cup lost) :
          \E a \in DOMAIN rows : rows[a].evidence = n

\* "Both screens can review or reopen a recognition exception. The latest action
\* wins": its status is shown, and the note it gave.  A review of the exceptions
\* without a note keeps the one that was shown; after a review of the Lab without
\* one any note may be.  Sending the attempt again changes neither.
\* (explicitReviewIsNewer, currentReviewNote, ingestAttemptBatch)
LatestReviewWins == \A a \in DOMAIN rows :
    /\ Shown(a).status = expected[a].status
    /\ Shown(a).note \in expected[a].notes
=============================================================================

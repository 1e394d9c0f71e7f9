--------------------------- MODULE RecognitionLab ---------------------------
(***************************************************************************)
(* The Recognition Lab: the page on which supervisors look through the     *)
(* attempts of a day (src/src/components/RecognitionCalibrationLab.tsx),   *)
(* its route (src/src/app/api/recognition-attempts/route.ts) and the       *)
(* bounded read behind it (src/convex/recognitionAttempts.ts).             *)
(*                                                                         *)
(* A read covers one window of an index, and shows a few of the window's   *)
(* matches; the page leads from window to window, or to the one attempt    *)
(* that a link names.  Meanwhile attempts arrive, others review them, and  *)
(* the backend is replaced: the one before knows neither windows nor       *)
(* counts.                                                                 *)
(*                                                                         *)
(* Scans are numbered in the order of their stored timestamps; the order   *)
(* of their instants may differ, as timestamps were stored with and        *)
(* without an offset.  All are close to one midnight, so that the index    *)
(* range of either day holds them all.                                     *)
(***************************************************************************)
EXTENDS Naturals, FiniteSets, Sequences

CONSTANTS
    Attempted,    \* the scans: a sequence of [decision, low, day, at]
    Stored,       \* those that are in the table from the start
    Labelled,     \* those of them reviewed before labels were checked
    Filters,      \* those that may be chosen: [decision, status]
    ReadLimit,    \* SELECTION_READ_LIMIT
    FewShown,     \* how many matches of a window are shown at first
    MaxNews,      \* bounds the arrivals and the reviews
    MaxMoves      \* bounds the links followed and the selections made

RecognitionLabAssumption ==
    /\ Attempted \in Seq([decision : STRING, low : BOOLEAN, day : Nat, at : Nat])
    /\ Stored \subseteq DOMAIN Attempted /\ Labelled \subseteq Stored
    /\ FewShown \in 1..ReadLimit
    /\ {ReadLimit, MaxNews, MaxMoves} \subseteq Nat

VARIABLES
    table,      \* [scan -> its row, or Absent]
    backend,    \* "array": the one before; "windows": the one of this code
    news,
    \* the page
    url,        \* [target, date, filter]: the link followed last
    target,     \* the attempt the page shows alone, 0 when it shows a list
    date,
    filter,     \* [decision, status]
    window,     \* [cursor, all]: after which scan, and whether all are shown
    payload,    \* what is shown, NoPayload while it is read, or when that failed
    patch,      \* the review under way, NoPatch when there is none
    moves,
    \* history
    kept,       \* what has matched ever since the first window was read
    offered     \* what was shown since

tableVars == <<table, backend, news>>
selectionVars == <<url, target, date, filter>>
pageVars == <<selectionVars, window, payload, patch, moves>>
historyVars == <<kept, offered>>
vars == <<tableVars, pageVars, historyVars>>

Rows == DOMAIN Attempted
Labels == {"confirmed", "ignored"}   \* "corrected" counts as "confirmed" does
Absent == [reviewed |-> FALSE, label |-> "absent"]
Fresh == [reviewed |-> FALSE, label |-> ""]
Present == {n \in Rows : table[n] # Absent}

-----------------------------------------------------------------------------
(* The backend.                                                            *)

Categories == {"accepted", "rejected", "unknown", "near_miss",
               "low_margin_accepted", "review_backlog", "total"}

Label(row) == IF row.label = "" THEN "confirmed" ELSE row.label

\* A label that is not known counts as unreviewed.
ReviewStatus(row) ==
    IF row.reviewed /\ Label(row) \in Labels THEN Label(row) ELSE "unreviewed"

In(n, category) ==
    CASE category = "low_margin_accepted" ->
            Attempted[n].decision = "accepted" /\ Attempted[n].low
      [] category = "review_backlog" ->
            \/ ~table[n].reviewed
            \/ table[n].label \notin Labels \cup {""}
      [] category = "total" -> TRUE
      [] OTHER -> Attempted[n].decision = category

AllOf == [decision |-> "all", status |-> "all"]

\* A slip: unreviewed attempts are asked of the index of those not reviewed.
AsksByStatus(f) == f.status # "all"

\* Only a filter for a label asks the index for reviewed rows: others may have a
\* label that is not known.
AsksReviewed(f) == f.status \notin {"all", "unreviewed"}

Indexed(f) ==
    {n \in Present : AsksReviewed(f) => table[n].reviewed = (f.status # "unreviewed")}

Matches(n, f) ==
    /\ Attempted[n].day = date
    /\ f.decision \in {"all", Attempted[n].decision}
    /\ f.status \in {"all", ReviewStatus(table[n])}

Matching == {n \in Present : Matches(n, filter)}

\* The rows of the index after a cursor: those before it in time.
After(cursor) == {n \in Indexed(filter) : cursor = 0 \/ n < cursor}

Latest(set, key, limit) ==
    {n \in set : Cardinality({k \in set : key[k] >= key[n]}) <= limit}

StoredOrder == [n \in Rows |-> n]
InstantOrder == [n \in Rows |-> Attempted[n].at]

\* One window, and whether it is known to be the last: a full one may not know.
Page(cursor) == Latest(After(cursor), StoredOrder, ReadLimit)
PageIsDone(cursor) ==
    IF After(cursor) # Page(cursor) THEN {FALSE}
    ELSE IF Cardinality(Page(cursor)) < ReadLimit THEN {TRUE} ELSE BOOLEAN

ContinueCursor(cursor) == CHOOSE n \in Page(cursor) : \A k \in Page(cursor) : n <= k

\* A filter can prove a category empty even if other rows are unread.
possibleCounts(category) ==
    CASE category \in {"accepted", "low_margin_accepted"} ->
            filter.decision \in {"all", "accepted"}
      [] category = "review_backlog" -> filter.status \in {"all", "unreviewed"}
      [] category = "total" -> TRUE
      [] OTHER -> filter.decision \in {"all", category}

Limit == IF window.all THEN ReadLimit ELSE FewShown

\* What the page is given: what it shows, and what the counts are of.  Counts of
\* the categories in "limited" are lower bounds.  As history, what matched then
\* and is not shown, and the categories that had more than was counted.
NoPayload == [read |-> FALSE, shown |-> {}, counted |-> {}, truncated |-> FALSE,
              limited |-> {}, next |-> 0, unlisted |-> {}, uncounted |-> {}]

\* listByDate: the latest matches of the window, and counts of all of them.
ListByDate ==
    LET matches == {n \in Page(window.cursor) : Matches(n, filter)}
        Reply(isDone, summaryLimited) ==
            [NoPayload EXCEPT
                !.shown = Latest(matches, InstantOrder, Limit),
                !.counted = matches,
                !.truncated = summaryLimited \/ Cardinality(matches) > Limit,
                !.limited = {c \in Categories : summaryLimited /\ possibleCounts(c)},
                !.next = IF isDone THEN 0 ELSE ContinueCursor(window.cursor)]
    IN {Reply(isDone, window.cursor # 0 \/ ~isDone) : isDone \in PageIsDone(window.cursor)}

\* The backend of the release before: so many rows of the day, unfiltered.
ListArray ==
    Latest({n \in Indexed(filter) : Attempted[n].day = date}, StoredOrder, Limit)

\* getById
ById(n) == {n} \cap {k \in Present : Attempted[k].day = date}

-----------------------------------------------------------------------------
(* The route.                                                              *)

\* Counts of the backend before are lower bounds if its answer is full.
FromArray ==
    LET legacyLimited == Cardinality(ListArray) >= Limit
        attempts == {n \in ListArray : Matches(n, filter)}
    IN [NoPayload EXCEPT
           !.shown = attempts, !.counted = attempts, !.truncated = legacyLimited,
           !.limited = IF legacyLimited THEN Categories ELSE {}]

\* A slip: the filters of the page apply to a linked attempt as well.
LinkedIfMatching ==
    LET found == {n \in ById(target) : Matches(n, filter)}
    IN [NoPayload EXCEPT !.shown = found, !.counted = found]

\* A linked attempt is shown whatever the filters, and its counts are its own.
Linked == [NoPayload EXCEPT !.shown = ById(target), !.counted = ById(target)]

GET ==
    IF target # 0 THEN {Linked}
    ELSE IF backend = "array" THEN {FromArray}
    ELSE ListByDate

-----------------------------------------------------------------------------
(* The page.  A read that fails shows nothing, until Refresh.               *)

NoPatch == [scan |-> 0, status |-> "", query |-> <<>>]
FirstWindow == [cursor |-> 0, all |-> FALSE]
queryString == <<target, date, filter, window>>

Days == {Attempted[n].day : n \in Rows}
Links ==
    {[target |-> n, date |-> Attempted[n].day, filter |-> AllOf] : n \in Stored}
    \cup {[target |-> 0, date |-> d, filter |-> [AllOf EXCEPT !.status = "unreviewed"]] :
             d \in Days}

Init ==
    /\ table = [n \in Rows |->
                  IF n \in Labelled THEN [reviewed |-> TRUE, label |-> "seen"]
                  ELSE IF n \in Stored THEN Fresh ELSE Absent]
    /\ backend \in {"array", "windows"}
    /\ news = 0
    /\ url \in Links
    /\ target = url.target
    /\ date = url.date
    /\ filter = url.filter
    /\ window = FirstWindow
    /\ payload = NoPayload
    /\ patch = NoPatch
    /\ moves = 0
    /\ kept = {}
    /\ offered = {}

\* The selection is another one: it is read anew, from its first window.
Select ==
    /\ <<target, date, filter>>' # <<target, date, filter>>
    /\ moves < MaxMoves
    /\ moves' = moves + 1
    /\ window' = FirstWindow
    /\ payload' = NoPayload
    /\ kept' = {}
    /\ offered' = {}
    /\ UNCHANGED <<tableVars, patch>>

\* A slip: a link keeps the date the page shows if it is that of the link before.
DateOfNewUrl(link) == IF link.date # url.date THEN link.date ELSE date

\* useFactoryDateSelection follows another date of the URL; the link to an attempt
\* owns the date in any case.
DateOf(link) == IF link.target # 0 \/ link.date # url.date THEN link.date ELSE date

\* Navigation: the filters are set anew if the URL has other ones.
Follow ==
    \E link \in Links \ {url} :
        /\ url' = link
        /\ target' = link.target
        /\ date' = DateOf(link)
        /\ filter' = IF <<link.date, link.filter>> # <<url.date, url.filter>>
                     THEN link.filter ELSE filter
        /\ Select

\* Another day, decision or status is chosen: that leaves the linked attempt.
Choose ==
    /\ url' = url
    /\ target' = 0
    /\ \/ date' \in Days /\ filter' = filter
       \/ date' = date /\ \E f \in Filters : filter' = f
    /\ Select

\* An answer belongs to the selection it was asked for: useSelectedData.
Read ==
    /\ ~payload.read
    /\ LET wanted == IF target # 0 THEN {target} ELSE Matching
       IN \E answer \in GET :
             /\ payload' = [answer EXCEPT
                    !.read = TRUE,
                    !.unlisted = wanted \ answer.shown,
                    !.uncounted = {c \in Categories :
                                      \E n \in wanted \ answer.counted : In(n, c)}]
             /\ kept' = IF window.cursor = 0 THEN wanted ELSE kept
             /\ offered' = (IF window.cursor = 0 THEN {} ELSE offered) \cup answer.shown
    /\ UNCHANGED <<tableVars, selectionVars, window, patch, moves>>

\* Refresh, and the other windows; not while a review is under way.
Reload(next) ==
    /\ payload.read
    /\ patch = NoPatch
    /\ window' = next
    /\ payload' = NoPayload
    /\ UNCHANGED <<tableVars, selectionVars, patch, moves, historyVars>>

allMatchesShown == payload.shown = payload.counted

Refresh == Reload(window)
ShowAllMatches == ~allMatchesShown /\ target = 0 /\ Reload([window EXCEPT !.all = TRUE])
\* A slip: the next window can be reached before all matches of this one are shown.
LeaveWindow ==
    /\ payload.next # 0
    /\ Reload([cursor |-> payload.next, all |-> FALSE])

NextWindow ==
    /\ payload.next # 0
    /\ allMatchesShown
    /\ Reload([cursor |-> payload.next, all |-> FALSE])

BackToFirst == window.cursor # 0 /\ Reload(FirstWindow)

\* A review of an attempt that is shown; a second one waits for its answer.
reviewAttempt ==
    \E n \in payload.shown, status \in Labels :
        /\ payload.read
        /\ patch = NoPatch
        /\ news < MaxNews
        /\ patch' = [scan |-> n, status |-> status, query |-> queryString]
        /\ UNCHANGED <<tableVars, selectionVars, window, payload, moves, historyVars>>

-----------------------------------------------------------------------------
(* The table.                                                              *)

\* A new row, or a review; what still matches has matched ever since.
Write(n, row) ==
    /\ news < MaxNews
    /\ news' = news + 1
    /\ table' = [table EXCEPT ![n] = row]
    /\ UNCHANGED <<backend, selectionVars, moves, offered>>
    /\ kept' = kept \cap Matching'

WithReview(n, status) ==
    IF status = "unreviewed" THEN [table[n] EXCEPT !.reviewed = FALSE]
    ELSE [reviewed |-> TRUE, label |-> status]

Arrive ==
    \E n \in Rows \ Present :
        Write(n, Fresh) /\ UNCHANGED <<window, payload, patch>>

ReviewElsewhere ==
    \E n \in Present, status \in Labels \cup {"unreviewed"} :
        Write(n, WithReview(n, status)) /\ UNCHANGED <<window, payload, patch>>

\* PATCH: the list is read again, unless another is selected by now.
PatchAnswered ==
    /\ patch # NoPatch
    /\ Write(patch.scan, WithReview(patch.scan, patch.status))
    /\ patch' = NoPatch
    /\ payload' = IF patch.query = queryString THEN NoPayload ELSE payload
    /\ UNCHANGED window

\* The review fails, or its answer is lost: the list stays.
PatchFailed ==
    /\ patch # NoPatch
    /\ patch' = NoPatch
    /\ \/ Write(patch.scan, WithReview(patch.scan, patch.status))
       \/ UNCHANGED <<tableVars, selectionVars, moves, historyVars>>
    /\ UNCHANGED <<window, payload>>

\* The backend is replaced.
Deploy ==
    /\ backend = "array"
    /\ backend' = "windows"
    /\ UNCHANGED <<table, news, pageVars, historyVars>>

Next ==
    \/ Follow \/ Choose \/ Read \/ Refresh \/ ShowAllMatches \/ NextWindow
    \/ BackToFirst \/ reviewAttempt \/ PatchAnswered \/ PatchFailed
    \/ Arrive \/ ReviewElsewhere \/ Deploy

Spec == Init /\ [][Next]_vars

-----------------------------------------------------------------------------
(* Properties.                                                             *)

\* A list that does not say that it is capped has every match there was when it
\* was read, and a count not marked as a lower bound is that of the whole day,
\* though one window was read.  (selectRecognitionAttemptsByFactoryDate, GET)
SummaryIsHonest ==
    /\ ~payload.truncated => payload.unlisted = {}
    /\ payload.uncounted \subseteq payload.limited

\* Who goes from the first window to the last is shown every attempt that matched
\* all the while, whatever arrives and is reviewed in between: the windows leave
\* no gap, and none is left before all its matches are shown.  (NextWindow)
NothingIsPassedOver ==
    /\ payload.read /\ target = 0 /\ payload.next = 0 /\ allMatchesShown
    /\ payload.truncated => window.cursor # 0
    => kept \subseteq offered

\* The link of an exception leads to its attempt and to no other, whichever day
\* and filters the page was at.  (setTarget, DateOf, getById)
LinkIsFollowed ==
    payload.read /\ target # 0 =>
        payload.shown \subseteq {target} /\ payload.unlisted = {}

\* What the Lab shows is what there is.
LabIsHonest == SummaryIsHonest /\ NothingIsPassedOver /\ LinkIsFollowed
=============================================================================

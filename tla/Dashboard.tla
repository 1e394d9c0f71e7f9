------------------------------ MODULE Dashboard ------------------------------
(***************************************************************************)
(* The portal's first page (src/src/app/page.tsx).  It reads seven signals *)
(* at once, every ten seconds while its tab is visible and when the tab    *)
(* becomes visible, keeps what it has of a signal that fails, starts over  *)
(* on a new factory day, and shows the urgent items of ProactiveActions    *)
(* with what the supervisor has marked as seen in this tab.                *)
(*                                                                         *)
(* A batch of reads is answered in two parts, so that the data of one part *)
(* may change before the other is read; the slow part ends by the time     *)
(* limit of bounded-read.ts at the latest.                                 *)
(***************************************************************************)
EXTENDS ProactiveActions

CONSTANTS
    Served,      \* [signal -> the answers the portal may give, a sequence]
    MaxDay,      \* bounds the number of midnights
    MaxChanges,  \* bounds the number of changes of what the portal answers
    Slow,        \* the signals of which one comes back after the others
    MayFail,     \* the signals whose reads may fail, one in a batch
    MaxShows     \* bounds how often the tab is hidden and shown again

DashboardAssumption ==
    /\ SentinelItemsAssumption
    /\ DOMAIN Served = Signals
    /\ Slow \subseteq Signals /\ MayFail \subseteq Signals
    /\ MaxDay \in Nat /\ MaxChanges \in Nat /\ MaxShows \in Nat

VARIABLES
    day,       \* the factory's current day
    answers,   \* [signal -> the index of what the portal answers now]
    changes,   \* how often that has changed
    hidden,    \* whether the tab is hidden
    shows,     \* how often it was hidden
    batch,     \* the batches of reads that have not come back: a set
    page,      \* what the page holds
    seen,      \* what was marked as seen, with its signature (session storage)
    baseline,  \* whether everything shown was once marked as seen
    standing   \* history: what was marked, and has been shown ever since

pageVars == <<page, seen, baseline, standing>>
vars == <<day, answers, changes, hidden, shows, batch, pageVars>>

-----------------------------------------------------------------------------
(***************************************************************************)
(* What the page holds: the day of its data, for each signal the answer    *)
(* and when it was given, and the freshness of each signal.  The member's  *)
(* role, a viewer's until it is resolved, only decides where links lead.   *)
(***************************************************************************)
Empty(s) == CASE s = "stats" -> 0
              [] s = "attendance" -> {}
              [] s = "shift-briefing" -> [unavailable |-> FALSE]
              [] s = "shift-exceptions" -> [unavailable |-> FALSE, open |-> {}]
              [] s = "shift-closeout" -> [unavailable |-> FALSE,
                                          completed |-> FALSE, blockers |-> <<>>]
              [] OTHER -> <<>>

\* What index i of signal s stands for; the page holds 0 of a signal it never
\* read, and a read that failed gives 0.
Value(s, i) == IF i = 0 THEN Empty(s) ELSE Served[s][i]

FreshPage(d) ==
    [day |-> d, loading |-> TRUE,
     data |-> [s \in Signals |-> 0], at |-> [s \in Signals |-> 0],
     freshness |-> [s \in Signals |-> "unknown"]]

Data(p, s) == Value(s, p.data[s])

Failures(p) == {s \in Signals : p.freshness[s] = "stale"}

\* What buildProactiveActions is given.
Input(p) ==
    [day |-> p.day, failures |-> Failures(p), freshness |-> p.freshness,
     stats |-> Data(p, "stats"), workers |-> Data(p, "workers"),
     arrived |-> Data(p, "attendance"), health |-> Data(p, "system-health"),
     exceptions |-> Data(p, "shift-exceptions"),
     closeout |-> Data(p, "shift-closeout")]

Sentinel(p) == buildSentinel(Input(p))

Roles == {"admin", "enrollment", "viewer"}

Keys(items) == {a.key : a \in items}

Status(a) == SentinelStatus(a, page.freshness, seen, baseline)

\* A page that shows anything else than its skeleton.
Showing == ~page.loading /\ page.day = day

Only(f, keys) == [k \in DOMAIN f \cap keys |-> f[k]]

-----------------------------------------------------------------------------
Init ==
    /\ day = 0
    /\ answers = [s \in Signals |-> 1]
    /\ changes = 0
    /\ hidden = FALSE
    /\ shows = 0
    /\ batch = {}
    /\ page = FreshPage(0)
    /\ seen = <<>>
    /\ baseline = FALSE
    /\ standing = <<>>

\* What the portal answers changes: scans, reviews, kiosks, enrollments.
Change(s) ==
    /\ changes < MaxChanges
    /\ \E i \in DOMAIN Served[s] \ {answers[s]} :
         answers' = [answers EXCEPT ![s] = i]
    /\ changes' = changes + 1
    /\ UNCHANGED <<day, hidden, shows, batch, pageVars>>

Midnight ==
    /\ day < MaxDay
    /\ day' = day + 1
    /\ UNCHANGED <<answers, changes, hidden, shows, batch, pageVars>>

\* One read: the answer now and when it was given, or a failure.
Readings(S) ==
    {[s \in S |-> IF s \in failed THEN [index |-> 0, at |-> 0]
                  ELSE [index |-> answers[s], at |-> changes]]
       : failed \in {{}} \cup {{s} : s \in S \cap MayFail}}

Failed(got) == {s \in DOMAIN got : got[s].index = 0}

\* A slip: every poll replaces the batch under way.
FetchAlways(supersede) ==
    /\ \A b \in batch : b.active
    /\ batch' = {[b EXCEPT !.active = FALSE] : b \in batch}
                  \cup {[day |-> day, active |-> TRUE, got |-> <<>>]}
    /\ page' = IF page.day # day THEN FreshPage(day) ELSE page

\* fetchData up to its first await.  (The reads of a batch that was replaced are
\* rejected at once: it comes back before there is a third.)  A poll leaves a batch of the same day
\* alone; a tab that becomes visible replaces it.  The page of another day
\* gives up what it holds.
Fetch(supersede) ==
    LET active == {b \in batch : b.active}
    IN /\ supersede \/ active = {} \/ page.day # day
       /\ \A b \in batch : b.active
       /\ batch' = {[b EXCEPT !.active = FALSE] : b \in batch}
                     \cup {[day |-> day, active |-> TRUE, got |-> <<>>]}
       /\ page' = IF page.day # day THEN FreshPage(day) ELSE page

\* The interval, and the first fetch when the page opens.
Poll ==
    /\ ~hidden
    /\ Fetch(FALSE)
    /\ UNCHANGED <<day, answers, changes, hidden, shows, seen, baseline, standing>>

Hide ==
    /\ ~hidden
    /\ shows < MaxShows
    /\ hidden' = TRUE
    /\ shows' = shows + 1
    /\ UNCHANGED <<day, answers, changes, batch, pageVars>>

Show ==
    /\ hidden
    /\ hidden' = FALSE
    /\ Fetch(TRUE)
    /\ UNCHANGED <<day, answers, changes, shows, seen, baseline, standing>>

\* The first part of a batch comes back.
Answer(b) ==
    /\ b.active
    /\ b.got = <<>>
    /\ \E slow \in Slow :
       \E got \in Readings(Signals \ {slow}) :
           batch' = (batch \ {b}) \cup {[b EXCEPT !.got = got]}
    /\ UNCHANGED <<day, answers, changes, hidden, shows, pageVars>>

\* A slip: a batch of today counts although it was replaced.
OfToday(b) == b.day = day

isCurrent(b) == b.active /\ b.day = day

\* A slip: a briefing whose store is missing counts as read.
AllGood(p, got) ==
    LET ok == Signals \ Failed(got)
    IN [p EXCEPT
          !.loading = FALSE,
          !.data = [s \in Signals |-> IF s \in ok THEN got[s].index ELSE @[s]],
          !.at = [s \in Signals |-> IF s \in ok THEN got[s].at ELSE @[s]],
          !.freshness = [s \in Signals |-> normalizeFreshness(s \notin ok)]]

\* What the page holds after a batch: the answers, and of a signal that failed
\* what it had.  A briefing whose store is not deployed counts as a failure.
Applied(p, got) ==
    LET ok == Signals \ Failed(got)
        good == {s \in ok : s = "shift-briefing" =>
                              ~Value(s, got[s].index).unavailable}
    IN [p EXCEPT
          !.loading = FALSE,
          !.data = [s \in Signals |-> IF s \in ok THEN got[s].index ELSE @[s]],
          !.at = [s \in Signals |-> IF s \in ok THEN got[s].at ELSE @[s]],
          !.freshness = [s \in Signals |-> normalizeFreshness(s \notin good)]]

\* A slip: what was seen once stays seen.
NeverPrune(p) == seen' = seen

\* The effect after a page is drawn: what is no longer shown is no longer seen.
Prune(p) ==
    seen' = Only(seen, Keys(Sentinel(p)))

\* The rest of a batch comes back or runs out of time, and the page takes the
\* batch unless it was replaced or is of another day.
Settle(b) ==
    /\ b.got # <<>> \/ ~b.active
    /\ batch' = batch \ {b}
    /\ \E rest \in IF b.active THEN Readings(Signals \ DOMAIN b.got)
                   ELSE {[s \in Signals \ DOMAIN b.got |->
                            [index |-> 0, at |-> 0]]} :
         LET got == [s \in Signals |-> IF s \in DOMAIN b.got THEN b.got[s]
                                       ELSE rest[s]]
         IN IF isCurrent(b)
            THEN /\ Cardinality(Failed(got)) <= 1
                 /\ page' = Applied(page, got)
                 /\ Prune(page')
                 /\ standing' = Only(standing, Keys(Sentinel(page')))
            ELSE UNCHANGED <<page, seen, standing>>
    /\ UNCHANGED <<day, answers, changes, hidden, shows, baseline>>

-----------------------------------------------------------------------------
\* markSentinelSeen of some of the items, or of all of them at once.
Mark(items, all) ==
    LET next == [k \in DOMAIN seen \cup Keys(items) |->
                   IF k \in Keys(items)
                   THEN Signature(CHOOSE a \in items : a.key = k, page.freshness)
                   ELSE seen[k]]
    IN /\ ~page.loading
       /\ items # {}
       /\ seen' = next
       /\ baseline' = \/ baseline
                      \/ all
                      \/ Keys(Sentinel(page)) \subseteq DOMAIN next
       /\ standing' = [k \in DOMAIN standing \cup Keys(items) |->
                         IF k \in Keys(items)
                         THEN (CHOOSE a \in items : a.key = k).evidence
                         ELSE standing[k]]
       /\ UNCHANGED <<day, answers, changes, hidden, shows, batch, page>>

MarkSeen == \E a \in Sentinel(page) : Status(a) # "seen" /\ Mark({a}, FALSE)

MarkAllSeen == Mark(Sentinel(page), TRUE)

\* The page is opened again in its tab: what was seen comes from the session
\* storage, unless the browser blocks it.
Reload ==
    /\ ~hidden
    /\ shows < MaxShows
    /\ shows' = shows + 1
    /\ page' = FreshPage(day)
    /\ batch' = {}
    /\ \/ UNCHANGED <<seen, baseline>>
       \/ seen' = <<>> /\ baseline' = FALSE
    /\ UNCHANGED <<day, answers, changes, hidden, standing>>

Next ==
    \/ \E s \in Signals : Change(s)
    \/ Midnight
    \/ Poll
    \/ Hide
    \/ Show
    \/ \E b \in batch : Answer(b) \/ Settle(b)
    \/ MarkSeen
    \/ MarkAllSeen
    \/ Reload

\* The timer of a visible tab fires, and every batch of reads ends, by its time
\* limit if not before.
Fairness ==
    /\ WF_vars(Poll)
    /\ WF_vars(\E b \in batch : b.active /\ Answer(b))
    /\ WF_vars(\E b \in batch : Settle(b))

Spec == Init /\ [][Next]_vars /\ Fairness

-----------------------------------------------------------------------------
(***************************************************************************)
(* Properties.                                                             *)
(***************************************************************************)
\* An empty Sentinel is not shown over a source that did not answer: every
\* signal of the last batch came back and its store is there, and what they
\* say holds no kiosk warning, no critical exception, no clock-out to follow
\* up and no blocker of the closeout.
NoFalseClear ==
    Showing /\ Sentinel(page) = {} =>
        /\ \A s \in Signals : page.freshness[s] = "fresh"
        /\ ~Data(page, "shift-briefing").unavailable
        /\ ~Data(page, "shift-exceptions").unavailable
        /\ ~Data(page, "shift-closeout").unavailable
        /\ Data(page, "system-health") = <<>>
        /\ \A r \in Data(page, "shift-exceptions").open :
              ~r.critical /\ r.type \notin {"missing_clock_out", "recognition_review"}
        /\ Data(page, "shift-closeout").completed
             \/ Data(page, "shift-closeout").blockers = <<>>

\* An item shown as seen is the very matter the supervisor marked, with the
\* same evidence, and it has been shown ever since: a matter that went away and
\* came back, or took the place of another, has to be seen again.
SeenStillStands ==
    Showing => \A a \in Sentinel(page) :
        Status(a) = "seen" =>
            /\ a.key \in DOMAIN standing
            /\ standing[a.key] = a.evidence

\* No link leads a member to a page or a correction the role may not use.
LinksFitRole ==
    Showing => \A a \in buildProactiveActions(Input(page)), role \in Roles :
        \A link \in {applyRole(a, role)} \cup proofLink(a, role) :
            /\ link.page = "kiosks" => role = "admin"
            /\ link.correct => role \in {"admin", "enrollment"}

\* The page never replaces an answer by one that was given earlier, whatever
\* batches overlap; it only starts over.
NewestStays ==
    [][page'.loading \/ \A s \in Signals : page'.at[s] >= page.at[s]]_page

\* A visible tab shows the current day sooner or later, however slow a batch
\* is against the polls, and also after midnight.
EventuallyToday == []<>(hidden \/ Showing)
=============================================================================

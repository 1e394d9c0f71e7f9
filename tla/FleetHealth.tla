----------------------------- MODULE FleetHealth -----------------------------
(***************************************************************************)
(* What the portal tells of the kiosks' health.                            *)
(*                                                                         *)
(* An instance of the portal reads the kiosks from Convex, puts warnings   *)
(* to what it reads and keeps the result for half a minute.  Reads overlap *)
(* and come back in any order, and a change made through this instance     *)
(* empties what it keeps; a kiosk's own report and another instance change *)
(* the kiosks without it noticing.  An administrator has the kiosks page   *)
(* open and issues or revokes the credential of one kiosk there: its       *)
(* answer may be lost, and a new credential is shown only once.            *)
(*                                                                         *)
(* A reading is the number of the changes that were committed when it was  *)
(* taken.  The page stays open.                                            *)
(***************************************************************************)
EXTENDS Integers, Sequences, FiniteSetsExt

CONSTANTS
    HealthDates,      \* the days that health is asked for
    HealthToday,      \* the one that the page asks for
    HealthTTL,        \* SYSTEM_HEALTH_CACHE_TTL_MS
    MaxEntries,       \* SYSTEM_HEALTH_CACHE_MAX_ENTRIES
    MaxMinutes,       \* bounds the time that passes
    MaxCommits,       \* bounds the changes
    MaxHealthReads,   \* bounds the readings an instance starts
    MaxRefreshes,     \* bounds the times the page is refreshed by hand
    MaxCalls          \* bounds the credential changes of the page

FleetHealthAssumption ==
    /\ HealthToday \in HealthDates
    /\ HealthTTL \in Nat /\ MaxEntries \in Nat \ {0}
    /\ {MaxMinutes, MaxCommits, MaxHealthReads, MaxRefreshes, MaxCalls} \subseteq Nat

VARIABLES
    minute,        \* the time
    commits,       \* how many changes Convex has committed
    settled,       \* the last one whose request this instance has answered
    live,          \* the call whose credential Convex accepts, 0 for none of these
    calls,         \* what became of each call for a credential
    cache,         \* the readings kept, by day, the order of their use, and the
                   \* highest number of one that was evicted
    generation,    \* how often the cache was emptied
    readSequence,  \* the number of the last reading begun
    readings,      \* the readings under way
    newest,        \* the last reading kept for each day
    requested,     \* requests of the page for readiness, not yet served
    lookup,        \* its latest request for the credential's status, if it is
                   \* not yet answered: a set of at most one
    desk,          \* what the page shows
    told, cleared  \* credentials shown, unknown outcomes taken off the page

server == <<commits, settled, live, calls>>
kept == <<cache, generation, newest>>
vars == <<minute, server, kept, readSequence, readings, requested, lookup, desk,
          told, cleared>>

Unread == -1

-----------------------------------------------------------------------------
(* What a kiosk reports, and what is made of it.                           *)

Reports ==
    [last : {"online", "stale", "offline", "never_synced"},
     told : BOOLEAN, recent : BOOLEAN,
     camera : {"yes", "no", "null"}, model : {"yes", "no", "null"},
     reason : {"", "camera_error", "liveness_unavailable"},
     logs : {"0", "1", "null"}, attempts : {"0", "1"}, rejected : {"0", "1"},
     queue : {"clear", "pending", "held", "unknown"}, purge : BOOLEAN]

\* The label of a reason that a failed part already gives is not repeated.
getDeviceIssues(k) ==
    LET Issue(issue, here) == {i \in {issue} : here}
    IN Issue("camera_error", k.told /\ k.camera = "no")
           \cup Issue("model_error", k.told /\ k.model = "no")
           \cup Issue("rejected", k.told /\ k.rejected # "0")
           \cup Issue(k.reason, k.told /\ k.reason # "")
           \cup Issue("queue", k.queue \in {"pending", "held"})
           \cup Issue("purge", k.purge)

Behind(kiosks, statuses) == {k \in kiosks : k.last \in statuses}

\* An answer of the face service: whether it came in time, and what it says.
FaceAnswers == [{"in time", "ok", "status", "model", "auth"} -> BOOLEAN]
fetchFaceHealth(answer) ==
    [status |-> IF ~answer["in time"] THEN "offline"
                ELSE IF \A part \in DOMAIN answer : answer[part]
                THEN "online" ELSE "degraded",
     model_ready |-> answer["in time"] /\ answer["model"]]

warnings(kiosks, face) ==
    UNION {getDeviceIssues(k) : k \in kiosks}
        \cup ({face.status} \ {"online"})
        \cup {w \in {"models"} : face.status # "offline" /\ ~face.model_ready}
        \cup {w \in {"no kiosks"} : kiosks = {}}
        \cup {w \in {"behind"} : Behind(kiosks, {"stale"}) # {}}
        \cup {w \in {"silent"} : Behind(kiosks, {"offline", "never_synced"}) # {}}

\* The heading of the kiosks page.
readinessLabel(kiosks) ==
    CASE kiosks = {} -> "No kiosks registered"
      [] kiosks # {} /\ Behind(kiosks, {"offline", "never_synced"}) # {} ->
            "Kiosks need attention"
      [] OTHER -> IF \E k \in kiosks : getDeviceIssues(k) # {}
                  THEN "Kiosks report device issues"
                  ELSE IF Behind(kiosks, {"stale"}) # {} THEN "Some kiosks are stale"
                  ELSE "All kiosks online"

\* The heading of the dashboard; workers are none, lacking a face, or enrolled.
readinessStatus(kiosks, face, workers) ==
    LET faceServiceHealthy == face.status = "online" /\ face.model_ready
        silent == Behind(kiosks, {"offline", "never_synced"}) # {}
    IN IF kiosks = {} \/ workers = "none" \/ silent \/ ~faceServiceHealthy
       THEN "critical"
       ELSE IF \/ Behind(kiosks, {"stale"}) # {}
               \/ \E k \in kiosks : getDeviceIssues(k) # {}
               \/ workers = "lacking"
       THEN "attention" ELSE "ready"

\* The answer to anyone who asks the backend itself.
publicKioskHealth(kiosks) ==
    LET Counted == {k \in kiosks : k.told /\ k.recent}
    IN IF \/ kiosks = {}
          \/ Behind(kiosks, {"stale", "offline", "never_synced"}) # {}
          \/ kiosks # Counted
          \/ \E k \in Counted :
                \/ "no" \in {k.camera, k.model} \/ k.reason # ""
                \/ "1" \in {k.logs, k.attempts, k.rejected}
                \/ "null" \in {k.camera, k.model}
       THEN "degraded" ELSE "healthy"

-----------------------------------------------------------------------------
(* The cache of one instance.                                              *)

Evicted(c, dates) ==
    [entries |-> [d \in DOMAIN c.entries \ dates |-> c.entries[d]],
     order |-> SelectSeq(c.order, LAMBDA d : d \notin dates),
     retired |-> Max({c.retired} \cup
                     {c.entries[d].requestId : d \in DOMAIN c.entries \cap dates})]

evictExpired(c) ==
    Evicted(c, {d \in DOMAIN c.entries : c.entries[d].expiresAt <= minute})

Used(order, date) == Append(SelectSeq(order, LAMBDA d : d # date), date)

get(c, date) ==
    IF date \in DOMAIN c.entries THEN [c EXCEPT !.order = Used(@, date)] ELSE c

\* A slip: what was evicted is forgotten.
KeptAfterEviction(c, r) ==
    /\ r.generation = generation
    /\ r.date \in DOMAIN c.entries => c.entries[r.date].requestId <= r.id

\* A reading of before the cache was emptied, or older than one that was kept, is
\* not kept.
IsKept(c, r) ==
    /\ r.generation = generation
    /\ r.id > c.retired
    /\ r.date \in DOMAIN c.entries => c.entries[r.date].requestId <= r.id

Stored(c, r) ==
    [c EXCEPT
        !.entries = [d \in DOMAIN c.entries \cup {r.date} |->
                        IF d = r.date
                        THEN [requestId |-> r.id, expiresAt |-> minute + HealthTTL,
                              of |-> r.of]
                        ELSE c.entries[d]],
        !.order = Used(@, r.date)]

set(c, r) ==
    IF ~IsKept(c, r) THEN c
    ELSE LET stored == Stored(c, r)
         IN IF Len(stored.order) > MaxEntries
            THEN Evicted(stored, {Head(stored.order)}) ELSE stored

Emptied(c) == [c EXCEPT !.entries = [d \in {} |-> d], !.order = <<>>]

\* A slip: readings under way still count.
OnlyEmptied == cache' = Emptied(cache) /\ UNCHANGED generation

invalidate ==
    /\ generation' = generation + 1
    /\ cache' = Emptied(cache)

-----------------------------------------------------------------------------
(* Asking for health.  page is the number of the request of the kiosks     *)
(* page, 0 if someone else asks.  Answers come as the readings end; one of *)
(* the page's may get lost.                                                *)

beginRead(date, page, atGeneration) ==
    /\ readSequence < MaxHealthReads
    /\ readSequence' = readSequence + 1
    /\ readings' = readings \cup
          {[id |-> readSequence + 1, date |-> date, page |-> page, of |-> Unread,
            generation |-> atGeneration]}

\* A reader other than the page: the reading kept answers him at once.
GET(date) ==
    LET c == evictExpired(cache)
    IN /\ cache' = get(c, date)
       /\ IF date \in DOMAIN c.entries THEN UNCHANGED <<readSequence, readings>>
          ELSE beginRead(date, 0, generation)
       /\ UNCHANGED <<minute, server, generation, newest, requested, lookup, desk,
                      told, cleared>>

\* The page asks for a fresh one, which empties the cache.
GETFresh(page) ==
    /\ page \in requested
    /\ requested' = requested \ {page}
    /\ invalidate
    /\ beginRead(HealthToday, page, generation + 1)
    /\ UNCHANGED <<minute, server, newest, lookup, desk, told, cleared>>

list(r) ==
    /\ r.of = Unread
    /\ readings' = (readings \ {r}) \cup {[r EXCEPT !.of = commits]}
    /\ UNCHANGED <<minute, server, kept, readSequence, requested, lookup, desk,
                   told, cleared>>

\* A slip: whatever comes is shown.
ShowAny(page, of) ==
    desk' = IF page # 0 THEN [desk EXCEPT !.shown = of, !.loading = FALSE] ELSE desk

\* The page shows only the answer to its latest request.
ShowReading(page, of) ==
    desk' = IF page = desk.request
            THEN [desk EXCEPT !.shown = of, !.loading = FALSE] ELSE desk

Answered(r, arrives) ==
    /\ r.of # Unread
    /\ readings' = readings \ {r}
    /\ cache' = set(evictExpired(cache), r)
    /\ newest' = IF IsKept(evictExpired(cache), r)
                 THEN [newest EXCEPT ![r.date] = r.id] ELSE newest
    /\ ShowReading(r.page, {of \in {r.of} : arrives})
    /\ UNCHANGED <<minute, server, generation, readSequence, requested, lookup,
                   told, cleared>>

\* One of the queries fails.  (To the page a request that never arrives is the same.)
Failed(r) ==
    /\ readings' = readings \ {r}
    /\ ShowReading(r.page, {})
    /\ UNCHANGED <<minute, server, kept, readSequence, requested, lookup, told,
                   cleared>>

-----------------------------------------------------------------------------
(* The kiosks page.                                                        *)

fetchReadiness(d) ==
    [d EXCEPT !.request = @ + 1, !.shown = {}, !.loading = TRUE]

\* The answer to an earlier request changes nothing any more.
fetchCredentialStatus == lookup' = {Unread}

Refresh ==
    /\ desk.refreshes < MaxRefreshes
    /\ ~desk.loading
    /\ desk' = [fetchReadiness(desk) EXCEPT !.refreshes = @ + 1]
    /\ requested' = requested \cup {desk'.request}
    /\ UNCHANGED <<minute, server, kept, readSequence, readings, lookup, told,
                   cleared>>

LookedUp ==
    /\ lookup = {Unread}
    /\ lookup' = {commits}
    /\ UNCHANGED <<minute, server, kept, readSequence, readings, requested, desk,
                   told, cleared>>

\* Without an answer the status that was shown stays, marked as unavailable.
StatusAnswered(arrives) ==
    /\ lookup # {} /\ (arrives => lookup # {Unread})
    /\ lookup' = {}
    /\ desk' = IF arrives THEN [desk EXCEPT !.status = lookup, !.statusError = FALSE]
               ELSE [desk EXCEPT !.statusError = TRUE]
    /\ UNCHANGED <<minute, server, kept, readSequence, readings, requested, told,
                   cleared>>

\* One change of the credential at a time, and none while a new one is shown.
manageCredential(kind) ==
    \E i \in 1..MaxCalls :
        /\ calls[i].stage = "none" /\ \A j \in 1..(i - 1) : calls[j].stage # "none"
        /\ desk.busy = 0 /\ desk.issued = 0
        /\ calls' = [calls EXCEPT ![i] = [stage |-> "sent", kind |-> kind, at |-> 0]]
        /\ desk' = [desk EXCEPT !.busy = i]
        /\ UNCHANGED <<minute, commits, settled, live, kept, readSequence, readings,
                       requested, lookup, told, cleared>>

\* The mutation of the route, which may be served after the page gave up.
rotateOrRevoke(i) ==
    /\ calls[i].stage = "sent"
    /\ commits < MaxCommits
    /\ commits' = commits + 1
    /\ live' = IF calls[i].kind = "issue" THEN i ELSE 0
    /\ calls' = [calls EXCEPT ![i].stage = "committed", ![i].at = commits + 1]
    /\ UNCHANGED <<minute, settled, kept, readSequence, readings, requested, lookup,
                   desk, told, cleared>>

\* The route hears of it: what is kept is out of date.
CredentialServed(i) ==
    /\ calls[i].stage = "committed"
    /\ calls' = [calls EXCEPT ![i].stage = "served"]
    /\ settled' = Max({settled, calls[i].at})
    /\ invalidate
    /\ UNCHANGED <<minute, commits, live, newest, readSequence, readings, requested,
                   lookup, desk, told, cleared>>

\* Convex fails the route, before or after it committed; or the session is over.
CredentialFailed(i, stage) ==
    /\ \/ calls[i].stage = "sent" /\ stage \in {"failed", "refused"}
       \/ calls[i].stage = "committed" /\ stage = "failed"
    /\ calls' = [calls EXCEPT ![i].stage = stage]
    /\ UNCHANGED <<minute, commits, settled, live, kept, readSequence, readings,
                   requested, lookup, desk, told, cleared>>

\* A slip: a failure of the server counts as one.
RejectedOrFailed(i, arrives) == arrives /\ calls[i].stage \in {"refused", "failed"}

\* Only a refusal is sure to have changed nothing.
rejection(i, arrives) == arrives /\ calls[i].stage = "refused"

\* The page learns the outcome, unless the answer was lost.
CallAnswered(arrives) ==
    LET i == desk.busy
        done == fetchReadiness([desk EXCEPT !.busy = 0])
    IN /\ i # 0
       /\ arrives => calls[i].stage \in {"served", "failed", "refused"}
       /\ IF arrives /\ calls[i].stage = "served"
          THEN /\ desk' = [done EXCEPT !.unknown = {},
                           !.issued = IF calls[i].kind = "issue" THEN i ELSE 0]
               /\ calls' = [calls EXCEPT ![i].stage = "heard"]
               /\ told' = IF calls[i].kind = "issue" THEN told \cup {i} ELSE told
               /\ cleared' = cleared \cup desk.unknown
          ELSE /\ desk' = IF calls[i].kind = "revoke" \/ rejection(i, arrives)
                          THEN done ELSE [done EXCEPT !.unknown = @ \cup {i}]
               /\ UNCHANGED <<calls, told, cleared>>
       /\ requested' = requested \cup {done.request}
       /\ fetchCredentialStatus
       /\ UNCHANGED <<minute, commits, settled, live, kept, readSequence, readings>>

Dismiss ==
    /\ \/ /\ desk.issued # 0
          /\ desk' = [desk EXCEPT !.issued = 0]
          /\ UNCHANGED cleared
       \/ /\ desk.unknown # {}
          /\ desk' = [desk EXCEPT !.unknown = {}]
          /\ cleared' = cleared \cup desk.unknown
    /\ UNCHANGED <<minute, server, kept, readSequence, readings, requested, lookup,
                   told>>

-----------------------------------------------------------------------------
\* A kiosk reports, or a change is made through another instance.
Elsewhere ==
    /\ commits < MaxCommits
    /\ commits' = commits + 1
    /\ UNCHANGED <<minute, settled, live, calls, kept, readSequence, readings,
                   requested, lookup, desk, told, cleared>>

Later ==
    /\ minute < MaxMinutes
    /\ minute' = minute + 1
    /\ UNCHANGED <<server, kept, readSequence, readings, requested, lookup, desk,
                   told, cleared>>

\* The page has just been opened.
Init ==
    /\ minute = 0 /\ commits = 0 /\ settled = 0 /\ live = 0
    /\ calls = [i \in 1..MaxCalls |-> [stage |-> "none", kind |-> "none", at |-> 0]]
    /\ cache = [entries |-> [d \in {} |-> d], order |-> <<>>, retired |-> 0]
    /\ generation = 0 /\ readSequence = 0 /\ readings = {}
    /\ newest = [d \in HealthDates |-> 0]
    /\ requested = {1} /\ lookup = {Unread}
    /\ desk = [request |-> 1, shown |-> {}, loading |-> TRUE,
               status |-> {}, statusError |-> FALSE, busy |-> 0, issued |-> 0,
               unknown |-> {}, refreshes |-> 0]
    /\ told = {} /\ cleared = {}

Next ==
    \/ \E date \in HealthDates : GET(date)
    \/ \E page \in requested : GETFresh(page)
    \/ \E r \in readings :
          list(r) \/ Failed(r) \/ \E arrives \in BOOLEAN : Answered(r, arrives)
    \/ LookedUp \/ \E arrives \in BOOLEAN : StatusAnswered(arrives)
    \/ Refresh
    \/ \E kind \in {"issue", "revoke"} : manageCredential(kind)
    \/ \E i \in 1..MaxCalls :
          \/ rotateOrRevoke(i) \/ CredentialServed(i)
          \/ \E stage \in {"failed", "refused"} : CredentialFailed(i, stage)
    \/ \E arrives \in BOOLEAN : CallAnswered(arrives)
    \/ Dismiss \/ Elsewhere \/ Later

-----------------------------------------------------------------------------
\* A reading is never kept for a day over one that was asked for later, even when
\* that one has expired, was evicted or made way for a change.
OrderKept == [][\A d \in HealthDates : newest'[d] >= newest[d]]_vars

\* Whoever asks once a change made through this instance was answered is told of
\* a reading that has it.
SettledIsServed ==
    \A d \in DOMAIN cache.entries : cache.entries[d].of >= settled

\* The page shows no reading, and no status of a credential as good, of before a
\* change that it was told was made.
PageIsCurrent ==
    \A i \in 1..MaxCalls : calls[i].stage = "heard" =>
        /\ \A of \in desk.shown : of >= calls[i].at
        /\ lookup = {} /\ ~desk.statusError =>
              \A of \in desk.status : of >= calls[i].at

\* A credential that the kiosk needs and that could not be shown is told of, until
\* the administrator dismisses that or makes another change that succeeds.
SecretAccountedFor ==
    live # 0 => live \in told \cup cleared \cup desk.unknown \cup {desk.busy}

\* The verdicts on the same kiosks agree: none is good while another part of the
\* portal warns, and the public answer differs only by what it does not look at.
VerdictsAgree ==
    \A k \in Reports : \A kiosks \in {{}, {k}} :
        LET good == readinessLabel(kiosks) = "All kiosks online"
        IN /\ \A answer \in FaceAnswers, workers \in {"none", "lacking", "enrolled"} :
                 LET face == fetchFaceHealth(answer)
                 IN /\ readinessStatus(kiosks, face, workers) = "ready" =>
                          good /\ warnings(kiosks, face) = {}
                    /\ good /\ workers = "enrolled"
                            /\ (\A part \in DOMAIN answer : answer[part]) =>
                          readinessStatus(kiosks, face, workers) = "ready"
           /\ publicKioskHealth(kiosks) = "healthy"
                 /\ (\A x \in kiosks : x.queue \in {"clear", "unknown"} /\ ~x.purge) =>
                 good
           /\ good /\ (\A x \in kiosks : x.told /\ x.recent
                             /\ "null" \notin {x.camera, x.model}
                             /\ x.logs # "1" /\ x.attempts = "0") =>
                 publicKioskHealth(kiosks) = "healthy"
=============================================================================

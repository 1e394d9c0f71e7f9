# FW Gatekeeper in TLA+

Models, checks and proofs for the gatekeeper: a face-recognition attendance system made of
kiosks at the doors and a portal in the office. The definitions are translated from the
source; `PROJECT.json` names the lines each of them stands for, and the hazards of the code
with the properties that would catch them.

Four promises of the system are hard to keep and harder to test, and the models are built
around them.

* **No attendance is lost, invented or booked twice**, although a kiosk works offline, its
  network fails at any point, and one bad row can refuse a whole batch.
* **Face data that was purged is gone** from every kiosk that the portal shows as clean, and
  no face is stored of somebody who did not agree to it.
* **A kiosk always comes back**: an update that fails, a power failure or a dead camera
  leaves it with a complete release, photos for its rows, and nobody clocked by mistake.
* **What the office sees and signs is what there is**: no page looks clear without knowing
  it, no correction meets evidence that nobody saw, no closeout is signed for blockers that
  nobody acknowledged, and nobody acts with a right that was revoked.

## 1. The system

| part | state | operations | talks to |
|---|---|---|---|
| Portal database (`convex/`) | workers and roster sequence, kiosks with credentials and queue reports, roster receipts, attendance, corrections, closeouts, reviews, recognition attempts, accounts and sessions, alerts, uploads | queries and mutations, each one serializable transaction; actions, crons and scheduled jobs of several | API routes, portal pages |
| Portal API (`src/src/app/api/`) | the kiosk readings that one instance keeps | sync, acknowledgement, bulk uploads, enrollment, health, credentials | kiosks over HTTP; several Convex calls in one request |
| Portal pages (`src/src/app/`) | what is shown, typed and under way in one tab; session storage | polls, selections, notes, corrections, enrollment, credentials, closeout | portal API |
| Kiosk database (`pi-kiosk/database.py`) | `workers`, `attendance_log`, `sync_state`, `photo_cleanup_journal` in SQLite | one transaction per operation | main loop, sync thread, local screen, enrollment command line |
| Kiosk sync (`sync.py`) | cursors, stored receipt, the cycle's budgets | one thread: attendance, then roster, then receipt, for ever | portal API, database, recognizer |
| Camera loop (`main.py`, `liveness*.py`, `scan_freshness.py`) | pending frame, current result, camera generation, pending clock, last scans | a camera thread and a detection thread that share three fields under one lock | recognizer, database |
| Photo files (`database.py`, `enroll.py`) | photo directory, journal, one lock file | publish, remove, recover | sync thread, enrollment process |
| Updates (`update.sh`, `tools/kiosk_release.py`) | release directories, environments, three JSON records | launcher (under systemd), updater script | each other only through files and process identities |
| Face service (`face-service/`) | none | encode one image | portal API |

What makes each part hard, and what makes it correct:

* **Roster.** A receipt is issued before the roster is read, the roster is read in pages that
  are transactions of their own, the kiosk commits row by row, and the acknowledgement may be
  lost, late or repeated. Correct means: a purge shown as complete is complete, no delta skips
  a change, and no lost message leaves a purge pending for ever.
* **Attendance upload.** A batch is booked or refused as a whole, answers get lost, and pages,
  requests and cursors are bounded. Correct means: exactly once on the server, quarantine only
  for rows that are refused on their own account, and no row starves behind another.
* **Release updates.** A script of commands that a signal, a kill or a power failure may cut
  anywhere, beside a launcher that polls the same files. Correct means: the committed release
  is complete and was seen healthy, and the kiosk ends up running it.
* **Automatic scan and clock.** Results are older than the frame on the screen, people change
  places, the camera and the blink checker fail; the direction is inferred from a history that
  is pruned, under a wall clock that steps. Correct means: a scan belongs to the person who
  blinked for it, nobody is clocked twice in the debounce time, and nobody leaves twice.
* **Worker photos.** Files and rows cannot be changed together, and directory changes may be
  undone by a power failure. Correct means: rows keep their photos, photos without rows are
  journaled, and a receipt is only stored for erasures that last.
* **Kiosk identity.** One shared key until a kiosk gets its own, several registrations of one
  name, reports that overtake each other. Correct means: only the holder of the key last given
  is admitted, and an old report never clears a newer count of scans still to upload.
* **The portal's records.** Each mutation is serializable, so what is hard is what spans
  several of them: batched revocations, passwords verified between two transactions, leases of
  alert deliveries, expiry of uploads, evidence that changes before it is signed.
* **The portal's pages.** Reads overlap, fail and come back out of order, answers to what was
  sent are lost, the day changes under a draft, and a tab reloads. Correct means: the newer
  reading stays, what is not known does not look fine, and nothing is sent or stored but what
  was meant.
* **Derived reports.** Exceptions, briefing and payroll hours read the same punches with code
  of their own. Correct means: they agree, and a review hides only what was seen.

## 2. Modules

| module | stands for | checked by | proofs |
|---|---|---|---|
| `RosterReceipts` | `convex/kiosks.ts`, `workers.ts`, `rosterSequence.ts`, `api/sync`, `api/sync/ack`, the roster phase of `sync.py`, reload in `recognition.py` | `roster_receipts`, `progress` | `RosterReceipts_proofs` |
| `LegacyRoster` | the timestamp cursors of kiosks without receipts, `convex/kiosks.ts` | `kiosk_fleet` | `MCKioskFleet_proofs` |
| `AttendanceLedger` | what an upload promises (abstract) | `progress`, as `LedgerSpec` | as `UploadImplementsLedger` |
| `AttendanceUpload` | the attendance phase of `sync.py`, the queue in `database.py`, `api/attendance/bulk`, `convex/attendance.ts` | `progress` | `AttendanceUpload_proofs` |
| `KioskRelease` | `update.sh`, `tools/kiosk_release.py` | `kiosk_fleet`, `kiosk_disk`, `kiosk_release_running` | `MCKioskFleet_proofs` |
| `KioskIdentity` | kiosks, credentials and queue reports, `convex/kiosks.ts`, `attendanceQueue.ts`, `kiosk-device-auth.ts` | `kiosk_fleet` | `MCKioskFleet_proofs` |
| `ScanPipeline` | `main.py`, `liveness.py`, `liveness_policy.py`, `scan_freshness.py` | `kiosk_device` | `MCKioskDevice_proofs` |
| `ClockAction` | direction, manual clock, removal and restoration, pruning in `database.py`, `app.py` | `kiosk_device` | `MCKioskDevice_proofs` |
| `RecognitionReviews` | `convex/recognitionAttempts.ts`, reviews in `shiftExceptions.ts` | `kiosk_device` | `MCKioskDevice_proofs` |
| `RecognitionLab` | the Recognition Lab's page, route and windows | `kiosk_device` | `MCKioskDevice_proofs` |
| `PhotoJournal` | photo functions of `database.py`, their use in `sync.py` and `enroll.py` | `kiosk_disk`, `photo_journal_flush` | `PhotoJournal_proofs` |
| `PortalMembers` | `convex/portalMembers.ts`, `access.ts` | `portal_records` | `MCPortalRecords_proofs` |
| `PasswordAttempts` | the budget of failed passwords, `portalMembers.ts` | `portal_records` | `MCPortalRecords_proofs` |
| `ShiftCloseout` | `convex/shiftCloseouts.ts`, `app/closeout/page.tsx` | `portal_records` | `MCPortalRecords_proofs` |
| `EnrollmentPhotos` | `convex/enrollmentPhotos.ts`, `api/enroll` | `portal_records` | `MCPortalRecords_proofs` |
| `PeopleAlerts` | `convex/peopleAlerts.ts` | `portal_records`, `progress` | `MCPortalRecords_proofs` |
| `KioskAlerts` | `convex/alerts.ts` | `portal_records`, `kiosk_alerts_folded` | `MCPortalRecords_proofs` |
| `AttendanceCorrections` | `convex/attendanceCorrections.ts` | `portal_records` | `MCPortalRecords_proofs` |
| `ShiftExceptions` | `convex/shiftExceptions.ts`, `attendanceShifts.ts` | `shift_reports` | `ShiftReports_proofs` |
| `ShiftReports` | `shiftBriefing.ts`, the checklist of `shiftCloseouts.ts`, `attendance-hours.ts` | `shift_reports` | `ShiftReports_proofs` |
| `ProactiveActions` | `lib/proactive-actions.ts`: what needs attention | `portal_pages`, `progress` | `MCPortalPages_proofs` |
| `Dashboard` | `app/page.tsx` | `portal_pages`, `progress` | `MCPortalPages_proofs` |
| `ExceptionsPage` | `app/exceptions/page.tsx` and its hooks | `portal_pages`, `exceptions_rollover` | `MCPortalPages_proofs` |
| `DirectCorrections` | `app/log/page.tsx`, `lib/direct-correction.ts`, the correction dialog | `portal_pages` | `MCPortalPages_proofs` |
| `EnrollPage` | `app/enroll/page.tsx`, `api/enroll`, `lib/biometric-consent.ts` | `portal_pages` | `MCPortalPages_proofs` |
| `FleetHealth` | `lib/system-health-cache.ts`, `api/system-health`, `app/kiosks/page.tsx` | `portal_pages` | `MCPortalPages_proofs` |

An `MC` module instantiates what it checks. Where components share no state, one run checks
several of them: a variable `part`, chosen initially and never changed, says which of them
moves, and the others stay in an initial state. That is the sum of their state spaces and not
the product; a property of one component is thereby checked in every behaviour of it and, of
the others, in their initial states. `MCProgress` and `MCKioskDisk` state for each part the
fairness of its own module. `MCProgress` has the upload twice, with pages that hold the whole queue
and with pages of one scan.

Operators introduced by a comment *A slip: ...* are used by no specification: each is a
plausible mistake in one definition, and one of the properties is violated when it takes that
definition's place.

### RosterReceipts

A worker is a row of the portal; a template is named by the roster sequence at which it was
enrolled. Portal writes are one action each, all through `writeRosterWorker`, as in the code.
One HTTP request is several actions: `AnswerIssue` (the receipt mutation), one `ReadPage` per
row, `LastPage` for the change from changed to legacy rows and for the end. A real page holds
200 rows; with one row per page writes fall between any two rows, which includes all coarser
pages. The kiosk's `phase` is its place in `sync_workers`: revocations (`RevokeRow`), check
for duplicates (`Validate`), upserts (`ApplyRow`), removal of identities that a full roster
does not contain (`PruneStale`), stored receipt, reload, acknowledgement, bookkeeping in two
commits. `FailSync`, `FailReload`, `AckTimeout`, `Crash` and `Reimage` may happen at each of
them; acknowledgements and one abandoned request stay on the network. The initial states are
those of a deployment at the sequence migration: rows and purges without sequence, old
templates on the kiosk, a receipt without sequence. Left out: validation of worker fields.

### LegacyRoster

A kiosk without receipts sends back the timestamp of the last answer it applied; the portal
remembers which sequence its last two timestamps stand for (`issueLegacyRosterCursor`), and
reads the rows in a later transaction (`fetchWorkersForSync`). `SetClock` sets the servers'
clock anywhere. Two requests may be under way, of which the device waits for one, and
`Remembered` are timestamps of the time before, perhaps ahead of the clock. Left out: the
pages (they are in RosterReceipts), and a database from before employee ids, for which a
kiosk asks for everyone until it has them.

### AttendanceUpload and AttendanceLedger

`Record`, `MapWorker` and `retry_attendance_rejection` are the world around the queue: scans,
roster updates that give a local profile its portal id, and a supervisor's repair and release.
A cycle is two passes (`current`, `historical`) over pages (`ReadPage`), split by claim
(`claim_groups`), sent one batch at a time (`upload_attendance`) within `budget`, halved
(`Bisect`) or quarantined (`RejectMismatch`, `RejectInvalid`) when refused. `GiveUp` is every
outcome that ends the cycle with the queue as it was. `late` holds batches that the server may
still book after the kiosk stopped waiting. Whether an event is valid and whether the
credential covers its claim do not change while it waits, except by a repair. Left out: a
change of the kiosk's id, credentials of the old scheme, receipts for more than 500 events.

`AttendanceLedger` is the promise: a scan is owed, booked or set aside; it leaves the queue
only when booked or refused and is never set aside once booked. `AttendanceUpload` implements
it with `queue <- Queued`, `ledger <- {copies > 0}`, `aside <- {quarantined}`.

### KioskRelease

The updater is a `script` of commands, the order of `update.sh`, with `step` inside the
current one. `Interrupt` runs the exit trap, `Kill` leaves the command in progress to finish
as an orphan that still holds the lock, `PowerFailure` loses what was not flushed (`durable`
is what `kiosk-current.json` then holds). The launcher reads the committed release and the
trial record in two steps (`Poll`, `Compare`), starts the application and then writes the
marker (`Spawn`, `Mark`). The collector looks at each item and removes it in a second step
(`DoomItem`, `RemoveItem`). Identities of processes contain start time and boot, so they are
never reused and may be numbered. Left out: the bootstrap of the launcher, disk reserve and
build guard, migration of systemd units.

### KioskIdentity

Registration, rotation and revocation of credentials and the two steps of a report:
`authenticateKiosk`, then `updateLastSync`, with time passing in between. The key of a request
is the one its device held when it was sent (`Arrive`), of its own kiosk or of another one. A
kiosk's name stands for its name, its sync id and its document id. `holder`, `heard` and
`name` of a device are what the properties compare with. Left out: two devices that have the
same name and the shared key and are not both registered, which nothing tells apart, and rows
of the health table older than the queue report.

### ScanPipeline and ClockAction

Time is the number of frames. The detection thread takes the pending frame, matches it for as
long as it likes and publishes under the camera's generation; the camera loop is `Capture`,
one decision and perhaps `record_clock`. `pending` is `pending_clock`, `blinkers` the frames
that advanced the blink. The recognizer tells workers apart but may fail to recognize anyone:
averaging, a roster reload or a changed row only reject, and are reasons to fail.
`LivenessRequired` is the site's choice. Failures are camera errors, restarts and a blink
checker that breaks and recovers. Left out: display texts, recovery of the recognition model.

`ClockAction` is the write that follows, seen from one person: `Clocking` is the match, a
check that the worker is still enrolled, and one transaction that infers the direction from
`_get_last_attendance`; the roster meanwhile removes, restores, adopts or enrolls the person
under another local id, synced history is pruned and the wall clock steps. Left out: a worker
known only by a local id of an older release, and kiosks of the types in and out, which infer
nothing. Not covered by either: the debounce between a scan and a manual entry during the
blink (`main.py:1070`), and a wall clock that steps back over the debounce
(`database.py:1408`).

### RecognitionReviews and RecognitionLab

Attempts are recorded under a row number (older release) or a UUID, uploaded in any parts of
the queue, sent again when an answer is lost, and adopted by the portal under their new id
when evidence, kiosk and row agree; `Reset` sets the card up anew, so that rows count from one
again. Two screens review an attempt, one writing the attempt, one the review of an exception.
`explicit` holds the reviews of exceptions, `expected` the status of the latest action and the
notes that may be shown after it. Assumed: a request of the older
release is not delayed beyond the update, a candidate keeps its worker id, and the evidence of
two scans differs. An old queue that the portal refuses with 409 stays until the card's rows
have UUIDs.

The Lab reads one window of an index (`Read`), shows a few of its matches, and leads to the
next window or to the attempt a link names; attempts arrive, others review, and the backend
may still be the release before (`Deploy`), which gives a capped array without windows. A full
window may not know that it is the last; a failed read shows nothing. By design a review whose
answer comes after the selection changed does not refresh the new list. `updateReview` without a
note leaves the attempt's own note, and the review is then the latest action; a note given in the
exceptions since is no longer shown, and an older one is, if the attempt has one. The Lab's page
never sends a note, so each of its reviews does this. `LatestReviewWins` therefore says nothing of
the note after a review of the Lab without one; it says the status after every review, and the
note after a review that gave one and after one of the exceptions, where an omitted note keeps
the one shown. All scans are near one midnight, so that the range of either
day holds them all; filters by confidence and kiosk are not told apart.

### PhotoJournal

`op` and `step` are the holder of the lock file and its place in `_publish_worker_photos`,
`_remove_worker_by_server_id_unlocked` or `_recover_photo_cleanup_unlocked`; `files` is the
directory, `flushed` what it holds after a power failure, any mixture of the two being
possible in between. The receipt's questions about unmanaged rows and unreferenced files are
asked without the lock and are actions of their own. Commits of SQLite are taken as durable.
Left out: symbolic links and photos outside the directory, which the code refuses, and
`remove_local_worker_owned`, which only tests call.

### PortalMembers and PasswordAttempts

A session row is named by its number; a browser presents its token after the row is gone, so
any session ever opened may act (`Administration` takes any of `rows`). Disabling an account,
a reset and a changed password set a cutoff in their own transaction and start a cleanup that
deletes sessions and tokens a batch at a time (`cleanupRevokedSessions`,
`removeExpiredSessionTokens`). A member's change of password verifies between two transactions
(`StartChange`, `completePasswordChange`, `AbandonChange`). `PasswordAttempts` is the budget
that sign-in and such changes share: an attempt is reserved before it is verified, and a right
password clears the bucket later, if it is still the one stored. Left out: audit rows,
validation of names, roles that differ only in what they may read.

### ShiftCloseout

Each supervisor's tab keeps its decision with a request id until the server's receipt or a
refusal arrives (`beginCloseoutAction`, `sendCloseoutAction`); an answer may be lost, and a
request whose page gave up on it may still arrive (`save` takes any copy under way). Blockers
are named by their evidence. What a page may know of a rejected request is limited in the code
as in the model: another copy that was on its way when the page reported the rejection
(`doubtful`) may still be applied. Left out: notes and the figures copied into the record.

### EnrollmentPhotos

A request uploads photo by photo (`Store`, `register`), saves the worker with all of them
(`SaveWorker`) and cleans up; the request, the upload and every answer may be lost, and a
scheduled job expires what nobody attached. Assumed: a registration that commits is answered to
the upload action that called it. If its answer were lost there, the action's catch would delete
a file that still has a pending row. Left out: encodings and validation.

### PeopleAlerts, KioskAlerts, AttendanceCorrections

People alerts: the transaction that adds a person inserts an event and schedules a run; a cron
starts others, so that runs overlap, claim one event at a time with a lease, send outside of
any transaction and may die. Kiosk alerts: one cron job that does not overlap itself reads
kiosks and open states, sends, and records in one transaction; kiosks change meanwhile, and a
channel may refuse. Corrections: a void, its replays and its reversal, of which any request
may be served again at any time. Left out: grouping and recipients of messages, reminders, and
added punches, which are replayed and reversed alike.

### ShiftExceptions and ShiftReports

Nothing of an exception is stored: it is computed at every read from the effective punches of
a date and its two neighbours, the schedule and the clock. Stored are reviews, bound by a
fingerprint to the evidence they were made of. `Scan`, `CorrectDirectly`, `EditSchedule`,
`RemoveWorker` and `Tick` change the evidence while a supervisor looks at a page of before
(`LoadPage`, `review`, `ApplySuggestion`). `ShiftReports` adds three other readings of the same
punches: the briefing, the closeout's checklist, and the hours for payroll, which pair punches
by code of their own. Left out: punches of unknown time, daylight saving, totals over several
departments, the comparison of a signed closeout with later attendance.

### ProactiveActions and Dashboard

`ProactiveActions` is the pure function from the signals a page has read to the actions it
shows, their order, and the few of the Live Shift Sentinel. `Dashboard` reads seven signals at
once, in two parts, keeps what it has of a signal that fails, starts over on a new factory day
and remembers what was marked as seen. Left out: texts and labels, and the action `schedule-warning`, which
shows `stats.scheduleWarning` whenever the figures carry one. By design an observation of
the portal (health older than the page, warnings keyed by their position) may delay an item,
but not hide it.

### ExceptionsPage and DirectCorrections

One day of exceptions: which day is shown (`setDate`, `Follow`, `checkDay` at midnight), reads
that overlap (`Read`, `Arrive`), the note typed, and the correction drafted for what is shown,
whose answer may be lost. The log (`DirectCorrections`) locks on a correction whose outcome is
unknown, through closing, other dates and reloads, and repeats it under the same id; another
supervisor voids the same rows meanwhile. Assumed: session storage works. By design an answer
to a correction closes whatever draft is then open for the same exception, and a review
replaces a newer note of somebody else, with which it is shown. Left out: filters, roles that
may not review, rejections of added punches.

### EnrollPage

The operator picks a person, opens the camera, confirms the consent and captures; the photos
are submitted at once and checked, encoded and saved by the portal, while the role is revoked
and granted, others edit or remove the worker, the page is left, and answers are lost. Left
out: people entered by hand, names in use, clocks that disagree, quality of photos.

### FleetHealth

An instance of the portal reads the kiosks, puts warnings to what it reads and keeps the result
for half a minute. Reads overlap and come back in any order; a change made through this
instance empties what it keeps, others do not. The kiosks page issues and revokes credentials
whose answer may be lost. Readings are ordered by the start of their request, as in the code,
and not by what they hold. Left out: registering a kiosk, and the limits of the lists (100
kiosks in the public answer, 1000 in the portal's).

## 3. Runs

`PROJECT.json` lists the properties of each run. A violation run checks one property that a
comment of the code claims and that the code does not keep.

| run | distinct states | shows |
|---|---|---|
| `roster_receipts` | 1.7 million | A purge shown as complete is gone from database and recognizer; a kiosk that acknowledged the newest sequence holds exactly the current roster |
| `progress` | 0.18 million | The loops that have to get somewhere: the upload implements the ledger, quarantines only what is refused and leaves nothing behind its cursors; a purge is certified, every new person announced and a visible dashboard of today once faults stop |
| `kiosk_fleet` | 4.5 million | The committed release is on disk with its environment and was seen healthy; no timestamp of an older kiosk skips a change; only the holder of a kiosk's key is admitted; a queue is never said to be empty by an overtaken report |
| `kiosk_device` | 2.0 million | Scans are attested and not repeated; the direction follows the person's last event and nobody leaves twice; each recognition attempt is in the portal once, the latest review is shown, and the Lab's counts are not short without saying so |
| `kiosk_disk` | 0.27 million | Photos follow rows, a receipt is stored only for erasures that last, every retired photo is erased in the end, and however an update ends, the launcher ends up running the committed release |
| `portal_records` | 1.7 million | An administrator remains; revoked sessions never act and are deleted; a change knows the password it replaces; guesses are bounded; a closeout is signed for blockers seen and not after it was rejected; photos are neither lost nor left; no two runs announce one event; told alerts stay on record; an event is voided once |
| `shift_reports` | 0.15 million | A review hides only what was seen and lasts while nothing relevant changes; one-tap corrections never destroy a possible shift; briefing, checklist and hours agree with the exceptions |
| `portal_pages` | 1.6 million | Newer readings stay; the dashboard is not clear without knowing it; nothing typed is lost; corrections meet the evidence shown; enrollment is as agreed |
| `kiosk_release_running` | 1279 | disagreement, see below |
| `photo_journal_flush` | 425 | disagreement, see below |
| `kiosk_alerts_folded` | 2561 | disagreement, see below |
| `exceptions_rollover` | 4947 | disagreement, see below |

The bounds, which are those of the `.cfg` files:

| part | bounds |
|---|---|
| roster (`roster_receipts`) | 2 workers, of which one row is there at the migration, 2 sequences, 2 receipt ids; in `progress` 1 worker, 1 sequence, 2 ids |
| upload | 2 scans, pages of 2 or of 1, 1 page a cycle, 2 requests, 1 late batch |
| legacy cursors | 2 requests, timestamps up to 5, clock up to 3, 3 sequences, remembered timestamps 0, 2 and 3 |
| identity | 2 kiosks, 2 names, 2 requests, 1 rotation, clock up to 2 |
| updates | 2 updates and 1 fault (`kiosk_fleet`), 1 and 1 (`kiosk_disk`), 1 and 0 (`kiosk_release_running`); interrupts and kills are not bounded |
| scans | 2 symmetric workers, 7 frames, 2 faults; freshness 2, wait 3, debounce 2, message 2 |
| clock direction | 1 person, 3 events, 2 local ids, 2 faces, 2 wall times |
| recognition | 3 decisions (one without a UUID), 1 reset of the card, 1 late request, 2 reviews; the Lab: 4 scans, windows of 2, 1 shown, 4 filters, 2 arrivals, 2 moves |
| photos | 1 portal and 1 local worker, 2 new photos, 2 faults (`photo_journal_flush`: 1 and 0) |
| accounts | 2 users, 1 changing client, 3 sessions, 2 passwords, 1 tick, batches of 1; the budget: 2 callers, 2 attempts, 2 ticks, 1 rotation |
| closeout | 2 symmetric supervisors, 1 blocker besides none, 2 actions, 2 copies |
| enrollment photos | 2 enrollers, 2 workers, 2 new photos besides the shared old one, 2 hours |
| alerts | people: 3 events (2 in `progress`), 2 runs of 2 claims, 2 failures; kiosks: 1 kiosk, 2 refusals, 1 death of a run (1 and 0 in `kiosk_alerts_folded`) |
| corrections | 2 punches, 5 requests, 1 change of evidence |
| shift | dates of 6 slots, shifts up to 4, punches at 4 places of three dates, clock at 3, 3 punches, 1 change, 1 review |
| dashboard | 1 (2 in `progress`) sentinel items, 1 midnight, 2 answered batches, 1 return to the tab, one signal slow and one that may fail |
| exceptions page | 2 days, 2 texts, 3 reads, 1 change of evidence, 2 requests; links that name their day (`exceptions_rollover`: one that does not) |
| log | 2 dates, 3 request ids, 3 dialogs, 2 copies, 1 visit, 1 void by another, 1 sign-out |
| enrollment screen | 1 worker and 1 recruit, 2 photos, consent for 1 of 2 ticks, 2 consents, 2 edits |
| fleet health | 2 dates, 1 kept entry for 1 tick, 2 commits, 3 reads, 1 refresh, 2 credential calls |

Why they are enough for the interesting cases:

* Two workers of the roster are one that is rewritten between pages and one that is not; two
  sequences are a write and the purge after it, or the migration and a purge; two receipt ids
  are one that is late and one that replaced it. For liveness one worker is enough, as nothing
  in it depends on another one.
* Two scans are a bad one and a good one in either order, so that bisection has to isolate it
  in a page of 2. With pages of one scan, and one page a cycle, a scan behind one of an unmapped
  worker is reached only through the persisted cursor, and one that was mapped later only
  through its rewinding: `EventuallySettled` fails if either is left out. Two requests are
  the least with which a page of two bad scans gets anywhere (64 for pages of 100 in the code).
* Two updates let the second find what an interrupted first one left, including a shared
  environment. Two kiosks and two names are two devices that claim one name or not; a device
  has the first name without loss of generality.
* Seven frames are a recognition, eyes closed, eyes open, a later confirmation and a second scan
  beyond the debounce time; the four times are shorter than the run and expire in either order.
* Two photos are a publication cut short and its repetition, or one that is replaced. Two faults
  are a failure and another one during its recovery.
* Three sessions of two users are an administrator, a session that is revoked, and one opened
  after the cutoff; batches of one make every revocation several transactions.
* Two supervisors, actions and copies are a request of which one copy is answered and the other
  late, beside a decision on newer blockers. Five correction requests are a void, its replay, its
  reversal, a second void and the replay of an older one.
* Three reads are two that come back in the wrong order and one after a change; two days are a
  draft's and the one after midnight. Guards in `MCPortalPages` exclude that all bounds of
  a page are exhausted in one behaviour.
* The four punch places are: a day before, so late that it may be an overnight shift, at the
  scheduled start, in the shift, and after the last time that can close it.

Counters that only name things are bounded by these constants or reused when nothing refers to
them any more. `CHECK_DEADLOCK FALSE` stands in every configuration whose histories are bounded
and end; `roster_receipts` and `kiosk_release_running` check deadlock. What a proof covers
(section 4) holds without the bounds.

### Fairness

* Roster and attendance: `sync.py` repeats its cycle for ever and the server answers what
  reaches it, so the kiosk's and the server's own steps are weakly fair; an acknowledgement
  times out, and a message nobody waits for does not stay on its way for ever. Faults are not
  assumed to stop: the properties are claimed for behaviours in which they do not recur for ever
  (`[]<><<Disturbed>>_vars \/ ...`).
* Release updates: systemd restarts the launcher, a command that runs ends, and the health gate
  has a deadline. Updates and faults are bounded by constants.
* Photos: whoever holds the lock goes on. `recover_photo_cleanup` is strongly fair: sync asks for
  the lock in each cycle, and the enrollment command does not hold it for ever, but takes it
  again and again.
* People alerts: time passes, the cron starts runs and a live run goes on. A run may still die at
  any place, within the bound of failures.
* Dashboard: a visible tab polls, an active batch is answered, and the time limit of 20 s settles
  a batch.

### Disagreements

* `kiosk_release_running`: the comment at `update.sh:27` says that the collector retains any
  release whose child could still be running. The launcher starts a trial before it writes the
  marker that protects it; an updater interrupted in between removes the code of the running
  trial. The committed release is not affected (`CommittedIsUsable`), and the launcher goes back
  to it (`Recovers`).
* `photo_journal_flush`: the comment at `sync.py:648` says that the journal is finished before a
  receipt is certified, as a missing file does not prove that its deletion was flushed. The
  directory is then read without the lock, and the enrollment command may have unlinked a local
  worker's photo and not yet flushed it. For the photos of rows that sync itself removes the
  promise holds (`ErasedBeforeReceipt`).
* `kiosk_alerts_folded`: a stale alert that escalates to offline is resolved because it is
  "folded into the offline alert" (`alerts.ts:171`), also when every channel refused that alert.
  The supervisors who were told of the silence are then never told of the return, although
  `docs/alerting.md:59` promises exactly one recovery notice. This is the project's only
  `code_bug`.
* `exceptions_rollover`: `useFactoryDateSelection.ts:6` says that a draft is never rolled to
  another day. A link to the page without a day lets it follow the current day again while a note
  is typed, and midnight drops the note. With links that name a day the property holds
  (`portal_pages`, and proved).

Met while modelling, and not counted as disagreements because no text of the repository says
otherwise, or the code means it:

* A worker who joined after the shift's start and was only seen to leave breaks the sum of
  `shiftCloseouts.ts:259`; a department that all left before the end is a critical action of a
  day that may be ready; invalid face data blocks a day without an action of its own.
* An entry more than 16 hours before the scheduled end still gets a one-tap exit at that end. A
  missing exit reviewed as in progress stays hidden after 16 hours.
* The dashboard's "ready" can rest on health kept from before, its text for "all clear" cannot be
  reached, and a closeout's mark as seen covers its first blocker and their number.
* On the enrollment screen, a person chosen while the camera opens and whose record then cannot
  be read leaves the camera on behind the error. The consent may be confirmed before the record
  was read; the enrollment then goes under the revision read after it (`EnrolledAsSeen` leaves
  such consents out).
* A `POST` for a credential that is served late, after a second one was issued, ends the second
  credential's validity without a word on the page.

## 4. Proofs

TLAPS checks the following for every value of the constants. The theorems are listed in
`PROJECT.json`; a module `X_proofs` is about `X`, the `MC` modules included, whose specification
is the composition that TLC runs. Only constants that the composition itself fixes (such as what
each signal of the dashboard may answer, or the kinds of schedule of `ShiftExceptions`) are fixed
there too.

| module | theorems |
|---|---|
| `RosterReceipts_proofs` | `TypeCorrect`, `PurgeCertificate`, `DeltasSkipNothing` |
| `AttendanceUpload_proofs` | `TypeCorrect`, `ScansBookedOnce`, `QuarantineIsJust`, `ScansRightlySettled`, `NoScanForgotten`, and the refinement `UploadImplementsLedger` |
| `MCKioskFleet_proofs` | `CommittedStaysUsable`, `NothingIsSkippedInFleet`, `AdmittedAreOwners`, `QueuesAreHonest` |
| `PhotoJournal_proofs` | `TypeCorrect`, `PhotosAreKept`, `NoPhotoIsOrphaned`, `PhotosFollowTheirRows`, `ReceiptsCertifyErasure` |
| `MCKioskDevice_proofs` | `ScansAlwaysJust`, `DirectionsAlwaysFollow`, `EvidenceIsOnce`, `ReviewsAreAlwaysShown` |
| `MCPortalRecords_proofs` | `AdminAlwaysRemains`, `RevocationAlwaysHolds`, `ChangesKnowCurrent`, `AttemptsStayBounded`, `RejectedStaysUnapplied`, `SignedIsVouched`, `VoidsAreDoneOnce`, `PhotosStayAccountedFor`, `ClaimsAreExclusive`, `ToldStaysRecorded` |
| `MCPortalPages_proofs` | `ReadingsAlwaysMoveOn`, `NothingStaysHidden`, `TypedStaysKept`, `CorrectionsApplyAsMeant`, `EnrollmentsAsAgreed` |
| `ShiftReports_proofs` | `HiddenIsAsSeen`, `SettledAlwaysStays`, `SuggestionsAreAlwaysSafe`, `BriefingAlwaysAgrees`, `HoursAlwaysAgree` |

Each rests on an inductive invariant, as the properties alone are silent about what is on its way:

* **Roster.** `Safe` says what a receipt stands for at each place it may be. While it is pending,
  every purge up to its sequence is gone from the database, or a row of the response in hand is
  still going to remove it (`Covered`); a template in that response is newer than its worker's
  purge, or the purge is newer than anything an acknowledgement could cover (`RowIsFresh`); an
  acknowledgement may only leave once the recognizer is clean as well (`AckInv`). `Faithful` adds
  what a delta must not skip: rows are in the order of their sequences (`OrderInv`), the kiosk
  holds every row up to what it has acknowledged unless the worker was written later (`HeldInv`,
  `StoredInv`), and of the response in hand each row is true or about a worker written after all
  that the response certifies (`HandInv`).
* **Upload.** The books (`BooksInv`), the batches in hand, which are recorded, not quarantined and
  of one claim (`BatchInv`), what an unhandled answer says of its batch (`AnswerInv`) and what may
  still be booked late (`LateInv`). With it every step is a step of the ledger or a stutter.
* **Legacy cursors.** Which timestamps are remembered and of what (`CursorsOK`, `LatestToken`),
  that what the device asks with was issued (`AskedOK`), and that what it waits for will make it
  complete (`AwaitedOK`, `CompleteOK`). The answer it waits for was read after the timestamp was
  issued; that is why a change between the two is repeated and not lost.
* **Releases.** Where the updater is in its script or its trap (`ScriptInv`), what is true of the
  candidate between staging and commit (`CandidateInv`), whose application the marker names
  (`LaunchInv`), and that nothing doomed is the committed release's, flushed or not
  (`RemovalInv`).
* **Identity.** A row has the name and the key last given to its device (`Keys`), only registered
  kiosks are heard (`Registered`), and a queue count is of the newest report or unknown
  (`Observed`).
* **Photos.** What an operation will retire is journaled before its row changes (`PublishInv`,
  `RemoveInv`), names are new (`NamesInv`), everything on disk is accounted for (`TracesInv`), and
  a drain that did not fail has erased what was revoked, except for what it has still to look at
  (`DrainInv`).
* **Accounts.** Sessions are in the order of their creation (`SessionsInOrder`), those of an
  earlier era lie behind their member's cutoff (`BehindCutoff`), and what lies behind it is in a
  scheduled cleanup or gone.
* **The portal's records.** For the budget: wrong guesses made, reserved and left are together
  within the budget (`WithinBudget`). For the closeout: a rejected action did nothing and no copy
  of it is left that could (`RejectedIsOver`), and an acknowledgement that counts or may yet count
  is vouched for (`VouchedFor`, with `SeenRevisions`). For photos, people and kiosk alerts: who
  holds what between two transactions (`Unregistered`, `InHand` and `Leased`, `SentInOrder` and
  `ToldIsKept`). For corrections: what took effect is on record under its request (`OnRecord`).
* **The portal's pages.** `HomeInv`: the page holds readings older than those of a batch under
  way, and what is seen was read. `ExceptionsInv`: a correction names the evidence of the draft
  (`Sourced`), reads are told apart by number (`ShownOK`), a typed note holds its day (`NoteInv`).
  `LogInv`: the one request whose outcome is unknown is the one that page and storage are locked
  on (`LockedOn`), and a dialog repeats only that one (`DialogOK`). `EnrollInv`: consent, photos
  and identity on the screen go together (`OnScreen`) and a request carries them (`Requested`).
  `FleetInv`: an entry is not older than what was refused for it (`CacheInv`), and what the page
  shows has every change it was told of (`PageInv`).
* **The kiosk.** `ScanInv`: a frame in hand is the latest one and of the camera's present run
  (`InTime`), and the blink of a verification under way, or of the scan being written, is of one
  worker who was not clocked lately (`BlinkOK`, `WriteOK`). `HistoryInv`: the last event of a
  person is found under whichever local id the roster has given them (`EventsOK`, `LatestOK`).
  `AttemptsInv`: what each release calls an attempt while it is on the card (`CardOK`), that a
  row's name belongs to its evidence and no evidence has two rows, which every prefix of a batch
  keeps (`TableOK`), and what the last review of either screen leaves to be shown (`ReviewsOK`).
  `LabInv`: what a list holds back is said to be held back (`LabList`).
* **Shift reports.** The steps are easy and the functions are not. `ReportsInv` says that the
  punches are one per time (`PunchesOK`) and that a page and each review were made of some
  punches and some assignment of then, or of one scan of a removed worker (`PageOK`,
  `ReviewOK`). Fingerprints of two sets of punches are equal only if the sets are, so a review
  that still counts was made of what is there now (`HiddenIsAsSeen`, `SettledAlwaysStays`).
  `SuggestionsAreAlwaysSafe` compares the pairs before and after a correction: an exit or an
  entry that is voided was in no possible shift, or another closes or opens it (`VoidedExit`,
  `VoidedEntry`). `HoursAlwaysAgree` needs no induction over the punches: the open entry of the
  export's loop at a punch is a function of the punches before it, and a finite set of them has
  a last one.

The proofs assume only what the modules state as `...Assumption`: bounds are natural numbers, sizes
of pages and batches are positive, sets of clients finite, portal and local workers differ, a
schedule ends on its date, and punches are of three consecutive dates. `TypedStaysKept` assumes in
addition that links to the exceptions page name their day, without which it is false. TLC
evaluates the assumptions in every run.

Every property of a passing run is proved but these, which are only model-checked: the liveness
properties `EventuallySettled`, `PurgeEventuallyCertified`, `EveryoneAnnounced`,
`EventuallyToday`, `EventuallyErased` and `Recovers`. They need fairness and `ENABLED`, which the
provers do not have.

## 5. Not modelled, and what is next

| component | why |
|---|---|
| Local history migration | background backfill of times and indexes beside live writes; the next module |
| Kiosk clock and time sync | a comparison with the portal's clock |
| Recognition, matching and model recovery | arithmetic on vectors; `ScanPipeline` has its outcomes |
| Kiosk screen and local controls | an HTTP front to the database functions; the release of rejected rows is in `AttendanceUpload` |
| Enrollment at the kiosk | capture and thresholds; its photos are in `PhotoJournal` |
| Kiosk installation | configuration and shell without state |
| Face service | encodes one image per request |

All other components are modelled in part; `PROJECT.json` says what each leaves out. The next module
is the migration of local history: the times and indexes that a background thread fills in while
scans are written and uploaded.

Taken for granted are SQLite's commits, Convex's serializable mutations, systemd's restarts, and
the file system, each by what the code relies on.

## Running

    tlc -workers 2 -config MCRosterReceipts.cfg MCRosterReceipts.tla
    tlapm MCKioskFleet_proofs.tla

A configuration whose module has no `MC` module belongs to the module itself
(`MCKioskReleaseRunning.cfg` to `KioskRelease`, `MCPhotoJournalFlush.cfg` to `PhotoJournal`,
`MCKioskAlertsFolded.cfg` to `KioskAlerts`, `MCShiftReports.cfg` to `ShiftReports`,
`MCExceptionsRollover.cfg` to `ExceptionsPage`); `PROJECT.json` lists the pairs. The largest run is
`kiosk_fleet`, with 4.5 million states in less than three minutes, and the longest proof
`MCPortalPages_proofs`, with 3724 obligations in five minutes.

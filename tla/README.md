# Verification of Unstoppable Archive

Unstoppable Archive accepts URLs, captures them with an escalating ladder of
tiers (browsers first, other archives' copies after them, a public archive's
submission form last) and keeps the snapshots. A web process (FastAPI) and one
or more worker processes share a PostgreSQL database and an artifact volume.
This directory models the parts whose correctness depends on order, failure and
concurrency, checks them with TLC on small instances, and proves the main
invariants with TLAPS for every instance.

All code paths below are under `src/archiver/` of the repository.

## Inventory

| component | code | state | operations | interacts with |
|---|---|---|---|---|
| Capture queue and worker | `worker.py`, `repository.py` (JobRepository, ArchiveRepository), `enums.py` | tables `archives`, `jobs`; per worker `_running`, `_capture_tasks` | claim, process, retry, escalate, fail, complete, reclaim, start, drain | everything below, through the database |
| Capture of a page | `capture.py`, `singlefile.py`, `warc_writer.py` | one context, its page, the WARC in memory, a temporary file, a CLI process | navigate, await a challenge, take the snapshot, write the WARC, close, save | browser pool, detectors, artifact store |
| Block-page detection, consent | `detection.py`, `consent.py`, `captcha.py` | none | predicates on a page | capture of a page |
| Fallback tiers | `fallback.py`, `memento.py`, `commoncrawl.py`, `privacy_frontends.py`, `http_client.py`, their handlers in `worker.py` | the list of crawls (cached) | fetch with retries and redirects, look copies up, choose one, fetch it | worker, proxies, frontends |
| Capture pool | `browser_pool.py`, `ProxyRotator` of `proxy.py`, the pool made in `worker.py` | cached browsers, the rotator's cycle and failures, five connections | get_browser, disconnect, close; next, mark_failed; acquire, release | every capture of a worker |
| Proxy pool and gate probes | `proxy.py`, `_gate_probe_loop`, `_frontend_probe_loop` of `worker.py`, `privacy_frontends.py`, `repository.py` | the loaded proxies; `proxy_status`, `frontend_status` | load, health check, probe, record, evict, discover, sleep | archive.today and frontend tiers |
| Submission API | `routes/archives.py`, `routes/pages.py`, `deps.py` | `archives`, `jobs` | create_archive, submit_form, recapture | queue, rate limiter |
| Rate limiter | `rate_limit.py` | timestamps per address, in memory | check | all posting routes |
| Moderation and reports | `routes/admin.py`, `routes/reports.py`, `auth.py` | `archives.removed_at`, `reports`, `audit_log` | report, resolve, dismiss, soft delete, restore, hard delete | queue rows (FK cascade), artifact directory |
| Artifact store | `capture.py` (save_artifacts) | directories on disk | save, delete, serve | worker, moderation |
| Start-up and migrations | `db.py`, `migrate.py`, `app.py`, `worker.py` | `schema_migrations` | connect, init, read, apply | all |
| Caches | `user_agents.py`, `cookie_cache.py`, `blocklist.py`, DomainObservations | lists, rows | refresh, read, record_outcome | captures |
| Pages, configuration, metrics | `routes/pages.py`, `routes/health.py`, `config.py`, ... | none | read, render | - |

**What is hard here.** Each SQL statement commits by itself (no explicit
transaction except in `migrate.py`), so every two-statement operation can be cut
in half by a crash, a lost connection, another place of the same worker, another
worker, or a moderator. The queue has leases (`locked_at`) that are never
renewed. One worker runs several captures and four background loops on one event
loop, over one pool of five connections and one browser of a kind, and a timer
may cut a capture at any await. Retries are new rows, and three different limits
(attempts per tier, jobs per archive, length of the ladder) decide when an
archive is given up. A page may change between the look that judged it and the
strategy that stores it; other archives answer in any order, late, or never.

**What makes each component correct.**

- Queue: an archive has at most one live job, the newest; no job is captured
  twice at once; tiers are climbed in order within their limits; an archive that
  has not settled has somebody to settle it; a saved snapshot stays; a failed
  archive is quiet; every submission settles.
- Page: no block that shows when the page is read is stored as the page; nothing
  is left behind; memory is capped; the capture ends.
- Fallback tiers: requests are bounded and every hop is checked; the newest copy
  wins; nothing is left running; tiers end.
- Capture pool: at most one browser of a kind, and no live one that the pool has
  lost sight of; proxies take turns; captures never wait for each other in a
  circle.
- Probe loops: dead proxies leave the pool, the pool refills, frontends are
  verified again, the loops stop.
- Submission and limiter: one recapture per interval and URL; never more than
  the limit in a window of one web process; a client that waits as told is
  admitted.
- Moderation: a resolved report has had its effect and its audit entry; the rows
  go through no transition that `ArchiveLifecycle` does not promise.
- Artifact store: a complete row points at files that exist.
- Start-up: migrations are applied once, in order, before anybody serves.

PROJECT.json lists the hazards behind these, each at its line.

## Modules

Eight components have a module of their own, and two have an abstract
specification over them. They compose by what they share: `CaptureQueue` and
`Moderation` are two views of the same rows and both implement
`ArchiveLifecycle`; `CaptureQueue`'s step `Capture` stands for the tier that
`PageCapture` or `Sources` details; `CapturePool` is what the captures of one
worker hold while they run; `ProbeLoops` feeds the proxies and frontends;
`WebServer` writes the rows that the queue finds.

| module | models | extends |
|---|---|---|
| `ArchiveLifecycle` | the abstract specification: what the archiver promises about one row | |
| `CaptureQueue` | queue and workers, statement by statement; `LifecycleSpec` is the refinement | |
| `Moderation` | reports, takedowns, restores, hard deletes, audit log, artifact directories | |
| `HttpFetch` | `http_client.fetch`: retries, redirects, safety checks | |
| `Sources` | the fallback tiers | `HttpFetch` |
| `PageCapture` | one browser capture, its response hooks and its timer | |
| `CapturePool` | browsers, proxies and connections of one worker | |
| `ProbeLoops` | the gate and frontend loops with their tables | |
| `WebServer` | limiter and submitting routes | |
| `Startup` | two processes migrating one database | |
| `*MC` | symmetry and constants for TLC | their component |
| `*Proofs` | lemmas and theorems | their component and TLAPS |
| `NumberLemmas` | two facts about least numbers | |

Definitions that begin with "Mutant:" in their comment are what the code would
be with a plausible bug; they are in no specification. PROJECT.json names the
property each of them breaks.

### How CaptureQueue corresponds to the code

`archive` is the column `archives.status` ("absent" before the INSERT, "deleted"
after a hard delete), `removed` the archives with `removed_at`. `jobs` is the
whole history of the table, in order of `created_at`, a deleted row keeping its
index; `overdue` says that `locked_at` is older than the reclaim threshold (an
event rather than a clock: `LockAges`). `submitting` holds the requests between
the two INSERTs of `create_archive`. `worker` is the state of each process, and
`lane` is the capture each of its `max_concurrent_captures` places runs: a
program counter named for the next statement, and the job.

Every SQL statement of `_process_job_inner`, `_handle_antibot`,
`_handle_capture_error` and `JobRepository.fail` is one action (`Fetch`, `Mark`,
`Save`, `Settle`, `CountAttempts`, `Retry`, `CountTotal`, `Requeue`, `Abandon`,
`GiveUp`, `Escalate`, ...), so another actor can come between any two. Updates
of a row that is gone do nothing, and an INSERT for an archive that is gone is
refused by the foreign key. `Capture` stands for the tier handler and
`save_artifacts`, with the three outcomes the code tells apart. `LaneStep` is
what a capture does when nothing fails around it; the faults are actions of
their own, switched on by the constant `Events`:

- `StatementError` - a statement of the try block fails and the connection
  survives: `except Exception` hands it to `_handle_capture_error`.
- `Disconnect` - the connection goes, or a statement inside a handler fails: the
  task ends where it stands.
- `Crash` - the process dies; also a drain that outlives its bound, since
  `wait_for` then cancels the captures.
- `SubmitDies` - the web process dies between its INSERTs.
- `SoftDelete`, `Restore`, `HardDelete` - moderation.
- `Unsafe` - the URL check at capture time rejects.
- `LockAges` of a held job (`"slow"`) - a live capture outlasts the threshold.

`record_outcome` writes a table that nothing here reads: its place is the step
`Observe` (success) and the gap between `GiveUp` and `Escalate` (failure), where
its failure is a `StatementError` and a `Disconnect`. `_handle_antibot` and the
exhausted branch of `_handle_capture_error` issue the same statements and share
`GiveUp` and `Escalate`; what differs is whether `CountAttempts` comes first.

### How Moderation corresponds to the code

`archive` and `removed` are as above; `folder` is `archives.artifact_dir` (0 for
NULL) and `disk` the directory of each save, unused, partial, full or gone.
`capture` is what the queue shows of a capture: it has read the row (`Begin`),
is writing files (`StartSave`, `FinishSave`), and updates the row (`Commit`), or
ends anywhere before that (`StopCapture`: an error, a timeout, a crash). At most
one capture of an archive runs at a time, which is what `ClaimsAreExclusive`
proves of the queue. `Begin` may happen again whenever the row is visible and
unsettled, whether or not a job is left for it: more than the queue allows,
never less.

`reports` is the table `reports`, one row per archive and address (migration 002
makes that pair unique). `reporting` holds the requests of `submit_report`
between their check and their INSERT. `audit` is the table `audit_log` as a set
of actions and archives; its foreign key refuses an entry about a deleted
archive, and a delete sets the column of older entries to NULL. The entry of a
hard delete keeps the id in `details`, so that delete does not touch it.

`request` is each moderation request in flight: the statement it will issue
next, and what it read before (the report's archive and address, the directory
to remove). `resolve_report` is `OpenVerdict`, then `Dismiss` and one entry, or
`TakeDown`, `Settle` and two; `Remove` and `Restore` update at once and log
after; the two delete handlers are `OpenDelete`, `Rmtree`, `DeleteRow`, and
`LogDeleted` for the console only. `get_db` opens no transaction, so any two
statements may have other requests and captures between them, and `Die` ends a
request anywhere; `cut` remembers the archive it was about, because what the
properties promise is not promised of a request that stopped halfway.

### How HttpFetch and Sources correspond to the code

`req[t]` is the local state of the `fetch()` that asyncio task `t` is in: its
attempts and redirects, whether the current URL has passed the check, and what
it resolves to. `Guard` is the check and its refusals, `TransportFails`,
`RetryStatus`, `Redirect` and `Answers` are the four branches of the loop.

`Sources` starts those fetches and reads their results. A source is what the
tier at work goes through: URL variants (Wayback), mirrors (archive.today),
crawls (Common Crawl), archives (Memento), instances (frontends). A copy is a
source with a date. The handler is task `Main`; parallel lookups are one task
for each source. `at` names the await the handler is in, `todo` the lookups not
yet read, `queue` the sources left, `held` what each source answered, `hits` the
copies left to try, `failed` those tried. Timemap and index parsers are their
results: the dates `held`. `Newer` is the sort key with its undated last, `Best`
the latest-of-a-timemap rule, `Cut` the candidate limits. `Timeout` is the
`wait_for` of the worker, `Surprised` and `GatherBreaks` an exception nobody
foresaw, and `StrayEnds` a lookup that such an exception left running. What a
render or a submission in the browser does is `PageCapture`'s: here it succeeds
or fails.

### How PageCapture corresponds to the code

`at` is the statement of `capture_page` (or `save_artifacts`) that comes next.
`page` is what the document shows now, and `PageMoves` may turn it into any
other kind between any two awaits: a challenge that solves itself, a wall or a
block that a script renders late, a document that navigates on. `page.title()`,
the text and the HTML are three awaits and three actions (`ReadTitle`,
`ReadText`, `ReadHtml`; `PeekTitle` and so on in the handler of a failed
navigation, `RereadTitle` and `RereadText` after a challenge). Each adds to
`reading` what that part gives away: `ByStatus`, `ByTitle`, `ByText` and
`ByHtml` say which kinds of page which detector knows from which part,
`LooksCleared` which the completion probe takes for solved. Every strategy
stores `page` as it is then, except the CLI, which fetches by itself
(`CliAnswers`). Nothing looks at the page between the last reading of its text
and the snapshot, so a page that turns into a block in between is stored; the
history variable `look` tells these snapshots ("stale") from those of a page
that is as it was read, and `NoBlockStored` speaks of the latter: that each of
the ways to a snapshot, through a failed navigation or a challenge waited for,
does read the page again. `hook` is where the response callback of each response
is: it has passed the check of the declared length, awaits the body, or is done.
`snapshot` is the result of the three SingleFile strategies, `cli` their
process, `file` the temporary WARC. `Cut` is the `wait_for` around it all; it
fires once. `BrowserDies` makes every later await on the page fail; any await
may also hang until `Cut`. `Close` is `close_context_bounded`, whose own bound
is `CloseGivesUp`.

### How CapturePool corresponds to the code

A slot is a place of `max_concurrent_captures`. `queue` is the asyncio lock of
the browser pool: its holder and those that wait, in order. `browser` are the
processes: `hooked` says that the "disconnected" handler is registered, `cut`
that the launch was cancelled under it. `cached` and `entered` are the pool's
references. `GetCached`, `StartLaunch`, `BrowserUp`, `Launched` are
`get_browser` with its awaits; `BrowserDies` runs the handler, which clears
whatever is cached. `cursor` and `failed` are the rotator; `NextProxy` is
`next()` with its reset. `held` is who uses which connection of the pool: one
for each capture from its SELECT to its last statement, one more for the tiers
that look a proxy or a frontend up ("remote"), one for a loop's query. `Cut`
unwinds the context managers of the step it hits and nothing else.

### How ProbeLoops corresponds to the code

`loaded` and `rotator` are `_init_proxy_rotator`; `gate` is `_gate_probe_loop`
with the pass it is in (`GateBegin` reads the oldest passers, `GateProbe`
probes, `GateRecord` writes the verdicts, `Choose` takes the head of the
candidates, `Evict`); `frontend` is `_frontend_probe_loop`, a pass of which goes
through the one proxy it began with, dead or not. `passing` and `failures` are
the table `proxy_status` as its readers see it, `verified` is `frontend_status`.
Time is not a number: `Age` and `AgeFrontend` take a row out of the 24 h window.
A live gate loop verifies 5 passers again at least every hour, so the oldest row
of a pool leaves the window during a live loop when more than `Kept` pass, or
when a probe hangs; a frontend's row may leave it at any time. Only the
navigation of a probe has a timeout, so any probe may hang for ever
(`GateHangs`, `FrontendHangs`) and take its loop with it. The drain waits ten
minutes and then cancels what is left (`DrainTimesOut`), a health check of a
long list included, which never looks at `_running`. `Flip` is the world: a
proxy comes or goes. `OtherProbe` and `OtherRecord` are another worker's probe
with its verdict recorded late. `GateError` and `FrontendError` are failing
queries: inside the try block they cost a pass, outside it they end the loop.

### How WebServer corresponds to the code

`window` is the deque of one client with, beside each timestamp, the endpoint
that was charged (the code does not keep it; only the properties read it), and
`admitted` is the history of all that was admitted since the process started,
which no trimming touches: `LimitHolds` counts there, in every stretch of the
window's length, so that what `check` forgets too early would show. A limit of 0
admits everything and leaves no entry. `Trimmed` is the loop that pops from the
front, `Admit` and `Refuse` the two returns. `rows` are the archives of one
`url_hash`; `request` is each submission with the statement it is at: `Safety`
and `Recent` are awaits, so captures, moderators and other submissions come in
between. `OtherEndpoint` charges the same window. `Crash` loses the requests and
empties the limiter, which is in memory only: a restarted web process may admit
as much again within one window, and `LimitHolds` is about one process.

### How Startup corresponds to the code

Each process connects (`Boot`), has read the applied versions (`ReadApplied`)
and applies what it found missing, file by file, each in a transaction with its
INSERT into `schema_migrations` (`Apply`). When the other process has applied
the file meanwhile, the INSERT (or the DDL) fails, the transaction rolls back,
the process ends and is started again. `Crash` ends one anywhere.

## What the checks show

| run | instance | shows |
|---|---|---|
| `faults` | 2 archives, 2 workers of 1 place, 2 tiers of 1 attempt, budget 2; crash, shutdown, lost connection, unsafe URL, moderation, death of the web process | `OnlyNewestActive`, `NoDoubleClaim`, `FailedIsQuiet`, the refinement `LifecycleSpec` |
| `settles` | 2 archives, 1 place, 3 tiers of 2 attempts, budget 3; failing statements, shutdowns, slow captures, unsafe URLs; fairness | `LadderOrder`, `BudgetBounded`, `NobodyStranded`, `RunningIsHeld`, `EverySubmissionSettles` |
| `moderation` | 1 archive, 1 reporter, 2 requests, 2 saves | `CompleteHasFiles`, `ResolvedTookEffect`, `RemovalsLogged`, `LifecycleSpec` |
| `tiers` | every fallback tier, 3 sources, dates 0 to 3, 3 attempts, 1 redirect, limits of 2 and 3 | `RequestsBounded`, `EveryHopChecked`, `NewestCopyKept`, `NewestSourceFirst`, `NoStrayLookup`, `TierEnds` |
| `page` | all kinds of page, each of which may turn into any other, 2 responses, a cap of one body | `NoBlockStored`, `CleanUnlessCut`, `WarcCapHolds`, `CaptureEnds` |
| `pool` | 2 captures of Camoufox tiers, 3 connections, 2 browsers, 2 proxies | `OneBrowser`, `NoBrowserLost`, `NoCircularWait`, `ProxiesTakeTurns`, `CapturesEnd` |
| `probes` | 2 proxies, one of a datacenter, a threshold of 2, a frontend of the static list and one of the registry, pools of more than 1 may age, 1 fault | `DeadProxyDropped`, `PoolRefills`, `FrontendsReverified`, `LoopsStop` |
| `startup` | web and worker, 3 migrations, 2 crashes | `MigratedOnce`, `AllStart` |
| `web` | 2 requests, limits 2, 1 and none, 2 rows, 2 ticks, 1 crash | `LimitHolds`, `RetryAfterEnough`, `DuplicateOnlyByRace` |
| `complete_lost` | 1 archive, failing statements | `CompleteIsFinal` fails |
| `hold_page` | pages that are content or a reloading 503 | `SolvedBeforeStored` fails |
| `hung_proxy` | 1 capture | `FailedProxyMarked` fails |

`faults` and `settles` each ask several questions of the queue, because those
questions share an instance: what must hold whatever happens, and what is
promised when workers only stop gracefully.

**Bounds.** No state constraint cuts a behaviour. The constants of a `.cfg` are
of three sorts.

- The code's own numbers, made small: `MaxAttempts`, `MaxTotalJobs`, `NumTiers`
  (`settles`: 3 tiers of 2 attempts against a budget of 3, so the budget binds,
  as 15 does for nine tiers of three), `Parallel` and `RecentCrawls` (2 of 3
  sources: something is left out by each), `PerArchive` and `MaxCandidates` (2
  and 3 for the code's 3 and 4: as there, an archive alone cannot fill the list,
  and with four dates it may hold a copy that is left out although an older one
  of another archive is tried), `MaxAttempts` of a fetch (3, the least for which
  its backoffs differ), `Threshold` (2: one failure does not evict), `MaxTotal`
  (one body with two responses: the second is over the cap), `Limit` (2, 1 and
  0: two endpoints of different limits share a window, and one has none), `Kept`
  (1 for the 120 passers that 5 verifications an hour reach within 24 hours).
- Sizes: two of a kind where the hazard is between two (archives, workers,
  places of the queue, captures, requests, processes, proxies), one where each
  property speaks of one and no action reads another (the archive of
  `Moderation`: `ModerationProofs` covers any number). Three sources give a
  newest, an oldest and one in between. The engines are kept by the same kind of
  code and share only the lock, so `pool` has tiers of one, Camoufox, which has
  the context manager more than Chromium, and two browser processes, of which
  one may be a leftover. It has fewer captures than connections, as the defaults
  do (2 and 4, the listener aside): `NoCircularWait` needs that, and nothing
  enforces it; `CapturesEnd` was checked with as many captures as connections
  too, and holds there because the timer cuts the circle.
- Bounds of the model, which the code does not have: `MaxCrashes`, `MaxFaults`
  (one failed query, hung probe, shutdown or late verdict at any point of a
  pass; with two, each of the four properties was checked by itself and holds),
  `MaxTime` and `MaxRows` of `WebServer` (a window, its end, and a tick after
  it; a row to be found and one to be made), `MaxSaves` (a failed save and its
  retry), `MaxBrowsers`. Where one of them binds, the step it bounds is not
  taken; no liveness property of those runs needs that step.

Symmetry is used on archives, workers and places in `faults`, on archives and
requests in `moderation`, and on requests in `web`: no action and no property
tells them apart, and the one PROPERTY of these runs is checked step by step.
Runs with fairness use none. `CHECK_DEADLOCK FALSE` stands where the system may
really have nothing left to do: everything has settled, every tier has ended,
both processes are up, the bound of time is reached.

**Fairness.**

- Queue (`FairSpec`): the loop polls every few seconds and never waits for a
  capture (`Claim`, strong: a place is free again and again, and the poll finds
  a queued job when it is); statements return and `wait_for` bounds a capture
  (`LaneStep`); Compose restarts a worker that exits (`Start`); a request runs
  to its end (`SubmitJob`); time passes (`LockAges`). No fairness for faults,
  moderation or `Shutdown`.
- Sources: every coroutine that can run is run, and every request has a timeout
  of its own. The outer timer is not relied on: `TierEnds` holds without it.
- PageCapture: only the timer (`Cut`), the bounded close, and the two steps that
  end by themselves because they await nothing of the browser.
- CapturePool: the timer fires, and the connection pool serves its waiters in
  turn (`TakeConnection`, strong: asyncpg hands a released connection to the
  waiter that came first). A page or a launch that hangs is given no fairness.
- ProbeLoops: the event loop runs each loop, a probe that does not hang ends,
  and time passes. That no probe hangs is not assumed: `GateHangs` and
  `FrontendHangs` may take a loop at any of its probes, and `PoolRefills`,
  `FrontendsReverified` and `LoopsStop` name the loops they need alive as a
  premise, while `DeadProxyDropped` needs none. Nothing is assumed of the
  proxies, nor of the drain's timeout: `LoopsStop` says that no loop goes on for
  ever, not that it ends within the drain.
- Startup: each program is straight-line code; its container restarts it.

## What is proved

The modules below hold machine-checked proofs, for every value of the constants
that satisfies the ASSUME of the module (numbers of archives, workers, tiers,
limits, captures, proxies, ...).

`CaptureQueueProofs`:

- `TypeCorrect` - with no assumption on the faults.
- `SafeAlways` - the inductive invariant `Safe`. `OnlyNewestActive` and
  `NoDoubleClaim` are not inductive: a claim keeps exclusivity only because a
  queued job is in no lane (`QueuedFree`), a reclaim only because an overdue one
  is in none (`OverdueFree`) or in one of a worker that is down (`DownIsIdle`),
  a retry only because the row it marks is no longer live when the new one is
  inserted (`HandlersSettled`), and an archive being submitted has no rows yet
  (`RowsHaveArchives`). The assumption, `LocksTrusted`, is that no live capture
  outlasts the reclaim threshold or that there is one worker, as Compose deploys
  it: with two, the one that starts takes over what the other is still capturing
  (Known divergences).
- `ClaimsAreExclusive`, `NewestIsTheOnlyActive` - the two consequences.
- `FailureIsQuiet` - `FailedIsQuiet`, strengthened with `SubmittingPending` (an
  archive still being submitted is pending or deleted).
- `QueueImplementsLifecycle`, `SavedIsFinal` - every step of the queue is a step
  of `ArchiveLifecycle` or a stutter. The strengthening `LaneKnows` says what
  status an archive has while a lane is at each statement: it is what makes the
  code's unguarded updates right. It fails when a statement can fail after
  `Save`, hence the assumption `"dberror" \notin Events`; run `complete_lost`
  shows that it is needed.
- `RunningJobsAreHeld` - `RunningIsHeld` for any number of workers and slow
  captures. A handler leaves a row only after it has settled it
  (`HandlersDone`), and a drained worker only after its captures. It assumes
  that no worker crashes and no connection drops: both leave a running row to
  the next reclaim.
- `NobodyIsStranded` - `NobodyStranded`, where statements fail, captures outlast
  their locks and workers are drained. Its invariant `CaredFor` says who is
  responsible: the submitting request, a lane before the statement that settles
  or enqueues, or a job that waits (`Cared`); and that without a moderator
  nothing is deleted (`Unmoderated`). `NobodyStranded` alone is not inductive,
  because a lane that holds the job may be past that statement. The four events
  it excludes are those that do strand an archive: the death of a worker or its
  connection between `fail` and `enqueue`, of the web process between its
  INSERTs, and a soft delete under a capture, later undone.
- `LadderIsClimbed`, `BudgetIsBounded` - `LadderOrder` and `BudgetBounded` under
  `LocksTrusted`, with every other fault. Both count rows over the history of an
  archive. The invariant `Climbing` says per archive that its rows climb in the
  order they were made, at most `MaxAttempts` to a tier, and that past
  `MaxTotalJobs` every row more is at a tier more (`Ladder`), and per lane that
  what its handler has counted still holds until it acts on it (`Room`): nobody
  else adds a row between the two statements, since the archive has one active
  job (`Safe`) and no request is submitting it (`SubmittingEmpty`). The bound on
  the rows of the first tiers is a count by tiers (`RowsUpTo`), and the bound of
  the budget is `BudgetArithmetic`.

`ModerationProofs`:

- `TypeCorrect`.
- `RowsAndFilesAgree`, and `FilesStay` from it. `CompleteHasFiles` is not
  inductive: it needs that the directory a capture is about to name is full
  (`CommitHasFiles`), that a capture runs only on an archive being captured or
  deleted (`CaptureOwnsRow`), and that a delete which read a directory read it
  from a complete row, which no capture can change any more (`DeletesKnow`).
- `RowsAndLogAgree`, and `RemovalsAreLogged` and `ResolvedHasEffect` from it.
  The verdict of a report is two statements after its takedown: what survives in
  between is `SettleTookEffect`, and it survives because a restore is itself
  logged, a delete takes the report with it (`ReportsHaveRows`) and every
  request is about an archive that exists or existed (`KnownArchives`).
- `ModerationImplementsLifecycle` - every step is a step of `ArchiveLifecycle`
  or a stutter.

`SourcesProofs`: `FetchInv` says of each fetch that every request sent has used
up an attempt or a redirect, and that the one about to be sent goes where the
guard has looked; `SourcesInv` adds, for each await of the handler, which tasks
may be at work and which copies are known. From it: `FetchesAreBounded`,
`HopsAreChecked`, `LookupsAreAwaited` (in the phases with one lookup at a time
the other tasks are idle), and `NewestCrawlIsRead`, which needs that the crawl
chosen is the least of those that answered (`BestOfRecent`). `NewestCopyIsKept`
has the invariant `KeptInv`: a tier that has settled on one copy has seen none
newer (`Tops`), and while the memento tier probes, whatever could be newer than
a copy left to try is left to try or was tried, or its archive's full share is
(`Candidates`). It rests on what the sort and the two cuts do to any finite set
of copies: one is the best (`BestIs`), a cut keeps whatever is newer than what
it keeps (`CutKeepsNewer`), and it is full where there are enough (`CutIsFull`).
`SourcesTypes` needs that the handler never takes from an empty list
(`QueueInv`) and that what it reports it had found (`CopiesInv`).

`PageCaptureProofs`: the invariant `PageInv` follows the capture: once the page
has been judged, it is no block unless it changed after its text was last read
(`PageJudged`), and the same is true of what was taken from it
(`SnapshotJudged`), though title, text and HTML may each have been read of a
different page; at each statement it says who still has to remove the context,
the CLI process and the temporary file (`ContextOwned`, `CliOwned`,
`FileOwned`). From it: `PageTypes`, `BlocksAreNotStored`, `CapturesAreClean`,
and `CapHolds`, which rests on `add_exchange` checking again what the hook
checked before its await.

`CapturePoolProofs`: `PoolInv`. The lock's queue holds each capture in
`get_browser` once and only its head launches (`LockInv`); a launch works on a
browser of its own while none of its engine is cached (`LaunchInv`); a browser
with a handler is the one that is cached, any other is being launched or was cut
(`BrowserInv`). `BrowserIsShared` is the consequence: without the lock's order
two launches could end one after the other and both be cached. `BrowsersAreKept`
(`NoBrowserLost`) is the converse of what a disconnect handler could break,
since it clears whatever is cached and not the browser it was registered for: a
handler runs only for the browser that is cached, because a launch begins only
when none is. `LockIsNeverLeft` holds under timers and deaths at any await.
`SecondIsServed` (`NoCircularWait`) is a count: were every connection held by a
capture that waits for its second, there would be as many captures as
connections. That there are fewer is a hypothesis of the theorem, not an ASSUME:
the defaults satisfy it and nothing enforces it (Known divergences).
`TurnsAreKept` is an action property; it needs that a round of the cycle passes
every proxy (`AroundTheCycle`).

`WebServerProofs`: `WebInv`. The entries are in the order they were made, and as
many as the largest limit at most (`WindowInOrder`, `WindowIsShort`). The window
is the end of all that was admitted, and what is missing from it is too old to
count for any request to come (`WindowIsEnd`, `TrimmedIsEnd`): hence the guard
of `check`, which counts entries of the window, bounds what was admitted in
every stretch of that length (`LimitsHold`). `WaitIsEnough` follows from the
first two. `LookedBeforeInsert` says that what a submission saw when it looked
for a recent capture stays true while it waits, hence `DuplicatesAreRaces`; a
recapture does not look, so that only recaptures are in `find`
(`FindsAreRecaptures`) is part of the invariant.

`StartupProofs`: `MigratedOnce` is not inductive; what a process still has to
apply is every migration from some version on, with none missing before it
(`PendingIsTail`): it read a prefix of the ledger. `StartupSafe` is that
invariant, `StartupTypes` and `MigrationsApplyOnce` follow.

`NumberLemmas` has the two facts about least numbers that these cite. They stand
in for induction, which needs an operator as a parameter: a bound that should
hold for every number is refuted at the least number it fails for (`RowsUpTo`,
`CutIsFull`, `AscendingIs`).

Every safety invariant and every action property that a passing run checks is
proved, under the assumptions named above. Only model-checked: the liveness
properties (`EverySubmissionSettles`, `TierEnds`, `CaptureEnds`, `CapturesEnd`,
`AllStart` and the four of `ProbeLoops`: fairness and ENABLED are out of the
prover's reach), and `OnlyNewestActive`, `NoDoubleClaim` and their like where
`LocksTrusted` does not hold, or `CompleteIsFinal` where statements fail, which
are false there. No module declares a recursive operator.

## Known divergences

What the code does otherwise than a comment, a document or a reader would
expect. Three have a run that fails (`complete_lost`, `hold_page`, `hung_proxy`,
quoted in PROJECT.json); the others are in the models as the code has them, and
the properties are stated so as not to promise the contrary.

Queue:

- The budget of fifteen jobs (`repository.py:615`) was sized for five tiers:
  with nine tiers of three attempts an archive fails before the later tiers of
  the README's ladder were tried.
- Locks are reclaimed only when a worker starts (`worker.py:255`), though
  `specs/worker.md:47` reads as if it went on; a job orphaned by a lost
  connection waits for a restart.
- The reclaim threshold is no longer than a capture may take and a lock is never
  renewed, so a starting worker can take over a job that another one is still
  capturing (`repository.py:650`, against `specs/worker.md:50`).
- A statement that fails after the archive was marked complete lets the error
  handler mark it failed (`worker.py:507`; run `complete_lost`).
- A crash between `fail` and `enqueue`, a web process that dies between its two
  INSERTs, and a soft delete during a capture followed by a restore
  (`worker.py:369`) leave an archive unsettled with no job.
- Escalations are claimed before new submissions (`repository.py:184`), so an
  endless stream of them starves a job of the first tier.
- The submit tier, documented as running at most once per URL (`worker.py:935`),
  is retried like the others.
- `_on_notify` only logs: a notification does not shorten the poll. The darknet
  ladder of `enums.py` is never used; README and specs count the tiers
  differently.

Page capture:

- A reloading 503 under a title of its own is taken for solved at once and
  stored (`capture.py:453`; run `hold_page`).
- Nothing looks at the page again between the last reading of its text
  (`capture.py:433`, `capture.py:455`) and the snapshot: a login wall that a
  script renders in between, which `detection.py:47-60` is there to catch, is
  stored.
- A capture cut while it awaits the CLI leaves that process running
  (`singlefile.py:121`).
- Two saves of one archive within one second share a directory
  (`capture.py:887`).

Capture pool and probe loops:

- A capture cut by the timer does not mark its proxy (`worker.py:678`; run
  `hung_proxy`).
- A proxy is marked failed "for this worker's lifetime" (`worker.py:664`), but a
  round in which all have failed forgets them all (`proxy.py:59`).
- `max_concurrent_captures` is unbounded (`config.py:69`) while the worker's
  pool has five connections, one of them the listener's (`worker.py:201`): with
  four captures or more, all of them in tiers that need a second connection,
  each may hold one and wait for another (`worker.py:1266`) until its timer cuts
  it.
- Only the navigation of a probe has a timeout (`proxy.py:549-585`,
  `privacy_frontends.py:490-532`): one `content()` or `close()` that never
  returns ends its loop for good.
- The health check of a long list takes 15 minutes or more (`worker.py:214-216`)
  and never looks at `_running` (`worker.py:1220-1261`), while a drain waits ten
  (`worker.py:286`): a worker stopped meanwhile waits out its drain.
- A frontend pass goes through the one proxy it began with (`worker.py:1475`):
  when that dies, every frontend fails until the next pass.
- Candidates are always taken from the head of the list: while those keep
  failing, later ones are not tried (`worker.py:1409-1424`).
- A query that fails outside the try block ends a probe loop for good
  (`worker.py:1310`).
- `_ua_refresh_loop` waits 21.6 s rather than six hours (`worker.py:1169`).

Fallback tiers:

- `find_memento_candidates` promises the newest candidates overall
  (`memento.py:129`) but takes three of each archive first (`memento.py:173`):
  where an archive's three newest copies do not work, its fourth is passed over
  for an older one of another archive. `NewestCopyKept` promises no more.
- `worker.py:1146-1149` says that the metadata records "exactly where the bytes
  came from". When another mirror of archive.today served the snapshot, it names
  the one the snapshot was found at. No property is about provenance.

Web process and moderation:

- Endpoints of different limits share one window per address; the Retry-After of
  one with a smaller limit is too short when the others have filled the window
  (`rate_limit.py:46`): a client refused a login because of its submissions or
  reports waits as told and is refused again. `RetryAfterEnough` is about the
  largest limit only.
- A restart of the web process forgets every window.
- The page of an archive looked up by timestamp takes the closest, complete or
  not (`repository.py:334`), and `_pad_timestamp` accepts dates that do not
  exist (`routes/pages.py:585-600`).
- A second submission while the first is still pending is accepted
  (`routes/pages.py:316-322`): only complete captures count as recent, and
  `DuplicateOnlyByRace` says nothing of pending ones.
- A hard delete leaves the files of a capture that saves after it, since
  `artifact_dir` is the capture's last statement (`routes/admin.py:337`).
- A delete through the API writes no audit entry, one through the console does;
  a moderation request that dies halfway leaves a removal without its entry.

## What is not modelled

- Sign-in, sessions and the reload of the blocklist: single requests over a
  cookie or a file.
- User agents, the cookie cache and domain observations: caches that change
  which header a request carries. Nothing else branches on them.
- URL normalisation and the address checks (`url.py`, `url_safety.py`), the
  timemap, index and title parsers, the word lists of `detection.py`, the
  consent scripts, the captcha form: functions over strings. Their verdicts are
  choices of the models.
- The bytes of WARC and SingleFile documents, screenshots, thumbnails.
- Public pages, search, health, templates, configuration, logging, metrics: they
  read, or write what nothing reads.

# Formal models of MRAS-Ops

TLA+ modules, TLC configurations and TLAPS proofs for MRAS-Ops: the *projector* that folds the
append-only `events` journal into the God View summary tables and the status it reports, the *device
registry* that administrators and the projector share, the lists and the live feed that are read
while all this is written, and the *authoring* of ads. All paths below are relative to the
repository's root (`src/` in `PROJECT.json`); line numbers are those of this commit.

## 1. The system

Outside services (vision, selector, composer, player relay) insert rows into `events`. One worker
process reads them in id order and writes the summary tables from which the God View, the registry
pages and the status endpoint read. Everything is asyncpg on one PostgreSQL database at READ
COMMITTED; the only cross-process coordination is done by the database: transactions, savepoints,
row locks, unique keys and one advisory lock.

| component | state | operations | talks to |
|---|---|---|---|
| Projector worker (`api/src/projector/{worker,lock,cursor,fold,config,__main__}.py`) | the `_stop` event, `_holds_lock`, a dedicated lock connection, `projector_state.cursor` | start, `acquire_lock`, `drain`, `fold_once`, `fold_batch`, `_sleep`, stop, release | `events`, summary tables, Docker's restart policy |
| Handlers and derivations (`handlers.py`, `derivations.py`, `routing.py`, `events.py`) | eight keyed summary tables, the typed scope columns of `events` | one keyed upsert per event (per candidate for matches), back-stamp, derivation of `viewer_exposures` at a closing playback | called by `fold_batch` inside a savepoint |
| Scope resolver (`scope.py`) | a cache with a ttl, `unresolved_devices` | `resolve`, `_record_unresolved` | reads `cameras`, `displays`, `systems` |
| Registry writes (`api/src/registry/{devices,adopt,lifecycle,writes}.py`, `api/src/cameras.py`) | `cameras`, `displays`, `devices`; `camera_admin` and `registry_admin` rows of `events` | create, adopt, patch | deletes from `unresolved_devices` |
| Registry reads, paging (`registry/{reads,paging}.py`) | none; the client holds a cursor | eight keyset lists, clamped limits, cursors encoded and decoded | everything above |
| God View reads (`api/src/godview/`) | none; the client holds a cursor | three keyset lists, detail pages, dashboard, map | summary tables |
| Event stream (`GET /events/stream` in `api/src/main.py`) | `last_ts` and the fetched rows, per connection | send the last 20 rows, then poll `ts > last_ts` each second | `events`, the browser's EventSource |
| Feed UI (`frontend/src/App.tsx`) | the last 200 rows shown | prepend; reconnect | event stream |
| Projector status (`projector/status.py`) | none | backlog, lag, health level | `projector_state`, `events` |
| Authoring API (`main.py`) | `components`, `ads`; bundles in the overlay sidecar | upload (sidecar, then upsert), create, delete, list, preview | sidecar, composer |
| Authoring UI (`frontend/src/{Authoring.tsx,api.ts}`) | two lists, the preview popup | load once, patch by answers, preview | authoring API |
| Embedding purge (`scripts/purge_auto_embeddings.py`) | rows in PostgreSQL, vectors in Qdrant | count, delete, delete | both stores |
| Schema, seeds, compose | keys, NULL rules, restart policy | - | - |

### What is hard here

* *Ids are not commit order.* `events.id` is a bigserial: an emitter takes an id at its INSERT and
  commits whenever it likes. A reader that has passed id 7 does not see id 6 commit later.
* *Two locks with different lives.* The advisory lock lives with a connection, the cursor's row
  lock with a transaction; a process can lose the first and go on taking the second.
* *Death between steps.* A worker can die anywhere; the server notices its broken connections at
  once or much later.
* *Order of events.* Lanes of the pipeline write independently: a playback may be folded before the
  run it belongs to, gaze rows after the closing event they explain.
* *Replay.* The runbook `docs/projector-replay.md` rewinds the cursor by hand; every upsert has to
  be idempotent, and the registry may have moved between the two folds.
* *Savepoint against memory.* A failing event takes its database writes back, not what the
  process has cached.
* *Readers without a snapshot.* A client pages through rows that are bumped, renamed and deleted
  between its pages; a feed polls by a time that is not the order in which rows appear.
* *Answers out of order.* The page asks without waiting and patches its lists by whatever answer
  comes; an upload is two stores in sequence, and a request that was given up on may still be executed.
* *Administrators against the projector* on the same `unresolved_devices` row, and against each
  other on the same device row.

### What makes the components correct

* Projector: every committed event is folded exactly once and in id order; nothing behind the cursor
  can still appear; a batch is all or nothing; one folder at a time; it idles only when caught up; it
  takes over after a crash; a stopped worker frees its lock.
* Projection: rows are independent of how often their events were folded; a fold never forgets; an
  exposure is justified by a closed playback and by who was there; `watched` is measured, never
  assumed; a replay repairs missed links; under a registry at rest the tables are a function of a
  journal written in order.
* Registry: a write and its journal entry are one; retired is final; no sighting of an unknown device
  is lost; scopes are not stamped on stale answers; a device without scope is listed.
* Status: "done when backlog reaches 0" is done; "ok" bounds the wait of what is not yet folded.
* Lists: a walk shows every row that stayed in its place on exactly one page, and comes to an end.
* Feed: a connection misses only rows it cannot see in time; every row that commits in the order of
  `ts` is shown; nothing is shown twice but by a reconnection.
* Authoring: after an undisturbed upload the row and the bundle are of one source, or the row says that its build failed; the page shows what
  the tables hold, but for what it was told wrongly or not at all; the popup plays the ad it was opened for.

## 2. Modules

| module | models | kind |
|---|---|---|
| `EventFold` | what the projector promises: a journal, a cursor, an outcome per event | abstract specification |
| `Projector` | workers, locks, emitters, clock, faults, one batch at a time | detailed specification; implements `EventFold` |
| `Projector_proofs` | theorems about `Projector` | TLAPS |
| `Projection` | what a fold writes: handlers, back-stamp, derivation, rewind, registry drift | detailed specification of one fold |
| `Projection_proofs` | theorems about `Projection`: what one fold keeps | TLAPS |
| `Replay_proofs` | theorems about `Projection`: what a fold of the whole journal does, on those of `Projection_proofs` | TLAPS |
| `DeviceRegistry` | admin transactions, the resolver and its cache, savepoints | detailed specification |
| `DeviceRegistry_proofs` | theorems about `DeviceRegistry` | TLAPS |
| `ProjectorStatus` | the status endpoint, over the state of `Projector` | operators; extends `Projector` |
| `ProjectorStatus_proofs` | theorems about `ProjectorStatus`, on those of `Projector_proofs` | TLAPS |
| `EventStream` | emitters, the generator of a connection, the browser's feed | detailed specification |
| `EventStream_proofs` | theorems about `EventStream` | TLAPS |
| `KeysetPaging` | one client's walk through a list and the changes under it | detailed specification |
| `KeysetPaging_proofs` | theorems about `KeysetPaging` | TLAPS |
| `Authoring` | sidecar, tables, requests and answers, one page | detailed specification |
| `Authoring_proofs` | theorems about `Authoring` | TLAPS |
| `MC...` | vocabularies, kinds and symmetry sets for TLC | instances |

How they fit: `Projector` abstracts the writes of a fold to one outcome per event and shows in which
order and how often events are folded, with batches, crashes and two processes. `Projection` takes
that as given (one step folds the next event by id) and looks at what the folds write.
`DeviceRegistry` opens the batch again for the one thing in it that other transactions interfere
with: the scope of an event. `ProjectorStatus` reads the state of `Projector`, so its properties are checked
and proved against every interleaving of the two. `KeysetPaging` and `EventStream` are readers: what the
projector and the administrators do to their rows is an action of theirs (`FoldBatch`, `Rename`,
`Commit`), with the guards that the writers' models justify. `Authoring` shares no state with the rest. Definitions called `Op_Something` are plausible mistakes in `Op`, used
to see that a property notices them; no specification refers to them.

### 2.1 Projector

* `clock`, `nextId`, `status`, `born`, `ts`: the database's time and the journal. `Insert` takes the
  next id of the sequence with a `ts` that may precede (transaction begun early, client clock) or
  follow the INSERT; `Close` commits or aborts it, in any order. An emitter stays open for at most
  `MaxOpen` ticks: that is an assumption about the environment, broken on purpose in one run.
* `advisory`, `rowLock`, `cursor`, `outcome`, `folds`: PostgreSQL. A lock whose client is gone belongs
  to `Orphan` until `Reap`.
* `pc` and the per-worker variables: `run()`. `acquire`/`retry` is the loop at `worker.py:91-96`,
  `drain` the head of `drain()`, `begin`, `select`, `fold` the transaction of `fold_batch` (BEGIN, the
  row lock and cursor read, the loop over the page), `sleep` the poll, `exit` the `finally`.
* `FoldEvent` consumes one row with one of five outcomes: folded, no-op (no handler), resolve-miss,
  skipped, and *late*: the handler succeeded, something after it in the savepoint raised.
* Faults: `Crash` (both connections), `FailBatch` (an exception leaves `fold_batch`), `LoseLockConn`
  (only the lock connection), `RequestStop` (SIGTERM).
* Refinement: `Abstract == INSTANCE EventFold WITH log <- Committed`, cursor and outcome mapped to
  themselves. A commit of an emitter is an abstract `Append` *above the cursor*, the commit of a
  non-empty batch is an abstract `Fold`, all else stutters. `EventFold` allows no append behind
  the cursor: that is where a wrong settle window would show.

### 2.2 Projection

* `db` is one record of tables, each a function from its ON CONFLICT key to a row or `NoRow`:
  `tracks`, `obs`, `comps`, `runs`, `plays`, `expo`; `matches` and `decisions` are sets of keys;
  `stamp` is the back-stamped `events.system_id`. Columns stay when a join, a link or a measurement
  depends on them.
* `FoldEvent(d, i)` is a pure operator: scope, handler by kind, back-stamp, derivation at `ended` or
  `interrupted`. Each handler is a function of the old row and the event, with the COALESCE or
  GREATEST of its UPDATE clause. `ResolveMiss` leaves the tables as they were.
* `Refold(d)` folds the whole journal over `d`: the replay of the runbook done at once. `Rewind` is the
  manual UPDATE of the cursor, so partial replays mixed with new events are reachable too.
* `descending` fixes how random uuids sort where a query breaks ties with them.
* `Register` and `Retire` move the registry between folds.
* `Events` is what the handlers read of an event of each routed kind; `Databases` are the columns of the tables.
* Assumptions, checked on every run and used by the proofs: the emitters write what the handlers read
  (`AlphabetAssumption`); the events of one playback agree on its window and on its ad_run, those of one ad_run on
  its target (`AgreementAssumption`; a NULL says nothing). The second is a contract on the services outside
  this repository: no code here enforces it, and a playback whose window is moved by a later event keeps
  the exposures of the old one. A detection's attention snapshot is one value. Foreign keys that arrive inside payloads and the exceptions of the
  derivation (a rollback of the savepoint, which `Projector` has) are not repeated here.

### 2.3 DeviceRegistry

* One screen id is one potential device (`NoRow` or the status of its row). `journal` are the
  `registry_admin` and `camera_admin` rows, `unresolved` the `seen_count` of its row.
* A request of an administrator is a transaction: `Create` is one atomic step (nothing is locked
  that others wait for), `AdoptLock` and `PatchLock` are the SELECT ... FOR UPDATE, `AdoptCommit` and
  `PatchCommit` the writes, journal entry and COMMIT, `AdoptConflict` the unique violation (409),
  `Rollback` a request that dies. Refused transitions (409), unknown ids (404) and invalid bodies
  (422) change nothing and are guards.
* `batch` is the projector's transaction: the resolver's cache (new per batch, `worker.py:57`), the
  uncommitted bumps of `seen_count`, the scopes stamped so far. `FetchUnknown` and `RecordUnresolved`
  are two steps because an adoption may commit between the SELECT and the INSERT. `Raise` releases
  the savepoint: this event's bump goes, the cache entry stays. `Expire` is the ttl.
* Left out: the other configuration fields of a PATCH (they follow the same path as `status`, under the same lock, and
  the journal entry is then called `update`), `devices` identity rows, the screen-group check.

### 2.4 EventStream

* `status`, `ts`: the journal. `Emit` begins a transaction, which fixes `ts` (now, or up to `MaxLead`
  earlier); `Commit` makes the row visible, in any order. `late` remembers which rows became visible
  after one of the same or a later `ts`.
* `link`, `last`, `batch`: the generator of `main.py`. `Connect` is the first query, any page that
  `ORDER BY ts DESC LIMIT 20` may return when `ts` tie; `Yield` sends one row in the order of `ts`;
  `Poll` is the query of the loop. Between `Poll` and the last `Yield` of its rows anything may commit.
* `feed`, `shown`: the browser, which prepends and cuts. `Disconnect` drops the generator with
  whatever it had fetched, and EventSource opens a new one, which knows nothing of the old.

### 2.5 KeysetPaging

* One client walks one list; `list` picks which of six kinds. They differ in direction, in what may
  happen to their rows and in how the cursor is decoded. Each page is one SELECT, hence one step:
  `FetchPage` probes for `limit + 1` rows beyond the cursor (`Left`, `Pages`; for the audit trail three
  probes that are merged), returns the first `limit` and a cursor to the last of them.
* `Insert`, `FoldBatch`, `Rename`, `Match`, `Unmatch`, `Register` are what others commit between two pages; what
  they did before the first page is in `Init`, which is any content.
* `Refuse` is the status 500 of the God View's systems list for a cursor whose name has a bar in it: its
  decoder splits at the first bar, the registry's at the last.
* A page is made of result rows (`Results`), not of rows. In all lists but one they are the same: what the others join,
  they join on a primary key. The health list joins an event with the cameras and displays that carry
  its `device_id` (`godview/events.py:21-22`). That column is unique in neither table (`012_physical.sql:57,73`), and `POST /cameras`
  and `POST /displays` accept the id of a device that has a camera or display already (`devices.py:117-122`), so one event
  may be several result rows with one position. `copies` counts them, `Register` is the POST that adds some. A page may show
  such an event more than once (`repeated`), and its end may cut copies off, which no later page
  shows, since the cursor stands on the event. Copies only grow: no route takes a device from a camera.
* `steady` and `renamed` are history: rows nobody moved, rows somebody renamed. `SteadyRowsOnce` counts the pages
  that showed a row. For a health event it says on exactly one page; that it is there once is claimed only where no
  join repeats it.

### 2.6 ProjectorStatus

`Backlog`, `LastEventTs`, `LagSeconds` and `HealthLevel` are the expressions of the one SELECT of `status.py`
over `Committed`, `cursor`, `ts` and `clock`. The lag is that of the last folded event, not of the
first waiting one, which is what makes `OkBoundsTheWait` worth a proof.

### 2.7 Authoring

* A request, its execution and its answer are three steps: `AskCall`, `Execute`, `HearCreate` or
  `HearDelete`. `LoseCall` takes the request's answer, or its page; the request may still be executed.
  `Deletable` is what the foreign keys allow, but for the one from `composition_runs` to `components`, which
  could only turn an answer into an error. A refused ad is one entry, whatever the 422 was for.
* `Upload`, `StoreBundle`, `FailBuild`, `SaveComponent`, `FailUpload`: the sidecar builds, stores and normalises first, the
  upsert by slug follows. A request that ops-api gave up on after 120 s may be built later.
* The sidecar's 200 may carry the status "failed" (`api.ts:9`, `Authoring.tsx:408`): `FailBuild`. The
  upsert replaces status and source all the same (`main.py:72`), so an upload that nothing disturbed may leave a row whose
  source its bundle was not built from. `BundleMatchesRow` therefore speaks of rows that say "ready"; what it excludes is that the
  two disagree and the status hides it. Whether the sidecar keeps the old bundle of a slug whose build failed or drops it is not
  in this repository: both are allowed.
* `ReadList`, `ShowList`, `LoseList`: the page loads each list once and then patches it by answers;
  `OpenAnew` is a reload. `doubtful` is history: rows whose change the first list crossed, or whose
  answer was lost.
* `RenderAdPreview`, `SettlePreview`, `ClosePopup`: the preview popup, whose answers carry no ad.

## 3. Runs

| run | instance and properties | shows | distinct states |
|---|---|---|---|
| `projector_safety` | `MCProjector`: `TypeOK`, `NoEventJumped`, `ExactlyOnce`, `BatchOnCursor`, `NeverTwice`, `DrainedWhenDone`, `OkBoundsTheWait`, `IdlesOnlyWhenCaughtUp`, `FoldsEvents` | Two workers that may both be folding after a lost lock connection, a death or a failed batch, emitters that close within the settle window with client timestamps, and three events, no-ops among them, against pages of two: every event is folded exactly once and in order, the projector implements the abstract fold, a worker idles only when nothing that had settled is left behind a full page, and the status endpoint reports it drained or healthy only when it is. | 3.56M |
| `projector_liveness` | `MCProjector`: `SingleWriter`, `EveryEventConsumed`, `StopReleasesLock` | Two workers and one lock, no connection lost: one folder at a time, and under fair scheduling, restarts and reaping every committed event is consumed and a worker told to stop frees its lock. | 186k |
| `projector_jumped` | `MCProjector`: `NoEventJumped` | *Violated, as section 4 explains.* An emitter transaction that stays open as long as the settle window commits an id below the cursor: the event is jumped over. | up to the counterexample |
| `projection_impressions` | `MCProjection`: `TypeOK`, `ExposureJustified`, `WatchedIsMeasured`, `ReplayIsStable`, `RecomputableFromTheLog`, `ReplayHeals`, `NothingForgotten` | Every journal of four events over detections, gaze, an orchestrated ad_run and its playback, in every order, with cursor rewinds and a device registered or retired on the way: exposures are justified and measured, and replay is stable, heals and forgets nothing, and in order the tables are those of one fold from empty ones. | 638k |
| `projection_links` | `MCProjection`: `ReplayIsStable`, `InOrderReplayChangesNothing`, `ReplayHeals`, `NothingForgotten` | Every journal of four events over the pipeline (track, detection, match, decision, composition, ad_run, relayed playback) in every order with rewinds: counters, links and statuses converge under replay and missed links are repaired. | 350k |
| `projection_gaze` | `MCProjection`: `GazeRecomputesIdentically` | *Violated, as section 4 explains.* A gaze event of the window whose id is above the closing event is not stamped yet when the exposures are derived; a replay finds it and watched flips. | up to the counterexample |
| `registry_writers` | `MCDeviceRegistry`: `TypeOK`, `JournalMatchesRegistry`, `NoSightingLost`, `ScopeIsRecent`, `NullScopeRecorded`, `RetiredIsFinal` | Two concurrent admin requests (create, adopt, patch, with rollbacks) on a display and a camera while the projector resolves three events, with a raising event and an aborted batch: audit, lifecycle, sightings and scopes stay consistent. | 1.47M |
| `registry_unrecorded` | `MCDeviceRegistry`: `UnregisteredIsRecorded` | *Violated, as section 4 explains.* An unknown device whose first event of the batch raises: the record is rolled back, the cached NULL scope is not, and its next event is stamped without any record. | up to the counterexample |
| `stream_feed` | `MCEventStream`: `TypeOK`, `OnlyLateRowsMissed`, `FeedInOrder`, `EveryRowShown` | Three rows committed in any order of their ts, two broken connections, an empty table or a full first page: a connection misses only rows it cannot see in time, the feed is in order, and every row that commits in the order of ts is shown under fair reconnection and polling. | 581k |
| `paging_walk` | `MCKeysetPaging`: `TypeOK`, `SteadyRowsOnce`, `NoRowTwice`, `WalkEnds` | A client walks any of the six kinds of lists with any content of four rows, tied keys, names with a bar and limits out of range, while two changes happen between its pages: rows that stay put are shown on exactly one page, none but a renamed device on two, none twice within a page but the health event of a device that is registered more than once, and the walk ends. | 752k |
| `authoring_page` | `MCAuthoring`: `TypeOK`, `BundleMatchesRow`, `ListsMatchTables` | Three requests of an advertiser's page and of other uploads, overlapping, failing or answered late or not at all, while the page loads its lists or is opened anew: bundle and row agree after an undisturbed upload unless the row says that its build failed, and the page shows what the tables hold but for what it could not know. | 3.50M |
| `authoring_popup` | `MCAuthoring`: `PopupShowsLatest` | *Violated, as section 4 explains.* Two previews overlap: the answer to the earlier one arrives while the later one is pending, and its video plays in the popup of the later ad. | up to the counterexample |

### Bounds and why they are enough

* `projector_safety`: two workers, three events and pages of two, so that a settled event may stand behind a full page,
  and a page that is not full may end at a row that is not committed, not settled or not there. Three of the five outcomes, no-ops
  among them, so that a full page may have handled nothing. `Settle = 3 > MaxOpen + MaxLead = 2` is the smallest window
  for an emitter that outlives a tick and whose timestamp is a tick off, so that id order and ts order
  may disagree. `LagWarn = 4 > Settle`, as by default (10 s and 2 s): an event that has just settled is folded with a lag of 3, which
  is "ok", while another of age 4 may still wait, which only the `MaxLead` in the bound of `OkBoundsTheWait`
  allows. One fault meets every point of a batch, and one lost lock connection lets both
  workers fold at once. Nothing distinguishes a third worker from the second.
  `VIEW InUse` keeps TLC from telling states apart by what the next batch sets before it reads it (the time and the last id of the batch before,
  and when a closed transaction was opened); neither an action nor a property looks at these, so no
  behaviour is lost. The symmetry of the workers and this view leave 3.6 million states.
* `projector_liveness`: pages of one event, so a full page keeps `drain()` going; one fault, one
  SIGTERM and no lost lock connection (`SingleWriter` is a promise about processes that keep theirs).
  No symmetry, which is unsound for liveness.
* `projector_jumped`: `MaxOpen = Settle`, the smallest violation of the contract.
* `projection_impressions`: four events out of seven cover one complete impression (observation, run,
  gaze, closing playback) in every order, and every shorter one with distracting events in every place
  (another system that reuses the track id, a later observation of the same person, an event emitted
  twice); one change of the registry; rewinds to every cursor.
* `projection_links`: four events out of ten cover every link of the pipeline with its parent before
  and after it, and with a second representative. The registry is fixed: its effect on links is a
  NULL scope, which the other run has. Here a replay in order is checked to change nothing; the other run checks that
  the tables are those of one fold from empty ones, which says the same of every replay that the
  state graph reaches.
* `registry_writers`: a display and a camera (only a display can be adopted), two requests in
  flight, three writes (create, patch, patch; or create against adopt), three events so that a
  device has an event before and after an expiry, one raise and one abort.
* `stream_feed`: three rows, so that one may be late behind the other two and the first page (two rows)
  may leave one behind; a feed of three, so that it is cut once rows repeat; two broken connections, so
  that a reconnection may itself be cut short; three ticks and a lead of one tick.
* `paging_walk`: four rows and pages of one or two rows (limits 0 and 3 are clamped to 1 and 2), so a walk
  has up to four pages and two changes fit before, between and after any of them; three keys, so that rows
  tie and can be moved both ways; the middle key is a name with a bar. Two result rows per health event are enough
  for a page that repeats it and for a page end between them, also on pages of one.
* `authoring_page`: two slugs and two sources, so that uploads meet on a slug or pass each other; three
  requests cover create, delete and reload, or two uploads and a delete, in every overlap; one fault. A build may fail at no cost, so all of them may.
* `authoring_popup`: three requests (create, create, and the preview each opens) are enough.
* Bounds on counters (`MaxClock`, `MaxEvents`, `MaxFaults`, `MaxLosses`, `MaxStops`, `MaxDrifts`,
  `MaxWrites`, `MaxRaises`, `MaxAborts`, `MaxDrops`, `MaxChanges`, `MaxRequests`) appear only as guards. `Insert` leaves room under `MaxClock`
  for the event to settle, so the bound cuts no behaviour in the middle.
* Deadlock is checked for `Projector`, where workers that poll can always move, for `EventStream`, whose last
  connection polls on, and for `Projection`,
  where the cursor can always be rewound. `DeviceRegistry` really stops once all events are folded and
  the writes are used up, a walk of `KeysetPaging` ends, and the advertiser of `Authoring` stops asking;
  their configurations say so.
* Permutations of workers, administrators, slugs or sources are symmetric in the runs without liveness.

### Fairness

`FairSpec` assumes: a worker whose next statement can run runs it (weak fairness of `Step`: a loop
that only awaits the database); PostgreSQL's lock queue serves a waiter eventually (strong fairness
of `LockCursor`, since the row is locked and unlocked again and again); the container runtime restarts a
process that ended, unless it was told to stop (`restart: unless-stopped`, `docker-compose.yml:155`;
weak fairness of `Start` while not stopped); broken connections are noticed (`Reap`), time passes
(`Tick`) and a transaction ends (`Close`). There is no fairness of faults, of `Insert`, or
that a given lock attempt succeeds.

`FairSpec` of `EventStream`: EventSource reconnects by itself (`Connect`) and the generator's loop goes on while
it has a connection (`Yield`, `Poll`), all weak, since a connection that is open stays able to take its
next step. Nothing is assumed of the emitters. `FairSpec` of `KeysetPaging`: the client goes on as long as it is given a
cursor (`FetchPage`, `Refuse`).

## 4. What the documents say and the code does not do

* `projector_jumped`, `NoEventJumped`. `fold.py:16` and `fold.py:31` promise at-least-once because everything commits together and a held-back low id is never jumped over. The settle window compares `ts`, so it protects against a row that is visible and young, not against one that is not visible yet: an emitter that stays open as long as `PROJECTOR_SETTLE_MS` commits its id behind the cursor and the event is never read.
* `projection_gaze`, `GazeRecomputesIdentically`. The runbook (lines 95-96) says that the gaze join recomputes identically on replay. Gaze rows join by their back-stamped `system_id`; those with an id above the closing event are not stamped when it is folded, but are when it is replayed.
* `registry_unrecorded`, `UnregisteredIsRecorded`. `scope.py:7` and `020_device_registry.sql:17` say that an unregistered device is recorded. The record is inside the savepoint of the event, the cached NULL scope is not: if the event raises, the next events of the device in that batch hit the cache and nothing is recorded.
* `authoring_popup`, `PopupShowsLatest`. `Authoring.tsx:187` says that the finished ad is popped up so the advertiser can watch what they just made. `renderAdPreview()` does not remember which ad it waits for: when a second preview is opened while the first one renders, the first ad's answer plays in the second one's popup while that one is still pending, and for good if it comes last, also after a close.

Smaller disagreements met on the way, for which no run is kept:

* A worker whose lock connection dies goes on folding while another takes the lock, against `worker.py:14` ("never
  two folders"). The lock is asked for once, before the main loop. `projector_safety` includes this
  fault and shows that the damage is limited: the row lock alone keeps every event counted once.
* `fold.py:38` says that processed is folded plus skipped plus no-ops. `folded` is incremented inside the savepoint
  (`fold.py:72`), so an event that fails after its handler is counted twice; only reported numbers are off.
* `015_runs.sql:127` says that `watched` is for targets only. A target of one playback can be a bystander of
  another of the same run, and COALESCE keeps the flag (`derivations.py:297`).
* `createAd()` in `api.ts` does not look at the status: the body of a 422 becomes an entry of the page's list
  and is previewed. `deleteAd()` and `deleteComponent()` do look, so an ad that somebody else deleted (404) stays on the page.
  `Refusal` in `Authoring` is that entry.

## 5. Proofs

All theorems hold for every number of workers, devices, requests and events and for every page size,
window and bound on faults, under the named ASSUMEs of the modules (constants are numbers, `None` and
`Orphan` are no workers, NULL is no value, statuses are those of `device_status`).

| theorem | property | establishes |
|---|---|---|
| `Projector_proofs!TypeCorrect` | `TypeOK` | Type correctness for every number of workers, events, faults and every size of batch and window. |
| `Projector_proofs!NeverTwiceHolds` | `NeverTwice` | No event is consumed by two committed batches, nor above the cursor, whatever the emitters and the lock connections do. |
| `Projector_proofs!NoEventJumpedHolds` | `NoEventJumped` | When MaxOpen + MaxLead < Settle the cursor never stands at or above an id that may still commit. |
| `Projector_proofs!ExactlyOnceHolds` | `ExactlyOnce` | Under the same assumption the committed events up to the cursor are exactly those consumed, once each, even with several folders. |
| `Projector_proofs!BatchOnCursorHolds` | `BatchOnCursor` | Under the same assumption a batch owns the cursor row and nothing commits behind its last_id. |
| `Projector_proofs!IdlesOnlyWhenCaughtUpHolds` | `IdlesOnlyWhenCaughtUp` | Under the same assumption a worker goes to sleep only when the cursor is past everything that had settled, with all before it, when its batch began, including what committed after the page was read. |
| `Projector_proofs!SingleWriterHolds` | `SingleWriter` | While no lock connection is lost under a live worker, at most one worker is inside fold_batch. |
| `Projector_proofs!Refinement` | `FoldsEvents` | Under MaxOpen + MaxLead < Settle the projector implements EventFold: every step is an abstract append above the cursor, an abstract fold, or a stutter. |
| `Projection_proofs!TypeCorrect` | `TypeOK` | Rows keep the columns of their migration, every link points to a row that exists, every back-stamp is the system of the event's own device, for any vocabulary of events, in any order, replayed or not. |
| `Projection_proofs!ExposureJustifiedHolds` | `ExposureJustified` | Every exposure has a closed playback of its ad_run and an observation that qualifies as its target or bystander. |
| `Projection_proofs!WatchedIsMeasuredHolds` | `WatchedIsMeasured` | A watched exposure was measured by a camera of the playback's own system during a closed playback of its ad_run. |
| `Projection_proofs!NothingForgottenHolds` | `NothingForgotten` | No fold wipes a link, a scope or a measurement that an earlier one recorded. |
| `Replay_proofs!ReplayIsStableHolds` | `ReplayIsStable` | Two replays of the journal settle the tables, whatever was folded when and under which registries; one does if every event was folded before under the present one. |
| `Replay_proofs!ReplayHealsHolds` | `ReplayHeals` | After two replays every link of a match, composition, ad_run or playback to a row that exists is there, and every closed playback has the exposures of its causal observation and of everybody in its window. |
| `Replay_proofs!InOrderReplayChangesNothingHolds` | `InOrderReplayChangesNothing` | If every event came after what it refers to and the registry did not change, a replay changes no row, status or measurement, for any journal and any rewinds in between. |
| `Replay_proofs!RecomputableFromTheLogHolds` | `RecomputableFromTheLog` | Under the same conditions the tables are those of one fold of the journal from empty tables, however often the cursor was set back: the journal determines them. |
| `DeviceRegistry_proofs!TypeCorrect` | `TypeOK` | Type correctness of the registry and its two writers, and that exactly the events up to the cursor are folded, for every number of devices, requests, events and faults. |
| `DeviceRegistry_proofs!RetiredHolds` | `RetiredIsFinal` | No interleaving of PATCHes revives a retired device: the locked row still has the status that was checked. |
| `DeviceRegistry_proofs!ScopeIsRecentHolds` | `ScopeIsRecent` | Every scope stamped, and every device recorded as unknown, rests on an answer the registry gave while the batch was open. |
| `DeviceRegistry_proofs!NullScopeRecordedHolds` | `NullScopeRecorded` | A batch that stamps an event without scope has its device on the list of unknown ones, unless an event of that device raised. |
| `DeviceRegistry_proofs!JournalMatchesRegistryHolds` | `JournalMatchesRegistry` | The audit entries of every device form one chain from no row to its present status: no write without an entry, no entry without a write, under any interleaving of requests. |
| `DeviceRegistry_proofs!NoSightingLostHolds` | `NoSightingLost` | The sightings of an unknown device are all in its row or in the count its adoption journalled, however the projector and the adopters interleave. |
| `EventStream_proofs!TypeCorrect` | `TypeOK` | Type correctness for every set of rows, every page and feed size and every number of connections; in particular the feed never exceeds its cap. |
| `EventStream_proofs!OnlyLateRowsMissedHolds` | `OnlyLateRowsMissed` | A connection misses no row but late ones, those behind a full first page and those older than its start on an empty table, whatever the order of commits. |
| `EventStream_proofs!FeedInOrderHolds` | `FeedInOrder` | The feed shows the rows of each connection newest first and without repetition, above those of earlier connections. |
| `KeysetPaging_proofs!TypeCorrect` | `TypeOK` | Type correctness for every set of rows, names, limits and changes. |
| `KeysetPaging_proofs!NoRowTwiceHolds` | `NoRowTwice` | No row but a renamed device is shown by two pages of one walk, and within a page only the event of a device that is registered more than once is repeated, for lists, pages, copies and changes of any size. |
| `KeysetPaging_proofs!SteadyRowsOnceHolds` | `SteadyRowsOnce` | A finished walk has shown every row that stayed in its place on exactly one page, and there once unless a health join repeats it, whatever happened to the others. |
| `ProjectorStatus_proofs!DrainedWhenDoneHolds` | `DrainedWhenDone` | Under MaxOpen + MaxLead < Settle a backlog of zero means that every committed event was folded exactly once. |
| `ProjectorStatus_proofs!OkBoundsTheWaitHolds` | `OkBoundsTheWait` | Under the same assumption "ok" bounds the age of every unfolded event, though only the last folded one is looked at. |
| `Authoring_proofs!BundleMatchesRowHolds` | `BundleMatchesRow` | For every number of slugs, sources, uploads and failures, an undisturbed upload leaves bundle and row with the same source, or a row that says the build failed. |
| `Authoring_proofs!ListsMatchTablesHolds` | `ListsMatchTables` | For every number of requests, answers and lost messages the page shows what the tables hold but for what it was told wrongly or not at all. |
| `Authoring_proofs!TypeCorrect` | `TypeOK` | For every number of requests and faults: an upsert leaves one row per slug and per id, ads keep their component and plays their ad, and the page holds only entries it can show. |

### Projector

`Core` is inductive without any assumption on time. `TypeOK` alone is not: that a batch ends between
the old cursor and the last id needs `PageInv` (the page is committed rows above the cursor; pending outcomes are exactly
the part of it up to `last_id`), which needs the row lock (`RowLockInv`: a worker past the cursor read owns the
row), and that pages start empty (`QuietInv`). `LedgerInv` says what has been consumed so far;
with these parts `NeverTwice` follows.

`Timed` adds what the settle window buys. A batch may pass an id whose row it cannot see. `GapInv`
says that such an id is aborted or was inserted so late (`fnow <= born + MaxOpen`) that, ids being handed out in
the order of the INSERTs (`BornInv`), no row after it had settled at `fnow`; so the batch has not
consumed anything beyond it. With `MaxOpen + MaxLead < Settle` this makes `NoEventJumped` and
`ExactlyOnce` inductive. These theorems carry that inequality as a hypothesis: it is the contract
between emitters and `PROJECTOR_SETTLE_MS`, which nothing in the code enforces.
`SingleWriterHolds` needs `MaxLosses = 0`: a worker that lost only its lock connection goes on folding. The refinement
theorem proves that initial states map to initial states and each step to a step of `EventFold` or a stutter.

`IdlesOnlyWhenCaughtUp` relates what a worker saw in one transaction to what is there when it goes to sleep in a later step.
`FullInv` carries it over: a page that is not full was every row that had settled and was visible when it was read, so
what it leaves out is above it or not settled; and a row that commits only afterwards is younger than the settle
window of every worker that has begun to read (`OpenUnsettled`, from `OpenInv`, `BornInv` and `NowInv`).

### Projection

`Sound` is inductive. It strengthens the properties in two ways. `ObsInv`, `PlayInv` and `RunInv` tie the tables to the journal:
an observation repeats its event, a playback and an ad_run agree with every event of theirs, and a scope is that of
the row's own device or NULL, however the registry moved. And a step is more than the next state: `Grows` lists the columns
that keep their value once they have one (`Stays`) and those that keep having one (`Known`). There is one lemma per handler
(`TrackKeeps` ... `PlaybackKeeps`), one for the back-stamp and one for the derivation; `NothingForgottenHolds` is their sum. What
`Justified` and `Measured` look at is among what stays, so no later fold can invalidate an exposure (`SoundStays`); a
derivation writes only what it has just found (`TargetFound`, `WatchedSeen`), where ORDER BY ... LIMIT 1 needs a proof that
there is a first row (`FirstByTime`). `AgreementAssumption` is where `Stays` comes from: COALESCE(new, old) overwrites.

`Replay_proofs` looks at many folds. Induction over data is out of the prover's reach, so `Refold` is unrolled once
(`Pass`: there is a sequence of tables, each the fold of an event over the one before), and what holds along it follows
from a lemma about one fold and plain induction over positions (`UpTo`).

* `FoldShape` replaces the handlers by what they do to each column (`Folded`), whatever kind the event has.
* One replay, over any tables: every event is `Recorded`, it has its row and the columns that are read off
  the event (`RecordedAtOnce`), and no fold takes them away (`RecordedStays`, from `AgreementAssumption`).
* From then on a fold makes no row and moves no window, target or observation (`RowsKept`), so what an event refers to is the same
  before and after it. A second replay therefore leaves every link `Resolved`, and in every column that events
  overwrite the value of the last one that writes it (`StatusesSettled`; for exposures `ExposuresSettled`, with the COALESCE of
  `watched` and of the probability: the last one that measured). Tables like these are `Final`.
* A replay of `Final` tables returns to them (`FinalIsStable`), though it passes through others: `Near` says
  that at event c they differ at most in a column that an event above c writes again.

`ReplayHeals` and the first half of `ReplayIsStable` follow for all tables a fold can leave. The second half, about what the
cursor has passed, and `InOrderReplayChangesNothing` need an invariant of the specification: `PassedRecorded` as long as the registry has not moved, and `PassedSettled` as long as the
journal is also in order. In order, a later event moves nothing that an earlier one refers to (`NextRefs`), and once a playback
has closed only closing playbacks follow (`NextView`); `Emit` keeps it because no gaze row can come after them.

`RecomputableFromTheLog` compares two ways to fill the tables, one of them through any rewinds, so it takes a converse: the
tables hold nothing but what some event up to an h brought, and all events up to h are recorded (`PassedFrom`, with
`From` for the columns; h is the furthest the cursor ever came, which the specification does not keep).
One fold from empty tables gives the same (`RebuildSettles`). Tables that are `Final` and come `From` the
journal are determined by it (`Told`), table after table in the order of their references: `TracksTold`,
`ObsTold`, `SetsTold`, `CompsTold`, `RunsTold`, `PlaysTold`, `ExpoTold`.

All three invariants were checked by TLC on the instances of `Projection` before they were proved.

### DeviceRegistry

`Typed` (types and the position of the batch) is common. On top stand small invariants. `Locks`: an
open PATCH holds its row, the row still has the status that was checked, and it is alone; `RetiredIsFinal`
is then a property of every step. `Fresh`: whatever the cache or the event in progress knows, the
registry said while the batch was open, and its present answer is among those; `ScopeIsRecent`
follows. `Recorded`: a cached NULL scope means that the device is on the batch's list, or that one of its events raised
after listing it; `NullScopeRecorded` follows.

`JournalMatchesRegistry` is inductive on top of `Locks`: every write appends one entry that begins at the device's
row (`ChainExtended`), which for a PATCH is what its lock guarantees. `NoSightingLost` needs `RowLocks`: an open
adoption holds its row, the count it has read is still the one that is there, and no open batch has
bumped it; and it needs the journal's chain, because a device without a row has no earlier adoption. `TwoSides` splits `Next` into the projector's steps
and the administrators', each of which leaves the other's variables alone.

### ProjectorStatus

Both theorems rest on `Core` and `Timed` of `Projector_proofs` and carry the same hypothesis. `CursorInv`: the
cursor is zero or a committed id, so a backlog of zero leaves nothing above it and a negative one cannot
be; what is below it was folded, by `ExactlyOnce`. `OkBoundsTheWait` compares two events: the last folded one
is at most `LagWarn` old, and one that is not folded has a later id, so it was inserted later; `BornInv`
and `AheadInv` bound what the two timestamps may be off.

### EventStream

`StreamInv` is the loop invariant of the generator: what this connection has sent is committed and not newer than
`last_ts` and than the fetched rows (`Position`), and `last_ts` is either the time at which the connection found an empty
table or the `ts` of a committed row (`Anchored`). The second is what makes `OnlyLateRowsMissed` inductive:
a row that commits at or below `last_ts` commits after a row that is not older. `OffPage` says
what a first page leaves out, for any tie of `ts`.

### KeysetPaging

Between two pages the cursor separates what has been shown from what has not: `SteadyInv` for the rows nobody
moved, `ShownInv` for all rows but renamed ones. `OrderFacts` says that (key, id) is a strict total
order in both directions; `OnePage` says what a page contributes: the rows of `Left(cursor)` up to the new
cursor and no other, also when the page is merged from one probe per branch; and a page without a
cursor is all that was left. Pages are cut from result rows, of which a health event has any number: `ResultFacts` relates the two, `LimitFacts`
says that a page holds, with any of its result rows, all that are ahead of it, and `PageSplits` that a row is on the page or beyond
the cursor, also when the cut goes through its copies. For the lists stamped by the projector `ShownInv` also says that no row was stamped
before the cursor's, so a bump moves a row where the walk has already been.

### Authoring

`StoreInv` gives `BundleMatchesRow`: an upload that met no other is the only one of its slug (`Alone`), what it
stored, if its build was good, is still in the sidecar (`Stored`), and a slug is not settled while an abandoned request may still
be built, well or not (`NoStraggler`). `ListInv` gives `ListsMatchTables`: `LifeInv` follows one row from its create through the table
and the page to its delete, so that no answer can bring back or remove a row twice; `AdsInStep` and
`ComponentsInStep` say that list and table differ only for rows with an answer on its way (`Late`).
`TypeOK`, which includes that slugs and ids are unique and that references point to rows, is inductive with what is said
of the messages: ids that were handed out (`Numbered`), components and ads that requests and answers
refer to, an ad's component and a play's ad included (`Referred`, the foreign keys), and the popup, its previews and what is
in doubt (`Modal`).

### Only model-checked

Liveness under fairness (`EveryEventConsumed`, `StopReleasesLock`, `EveryRowShown`, `WalkEnds`), which TLAPS does not
prove; it is shown on the instances of section 3. The contradictions of section 4 are counterexamples of TLC. Every
other property of a run is the statement of a theorem.

## 6. Not modelled, and what could follow

* God View detail pages, the dashboard, the map and the camera readings: single read-only SELECTs that keep nothing
  between requests; what is in them is SQL over the summary tables.
* The purge of automatic embeddings: three calls run by hand on two stores whose writers are not in this
  repository. That the rows go before the vectors, so a retry after a failure finds no rows, is the whole
  of it; it is listed as a hazard.
* Other fields of a PATCH, device identity rows, the screen-group check; `PATCH /ads`; the base-video pool and the
  forms of the authoring page; seeds, provisioning scripts, demo traffic; embeddings and media (bytes).
* A composition of `Projector` and `DeviceRegistry` would show whether a batch that holds `unresolved_devices` rows while
  an adoption waits for them can deadlock with a second folder. Each model alone speaks against it: an adoption
  locks one listed row, and a second folder waits at the cursor row before it has locked anything; but
  no run composes them.

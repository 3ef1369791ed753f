# gb-grid, specified

TLA+ specifications of gb-grid (`src/src/gb_grid`): the program that copies
Great Britain's electricity data from Elexon (BMRS) and NESO into a TimescaleDB
database, derives dispatch series from it, and serves both to dashboards.  The
modules model the parts where the order of steps matters, TLC checks them on
small instances, and TLAPS proves their safety properties for every number of
windows, workers, records, days and failures.

## 1. The system

| component | state | operations | interacts by |
|---|---|---|---|
| `ingest/base.py` `run_windows` | the deque of futures, the pool, `total`, `last_with_data` | fetch windows with a pool, write them in order, move the watermark | called by every Elexon ingest; calls the client from pool threads and the database from the calling thread |
| `db.py` | the connection (autocommit: every statement, or `COPY` transaction, commits by itself) | `upsert` (row-wise or `COPY` and merge), `set_watermark`, `get_watermark`, `refresh_caggs`, `migrate` | called by all |
| `ingest/fuelinst.py` + `scheduler._fuelinst_tick` + `cli backfill` | table `fuelinst`, its row of `ingest_watermark` | a tick resumes from the watermark; a backfill only sets it | share table and watermark, possibly from two processes |
| `ingest/constraints.py` | table `constraints`, the validators in `ingest_http_cache` | conditional GET of the whole history, filter by `MAX(ts)`, upsert | a process of its own, by timer or by hand |
| `ingest/boalf.py`, `pn.py`, `mels.py`, `system_prices.py` | their tables | a rolling window behind (and ahead of) the clock | feed `materialize_dispatch` |
| `ingest/b1610.py` | table `b1610`, two continuous aggregates | ingest, watermark, refresh of what the policies do not reach | aggregates are read by `materialize_dispatch_daily` and dashboards |
| `materialize.py`, `analytics.py` | `bmu_dispatch`, three aggregates, `bmu_dispatch_daily` | compute the 5-minute series from PN, BOALF and MELS; roll it up | reads tables other ticks are writing |
| `scheduler.py` | eight endless loops on one asyncio loop and its thread pool | run a tick, log its failure, sleep | starts all of the above |
| `api/client.py`, `api/endpoints.py` | an HTTP client | `get` with up to five attempts; JSON rows to dicts | called by pool threads |
| `migrations/` | the schema, the aggregates' policies, `dispatch_series()`, `b1610_series()` | applied in order under a lock | before the scheduler starts |
| `config.py`, `cli.py` | environment, arguments | read once | - |

What is hard in it:

* **Order and interleaving.**  Fetches of one call run in parallel, end in any
  order, and see the feed at different moments; the feed revises what it has
  published.  Two processes (scheduler and a backfill by hand, two refreshes of
  the bulk file) work on the same rows and the same watermark.
* **Failure between two commits.**  Rows and watermark, validators and rows, rows
  and aggregates are stored by separate transactions; a request, the database or
  the process may fail between them.
* **Locks.**  Two sessions that upsert the same rows wait for each other's locks,
  and may be ended by the database.
* **Progress.**  What a failed tick has missed must be fetched by a later one.
* **Staleness.**  The heatmap is computed from aggregates that are refreshed later
  than the table they show.
* **Boundaries.**  Windows share their end points; the reach of a refresh and of
  a policy must meet; days have 46, 48 or 50 settlement periods.

Properties that make each component correct, and what checks them, are in
sections 3 and 4; `PROJECT.json` lists every hazard at its line of code.

## 2. Modules

```
Batches ----- SerialIngest           what run_windows promises
        \---- WindowPipeline ------- implements SerialIngest
        |        \-- MCWindowPipeline, WindowPipelineProofs
        \---- ConstraintsFeed
                 \-- MCConstraintsFeed, ConstraintsFeedProofs
FuelinstTicks -- FuelinstTicksProofs   ticks and backfills on one watermark
B1610Caggs -- DailyRollup -- B1610CaggsProofs
                                       b1610, its aggregates and their policies,
                                       and the heatmap rolled up from them
AtomicUpserts -- Upsert -- UpsertProofs
                    \-- RollingIngest   boalf, pn and mels over both paths of upsert
                          \-- MCRollingIngest, RollingIngestProofs
DispatchSeries -- MCDispatchSeries, DispatchSeriesProofs
                                       PN, BOALF and MELS into rows of bmu_dispatch
NaturalFacts                           lemmas for UpsertProofs and DispatchSeriesProofs
```

**Batches.**  A record is its conflict key; its payload is the number of the
revision that was read (0: no such record).  Batches and tables are functions
from keys to revisions, and `Merge` is `INSERT .. ON CONFLICT DO UPDATE`.  An
upsert is one atomic step.  That this may be done, although the rows are written one
by one beside other sessions, is what `ImplementsAtomicUpserts` says of module Upsert.

**AtomicUpserts.**  The promise of `upsert`: the rows of a call (`batch`) appear all
at once or not at all; of rows with one key the last counts; calls of different
sessions take effect one after the other (`Call`, `Apply`, `Raise`).

**Upsert.**  The same row by row, with the locks of PostgreSQL.

| in the code | in the module |
|---|---|
| `len(rows) >= COPY_MIN_ROWS` | `ByCopy` |
| `SELECT DISTINCT ON (..) ORDER BY .., _ord DESC` | `Kept` (the last row of each key), `Before` (in the order of the keys) |
| `executemany` in a pipeline | all rows `Kept`, `Before` is the order of the batch |
| one row inserted or updated in place, and locked | `WriteRow`: `pending` is the row as its last writer left it, `done` what a session has written and so what it has locked |
| the end of the pipeline or of `conn.transaction()` | `Commit`: what is pending under the session's locks becomes visible in `table` |
| an error, a lost connection | `RollBack`: it is dropped |
| "cannot affect row a second time", "deadlock detected" | `SecondTime`, `Deadlocked` |

The temporary table is seen by its own session alone, so filling it is no step.  Both
paths are one transaction, for different reasons: `COPY` and merge run under
`conn.transaction()`; the row-wise path runs in autocommit mode, but `executemany` sends
its statements in one pipeline, and PostgreSQL runs what comes before the pipeline's
`Sync` as one transaction.  This is a fact about psycopg and the protocol, not about
this repository; the mutant `WriteRowAlone`, in which each row commits by itself, shows
that the property rests on it.

**RollingIngest.**  The ticks of boalf, pn and mels (`Tick`: from `Behind` hours ago
to `Ahead` hours from now, whatever the last tick got) and a `Backfill` by hand on
its own connection.  A call goes through its windows (`WindowEnd`): `Fetch`, with
`Retry` up to `MaxAttempts` and `GiveUp`; `Write` row by row, then `Stored`; or
`Raised`; and `Return`.  `Lose` is a lost connection.  An answer has the records in any
order, and may repeat one of them with its older revision.  Records
are published up to `Lag` hours after their time and may be revised; the clock
(`Advance`) runs beside.  `began`, `lastOk`, `since` and `gap` are history: they say how
far apart the ticks began that returned.  Left out are the watermark (for these
datasets only `status` reads it) and the pool: a window is fetched when its turn
comes, as WindowPipeline has the rest.

**SerialIngest.**  The promise of `run_windows` without its fetching: batches are
applied one at a time in window order, each whole and followed by its watermark
before the next; the call returns after the last, or stops and leaves a prefix.

**WindowPipeline.**  `run_windows` and `_write`, both branches.

| in the code | in the module |
|---|---|
| where the calling thread is | `pc`: `fill`, `loop`, `write`, `mark`, `count`, `shutdown`, `serial`, and the three ends |
| `remaining` | `next`, the first window not yet taken from it |
| `in_flight`, futures | `inFlight`, `status`, `rows` |
| `rows`, `window` of the loop | `current`; `Released` drops a result set when the name is rebound |
| `total`, `last_with_data` | `total`, `lastWithData` |
| table and watermark | `table`, `watermark` |
| the feed | `feed`: revision published now; `Publish` may come at any moment |

Actions: `Fill`/`Filled` (the deque's first elements, submitted one by one),
`Take` (`popleft`, `result`, the next submit), `TakeFailed`, `Upsert`,
`SetWatermark`, `WriteFails`, `Count`, `Return`, `Shutdown` (the exit of the
`with` block), `SerialFetch`, `SerialFetchFails`, `FetchDone`, `FetchFails`,
`Publish`, `Crash`.  `stored`, `marked` and `atStart` are history variables.

**ConstraintsFeed.**  `ingest_constraints` statement by statement: `ReadMax`,
`GetValidators`, `NotModified` or `Download`, `SaveValidators`, `Upsert`; a
`Fail` between any two; several processes.  A publication's ETag and
Last-Modified are its number.  The file grows by one period at a time and never
changes an old one.  `overlapped` and `interrupted` are history.

**FuelinstTicks.**  A `Tick` takes its start from the watermark, a `Backfill`
takes any range, before or after there is a watermark, up to slots still to come
(`--to` is a day, taken to its end); both go through their windows by `Fetch`,
`Upsert`, `Mark`.
A call is taken here as WindowPipeline shows it to be, with the freedom of the
pool to have fetched a window at any moment since the call began (`known`).  The
feed may be up to `MaxLag` slots behind the clock.  `origin` (where the job began that
left the first watermark) and `exposed` are history.

**B1610Caggs.**  `ingest_b1610` with each of its commits: `Fetch` and `Upsert` of
a window (a day), `Stored` (`run_windows` returns), `Mark` (the watermark, and the
gate on `policy_floor`), `Refresh` once for each aggregate.  `Tick` and `Backfill`
start it; `Policy` is the half-hourly refresh of an aggregate, `Midnight` moves the
date once both policies have run.  A day's rows are one record, of which the feed has
one revision after the other.  A window is
fetched and stored here without the pool: windows are single days and share no
record, so by `ImplementsSerialIngest` nothing else can be observed.  `exposed` is
history: it marks the days given up, by a job that failed or at midnight.

**DailyRollup.**  B1610Caggs with `materialize_dispatch_daily`: `RollUp` of the
scheduler (the last `RollReach` days) and `RollUpByHand`, each of them one
`INSERT .. SELECT` and so one step, for one `Day` that stands for all (a roll-up
treats each day by itself).  `daily` is the row's `b1610_mwh`.  The columns that come
from the aggregate of `bmu_dispatch` by the same statement are left out.

**DispatchSeries.**  One call of `materialize_dispatch` for one BMU: `ActiveBmus`,
`FetchPn`, `FetchBoalf`, `FetchMels` (separate statements, with segments stored in
between by `StorePlan`, `StoreAcceptance`, `StoreLimit`), and `Write`; with `--bmu` the
call goes straight to its reads.  `missed` is history: the steps of the grid at which a
segment was stored, or replaced, after the call had read its table.  The
computation is operators: `Orders` are the orders `sort_values` may give,
`InterpSegments` the loop of `_interp_segments` as a recursive function of the number
of segments done, `Stamp` one turn of it, `SoFlagged` the acceptances of the system
operator, `Row` the arithmetic at one instant, `Kept` the `dropna`.  `IsDefined` says the same without the window, the sort and
the loop: at each instant the newest of all stored segments that cover it.  A BMU's
rows are those whose names match; levels are never missing; arithmetic is exact.  A
missing `acceptance_time`, which the schema allows, is sorted last by pandas, and so is
one value of `accepted` later than any other.
The BMUs of a call do not share rows, so one stands for all, and `written` for what
a call adds to the table.

## 3. Runs

| run | instance | shows |
|---|---|---|
| `pipeline` | 3 windows, 2 workers, 3 records of which one is in two windows, 2 revisions | `LaterWindowWins`, `ResumeIsSafe`, `WatermarkAdvances`, and that `run_windows` implements `SerialIngest` |
| `pipeline_long` | 5 windows, 3 workers, window 3 empty, no watermark | `MemoryIsBounded`, `NoOrphanFetch`, `ResultIsExact`, `Terminates` |
| `pipeline_serial` | as `pipeline`, 1 worker | `StoredNeverRegresses`, `ResultIsExact` |
| `pipeline_regress` | as `pipeline` | violation: with 2 workers `StoredNeverRegresses` fails (section 5) |
| `constraints` | 2 processes, 2 groups of 3 periods, 2 failures | `HighWaterMarkIsComplete`, `DownloadedOnce`, `RowsArriveUnlessInterrupted` |
| `constraints_lost` | 1 process, 1 failure | violation: `EveryRowArrives` |
| `fuelinst` | 4 slots, windows of 2, feed up to 2 behind, 1 backfill, 1 failure | `NothingBelowWatermarkMissing`, `EverySlotArrivesUnlessExposed` |
| `fuelinst_gap` | 5 slots, one window a call, feed on time, 1 backfill anywhere | violation: `EverySlotArrives` |
| `b1610` | days 1 to 5, today 4 then 5; rows of days 1, 2 and 4, the last in 2 revisions; policies reach 2 days back and the roll-up 1, feed at least a day late, 1 backfill, 1 failure; the roll-up of day 4 | `NoDayGivenUp`, `DoneMeansVisible`, `WatermarkDayHasRows`, `HeatmapCatchesUp` |
| `rolling` | 2 records an hour apart, one with 2 revisions; a tick reaches 2 hours back and 1 ahead, feed up to 1 hour late, windows of 2 hours, 2 attempts, `COPY` from 3 rows on; 3 hours | `NothingLeftBehind`, `CopiesNeverDeadlock`, `NeverASecondTime`, `CallsEnd`, and that `upsert` implements `AtomicUpserts` |
| `dispatch` | 4 ticks on a grid of 2; 3 plans, 12 acceptances, 2 limits, of which 4 are stored, at any moment of a call; 4 windows | `RowsOnGrid`, `RowsAreDefined`, `SoWithinTotal` |
| `b1610_lost` | today 4, feed 3 days late, 1 backfill, 1 failure | violation: `AggregatesCatchUp` |

**Why these bounds are enough to be interesting.**  With 3 windows and 2 workers a
window is popped, written and replaced while another is in flight, and the last one is
taken with nothing left to submit; with two revisions a record can be read before and
after it changes and overwritten by either.  5 windows and 3 workers add a deque that
is refilled more than once and a hole in the data.  Two refreshes and three
publications let one refresh sleep through two publications of the other.  Four slots
and windows of two make a tick of two windows, the last one cut short, that can be
interrupted and resumed while a backfill moves the watermark.  With today 4 and a reach
of two days a backfill has days on both sides of the policies' floor and on it (1, 2 and
4 have rows, so that there are empty windows too), and midnight moves the floor past a
day that is being stored or refreshed: it may pass after an aggregate was refreshed and
before the next one is.  The one day of the roll-up is revised once it has been rolled
up, and may have been rolled up while the aggregate was out of date.  Four
segments are a plan, a limit and two acceptances, or two revisions of one; their
shapes cross, nest in and touch the edges of the windows, two of which start off the
grid, and their levels go from import to export and back.  Two records, of which one may come twice, give batches of one to three rows on
both sides of `CopyMinRows`, in either order, with and without a repeated key: a
row-wise call can meet a merge or another row-wise call and wait for it in a ring.  A
tick of three hours has two windows, the second one cut and sharing its edge with the
first.  Ticks that begin 0, 1 and 2 hours apart are closer than, exactly as far apart
as, and further apart than `Behind - Lag`.  These are the smallest numbers at which
`NothingLeftBehind` says anything; a gap of two hours within the reach, whose inner edge
is shared by two whole windows, needs more hours than TLC finishes, and rests on
`NothingLeftBehindTheorem`, which is for all numbers.  The bounds named in the modules
(`MaxVersion`, `LastPeriod`, `LastSlot`, `LastDay`, `LastHour`, `MaxFailures`,
`MaxBackfills`, `MaxStores`) only stop counters that would grow; `Published` and `Revised`
say which days' rows the feed has and revises.

`DoneMeansVisible` is checked with one midnight, and proved (`DoneTheorem`) for any
number of them as long as `TickIsPrompt`: no tick lasts until the first day of its
range leaves the policies' reach.  It would be false without: a tick could
then store a newer revision of a day after a backfill beside it has refreshed that day
and before the backfill ends (the tick's own refresh repairs it later).  With the program's numbers (ticks begin 14 days back,
policies reach 30) that takes a tick that runs for 16 days; of a backfill nothing is
asked.

**Deadlock** (of the model) is not checked in the pipeline runs: a call that has ended
has no next step.  The other modules never stop: refreshes and ticks start again.

**Fairness.**  A fetch ends, because every request has a timeout and at most five
attempts (`client.py`); the calling thread goes on while it can (`WF` on the
disjunction of its steps, so that an error is never forced); refreshes are
started daily (`WF` on a process's steps); `_loop` starts the next tick whatever
happened to the last one, and a running job goes on; the refresh policies are jobs
the database itself runs; the loop of the daily roll-up goes on.  In `rolling` it is
strong fairness on the steps of a session: a session that waits for a row's lock has
its turn when the lock is free, because PostgreSQL queues those that wait, so that it
cannot be passed over for ever; the same holds for the victim of a deadlock, which the
database always chooses.  There a call may fail as often as it likes: `CallsEnd` asks
only that it ends.  Elsewhere failures and backfills are
never forced and are bounded, since no progress can be promised to a program
that always fails.  The feed need not publish anything.

## 4. Proofs

For all values of the constants that satisfy the assumptions of the modules:

| module | theorem | statement |
|---|---|---|
| `WindowPipelineProofs` | `TypeTheorem` | `Spec => []TypeOK` |
| | `LaterWindowWinsTheorem` | `Spec => []LaterWindowWins` |
| | `ResumeTheorem` | `Spec => []ResumeIsSafe` |
| | `NoOrphanTheorem` | `Spec => []NoOrphanFetch` |
| | `WatermarkTheorem` | `Spec => WatermarkAdvances` |
| | `RefinementTheorem` | `Spec => ImplementsSerialIngest` |
| | `MemoryTheorem` | `Spec => []MemoryIsBounded` |
| | `ResultTheorem` | `Spec => []ResultIsExact` |
| | `SerialTheorem` | `Spec => StoredNeverRegresses`, if `Serial` (one worker) |
| `ConstraintsFeedProofs` | `TypeTheorem` | `Spec => []TypeOK` |
| | `HighWaterTheorem` | `Spec => []HighWaterMarkIsComplete` |
| | `DownloadTheorem` | `Spec => DownloadedOnce` |
| `FuelinstTicksProofs` | `TypeTheorem` | `Spec => []TypeOK` |
| | `ResumeTheorem` | `Spec => []NothingBelowWatermarkMissing`, if `GapBackfills` is `FALSE` |
| `B1610CaggsProofs` | `TypeTheorem` | `Spec => []TypeOK` |
| | `NoDayGivenUpTheorem` | `Spec => []NoDayGivenUp` |
| | `WatermarkTheorem` | `Spec => []WatermarkDayHasRows` |
| | `DoneTheorem` | `Spec /\ []TickIsPrompt => DoneMeansVisible` |
| | `DailyTheorem` | `DailySpec => [](TypeOK /\ NoDayGivenUp /\ WatermarkDayHasRows)`, and `DoneMeansVisible` as above |
| `RollingIngestProofs` | `TypeTheorem` | `Spec => []TypeOK` |
| | `RefinementTheorem` | `Spec => ImplementsAtomicUpserts` |
| | `NeverASecondTimeTheorem` | `Spec => NeverASecondTime` |
| | `CopiesNeverDeadlockTheorem` | `Spec => []CopiesNeverDeadlock` |
| | `NothingLeftBehindTheorem` | `Spec => []NothingLeftBehind` |
| `DispatchSeriesProofs` | `TypeTheorem` | `Spec => []TypeOK` |
| | `RowsOnGridTheorem` | `Spec => []RowsOnGrid` |
| | `RowsAreDefinedTheorem` | `Spec => RowsAreDefined` |
| | `SoWithinTotalTheorem` | `Spec => SoWithinTotal` |

**`run_windows`.**  The assumptions: `NumWindows` a number, `Concurrency` any integer
(the code takes the maximum with 1), finitely many records, and `WindowsAssumption`: a
record of a later window is later than those of an earlier one, or is shared with it
at their common instant.  That is what `datetime_range` and inclusive requests give a
dataset whose rows are instants.

The argument.  None of the properties is inductive.  `OrderInv` says where the
caller is: the deque holds, in order, exactly the windows from the one after
those stored (or being written) up to `next - 1`; those are the windows that are
running, done or failed; `current` and `stored` agree with `pc`.  It gives the
types (the type of the deque needs the order) and `NoOrphanFetch` (a running
window is in a state the exit of the pool waits for).  `RowsInv` adds what a
result set is: a restriction of a revision of the feed not older than the one at
the start, in the window's records.  `LaterWindowWins` and `TableInv` (what the
stored windows hold is no older than at the start) are preserved by `Upsert` because it applies window
`stored + 1`.  `ResumeIsSafe` follows: a record not later than the watermark is in
a stored window, by the assumption on windows.  The refinement maps `stored` to
`applied` and the rows of the window at `pc = "mark"` to `due`; each step maps to
one abstract step or a stutter.  `MemoryIsBounded` needs `HeldInv` beside the order:
what is submitted is never more than `Workers` ahead of the current window, and no
window before that one is still held; so the windows that run or are held lie in an
interval, whose size bounds theirs.  `ResultIsExact` needs `CountInv`: at every moment
the totals are those of the windows `1 .. Counted`, and the rows of these windows do
not change any more, because the windows still running are later ones.  `StoredNeverRegresses` rests on `SerialInv`: neither
table nor result set is ahead of the feed, and with one worker the rows being written
were fetched after the last write, so that they are no older than the table.  The pooled
branch breaks the last part: rows in the deque are older than writes still to come.

**The bulk file.**  `HighWaterMarkIsComplete` is not inductive: an upsert preserves
it only if the batch continues what is stored.  `MarkInv` (what a process has read
as `MAX(ts)` hides nothing, now or later, since a stored row stays stored) and
`RowsInv` (below a row that a process holds, every row is held by it or stored)
make it so; they hold of each process alone, so overlapping refreshes do no harm.
`DownloadedOnce` rests on `DownloadInv`: until refreshes overlap one runs at a time,
sends what is cached, and caches nothing older than what was ever saved.

**The fuelinst watermark.**  `PositionInv` says where each job stands: before its
next window nothing since `origin` is missing, and the rows it holds continue what is
stored.  Either job may then move the watermark to its latest row, whatever the other
has done.  While there is no watermark, a job that begins beside others moves `origin`
up to its own start, so that the same holds of all of them; once there is one, `origin`
stays, and a job begins no later than the watermark.  That is the theorem's hypothesis
on backfills, which the run `fuelinst_gap` shows to be needed; the other condition is
`~exposed`.

**The aggregates of b1610.**  `RangeInv` orders the variables of a job: its last day
with rows is before its position and not after the end of its range.  With it
`NoDayGivenUp` is inductive: the refresh that `Mark` decides on reaches every day
stored so far that is under the floor, and a day that comes under the floor later
is shown by then or `exposed`.  `DoneMeansVisible` needs `DoneInv` of a backfill that
refreshes: its days up to `upTo` are shown by the aggregates refreshed so far, and so is
a later day that has left the reach since, as the policies ran before that midnight.
What is shown stays so: a prompt tick stores only days within reach, and there is one
backfill.

The invariants are proved of `Safety`, the specification without its fairness.  Every
step of `DailyRollup` is a step of the ingest or leaves its variables alone, so that
`DailySpec` implies `Safety`, and what holds of the one holds of the other.

**Upserts.**  `UpsertProofs` says of any specification whose steps are steps of Upsert:
what a session has written are rows of its batch that are to be written, and
all those before them (`Prefix`); no two sessions hold a lock on the same row
(`Exclusive`); and what is pending in a row that a session holds is what it wrote there
last (`InPlace`; the three are `Locking`).  At the commit it has written all of them, so
that what shows is the last row of each key, as merging the batch gives: the commit is
`Apply`, the writes stutter.  The kept rows of a merge have
different keys, hence no second time.  They are written in increasing order of the
keys, so that of the sessions in a ring of merges the one with the largest key
waits for a row with a larger key still: there is no such ring, for any number of
keys and any threshold.

**The rolling ticks.**  `NothingLeftBehind` speaks of the moment after a tick has
returned. What makes it inductive is `Covered` (a running tick has stored what was due
before its next window), `InBatch` (while it writes a window, its batch has what is
due in it, since an answer is complete) and `Clock`; a record that was due when the
tick began cannot be published for the first time later, and a stored row stays stored
whatever a backfill does.  Two ticks that began no more than `Behind - Lag` apart
leave no time between their ranges.  The assumptions are `HoursAssumption`,
`ValuesAssumption`, `RowsAssumption`, `CopyMinRowsAssumption` and `SessionsAssumption`
(one scheduler, one backfill).

**The dispatch series.**  The assumptions: the step and `Scale` are positive, segments
are finitely many and of positive length, `NaN` is not a number.  Levels are any
integers: a unit that imports has negative ones.

The loop of `_interp_segments` is a function defined by recursion over a data-dependent
order. `RecursionExists` says that such a function exists, and `InterpLast` and
`InterpNone`, by induction over the segments done, what it computes: at each instant
the level of the last segment of the order that covers it, or `NaN`.  An order that is
sorted by the columns has every segment of the data (`OrderHasAll`), so that no
segment that covers the instant is later than that one (`InterpValue`).  Hence
`LastIsInForce`: the value is one that `InForce` allows.

`RowsAreDefined` needs two more facts.  Of the segments that cover a step of the grid
which is not `missed`, those that have been read are those in the tables
(`ReadIsTables`, part of the invariant `SeriesInv`; an upsert changes it only at the steps
that the new segment, or one it replaces, covers: `OthersStay`); and reading
what touches the window loses nothing that covers a step of its grid (`ReadCovers`,
which needs the floored start: the grid begins before the window does).
`SoWithinTotal` rests on `SoIsAll`: where no unflagged acceptance is newer than every
flagged one, the last acceptance of either list has the same level, because both are
computed from one order.  In `TypeOK` the levels stay between the
lowest and the highest published one, because a ramp stays between its ends, and a flow
is at most their distance; that they are whole numbers rests on `Scale` being a
multiple of every length.  `RowsOnGrid` rests on the floored
start being a multiple of the step and the grid being closed under the step.

**Induction.**  The library's induction theorems take an operator as a parameter and
cannot be used with the installed provers.  `NaturalFacts` states what these proofs
need of them about sets and functions instead: a finite set of numbers has a least and
a greatest element, a set that holds 0 and is closed under successor up to `n` holds
`0 .. n`, and a function that starts at `base` and continues by `step` exists.

**Only model-checked** is liveness, which is out of TLAPS's reach: `Terminates`,
`CallsEnd`, `HeatmapCatchesUp`, `RowsArriveUnlessInterrupted` and
`EverySlotArrivesUnlessExposed`.  Every other property of a passing run is a theorem.

## 5. Where code and text disagree

1. **A pooled call can store an older revision over a newer one**
   (`pipeline_regress`).  `base.py` says pooling leaves "watermark and
   last-write-wins semantics unchanged".  Windows 1 and 2 are fetched at once and
   share a record; window 2's request is answered first, the feed revises the
   record, window 1's is answered with the revision; window 2 is written last.  The
   serial branch cannot do this (`pipeline_serial`).  A later poll repairs it if
   its window still reaches back.
2. **Constraints rows can stay away** (`constraints_lost`).  The validators are
   saved before the rows are; after a failure in between every refresh is answered
   304 until the next publication.
3. **A backfill can hide a gap** (`fuelinst_gap`).  A backfill sets the watermark to
   what it has loaded.  After downtime, a backfill of the last day moves it past
   the days in between, and ticks resume from there.
4. **A backfill that stops early leaves history hidden** (`b1610_lost`).  The days
   it has stored are older than the policies' reach and it refreshes the aggregates
   only at its end; resuming from the day it stopped at does not go back for them,
   although `backfill` is documented to refresh its own aggregates.  `NoDayGivenUp`
   shows that a failed job is one of only two ways to get there; the other is a day
   stored in the last half hour before it leaves the policies' reach.

No run is about the following, which modelling brought up.

* **How far apart ticks may be.**  `DATA_PIPELINE.md` (lines 65 and 66) says that each
  window is wider than an hourly tick, so the overlap holds.  `NothingLeftBehind` says
  by how much: ticks that return must begin within the reach less the delay of the
  feed (four hours less the delay); a longer outage leaves a hole that no later tick
  fills.
* **`refresh-caggs --to`** ends the refresh of the dispatch aggregates at `time.max`
  of the last day (`cli.py` lines 152 and 153).  The daily bucket of that day is not
  wholly inside such a window, so it is not refreshed; `materialize_dispatch` rounds
  its window up for this reason (`materialize.py` lines 118 to 123), the command does
  not.
* **`materialize-dispatch`** says it takes "only BMUs with BOA acceptances in the
  window" (`cli.py` line 100); `active_bmus` takes every BMU with a PN there
  (`materialize.py` lines 34 to 48).
* **The tail of the aggregates.**  `materialize_dispatch_daily` relies on real-time
  aggregation for what is not refreshed yet; no migration switches it on, and its
  default depends on the version of TimescaleDB.  `HeatmapCatchesUp` does not rely on
  it.

Two more things a reader of the dispatch tables should know.  `so_curtailment_mw` is
computed from the flagged acceptances alone, so one that a newer, unflagged
acceptance has superseded still counts, and it may exceed `boa_curtailment_mw`;
`SoWithinTotal` holds only where the acceptance in force is flagged.  And where an
acceptance is stored and the plan is not (yet), the flows of the row are NaN, not
NULL.

A feed that falls more than a slot short of an inner window's end while a tick of
several windows runs also leaves a hole below the watermark; `exposed` marks
these behaviours, and the properties of the `fuelinst` run show that it is, with
the gap above, the only way.

## 6. Not modelled

What is left out, and why.

* **The dispatch aggregates and their half of the roll-up.**  `materialize_dispatch`
  refreshes three aggregates after its upserts by the `refresh_caggs` that B1610Caggs
  has statement by statement.  A model of both sides of the roll-up together is beyond
  what TLC can finish.
* **The process pool of `materialize_dispatch`.**  The chunks of BMUs are disjoint, so
  the order of their upserts does not show.  What a failed call has left is computed
  again by the next turn that covers it, six hours back.
* **`system_prices`.**  Its tick (yesterday and today) goes through `run_windows` as
  modelled, and derives its watermark as b1610 does; it has no aggregates.
* **The shared thread pool.**  The eight loops run on asyncio's default pool, which
  has at least five threads.  Each loop is an actor that may begin a turn at any time
  after its last one, which includes waiting for a thread; that a thread gets free is
  `CallsEnd`, `Terminates`.  That this takes finitely long rests on the client's
  timeouts.
* **Migrations** (`migrate`).  Order, bookkeeping and the lock are yoyo's.  The three
  migrations that run outside a transaction (0009, 0010 and 0012) are written so that
  they can be applied again from the start.  The schema is used where it decides something: conflict keys,
  aggregates, policies.
* **The serving functions** `dispatch_series` and `b1610_series`.  Queries without
  state; the mapping of settlement periods on the days the clock changes is arithmetic
  of time zones inside PostgreSQL, which a model could only assume.
* **`refresh-caggs` by hand.**  A third caller of `refresh_caggs`; it can only show
  more than the policies do (but see section 5).
* **The HTTP client's pauses, `extract_data`, and the fields of `endpoints.py`.**  The
  length of a pause changes no order that is not possible anyway; the translation of a
  JSON row is a total function without state.
* **Constraint files that change old periods.**  `_parse_ts`, skipped rows and a
  correction of an old period are not in ConstraintsFeed: rows at or below `MAX(ts)`
  are dropped by intent, so that a late correction never arrives.
* **`config.py`, the rest of `cli.py`, dashboards, packaging, benchmarks, notebooks
  and CSV data**: no logic whose steps could interleave or fail half-way.

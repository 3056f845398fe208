# Verification of WeatherAPI

TLA+ models of the two services of this repository, the TLC runs that check
them on small instances, and TLAPS proofs about both cycles, the pipeline they
form, the rules, the locations, the lists, the readings and the process around
them, for every value of the constants.

- [1 The system](#1-the-system)
- [2 The modules](#2-the-modules)
- [3 The runs](#3-the-runs)
- [4 Where the code and the documents disagree](#4-where-the-code-and-the-documents-disagree)
- [5 The proofs](#5-the-proofs)
- [6 What is not modelled](#6-what-is-not-modelled)
- [7 Plan](#7-plan)

## 1 The system

Two FastAPI services, each with its own PostgreSQL schema and no shared
table. The only link is one HTTP request: the processing-service polls
`GET /api/v1/observations?since=...&limit=100&offset=0`.

| Component | State | Operations | Talks to |
| --- | --- | --- | --- |
| ingestion cycle (`ingest_observations.py`, `main.py`) | one session, one transaction | `execute`, by the background task every 900 s or by `POST /observations/ingest` | locations, adapter, raw store |
| Open-Meteo adapter | none | `fetch_current`: one observation, an empty list, or an exception | Open-Meteo |
| raw observation store | `raw_observations`, unique `(location_id, observed_at)` | `save_many` (ON CONFLICT DO NOTHING), `list`, `count` | PostgreSQL |
| location management | `locations`, `is_active` | create, update, soft delete | PostgreSQL |
| processing cycle (`process_observations.py`, `main.py`) | one session, one transaction | `execute`, by the background task every 300 s or by `POST /process` | client, all stores of its schema |
| ingestion HTTP client | a shared `httpx.AsyncClient`, 10 s timeout | `get_observations`: a page, or `[]` after an HTTP error | ingestion-service |
| watermark store | one row per source | `get`, `upsert` (ON CONFLICT DO UPDATE) | PostgreSQL |
| processed observations | unique `raw_observation_id` | `save`, `list`, `count` | PostgreSQL |
| rules | `processing_rules` | create, update, delete, `list_active` | PostgreSQL |
| alerts | foreign keys to a rule and a processed observation | `save`, `list`, `acknowledge` | PostgreSQL |
| rule engine, metrics | none | `evaluate_rules`, `compute_severity_score`, derived metrics | - |
| lists | none | alerts, processed and raw observations, by page, with a total | PostgreSQL |
| process (`main.py`, `database.py`, `dependencies.py`) | engine with a pool of 5 + 5 connections, the loop's task | lifespan, one session per request or cycle, `require_api_key` | everything above |
| migrations (`alembic/`) | the tables, `alembic_version` | `upgrade`, `downgrade`, by hand, beside the service | PostgreSQL |

What is hard in it:

- **Overlap.** Nothing keeps a manual trigger from running while the
  background task does, or two triggers from running together. Overlapping
  cycles meet in unique indexes, row locks and foreign keys: they wait for each
  other, deadlock, and are failed by the server.
- **Errors inside a transaction.** Both `execute` methods catch errors inside
  their loop and go on, as if the items were independent. They are not: after a
  failed flush the session has rolled back and refuses all further work
  (processing), and after a failed statement PostgreSQL has aborted the
  transaction, whose COMMIT is then silently a ROLLBACK (ingestion).
- **Two clocks.** `ingested_at` is `now()`, the start of the ingesting
  transaction; the order in which rows become visible is that of the commits.
  The watermark relies on the two orders agreeing.
- **Stale reads.** The watermark and the rules are read once per cycle and used
  many awaits later. `PUT` reads its row twice, without a lock, and writes the
  differences between what it made of the first reading and the second.
- **Local time.** `observed_at` is the station's local time labelled UTC, and part
  of the unique key that makes ingestion idempotent.
- **Results before their COMMIT.** Both `execute` methods return, the loop logs, and
  FastAPI may answer, before `session.begin()` commits; the COMMIT may still fail.
- **Sessions that outlive their request.** `get_session` iterates over
  `get_db_session`; when the endpoint raises, the inner generator is not closed
  with it. The error is answered while the transaction, its locks and its
  connection are still there.
- **Migrations beside a running service.** `alembic` runs in a process of its own,
  perhaps twice at once, against tables that open transactions use.
- **Lists in pieces.** A page and its total are two statements, and a client
  walks the pages by offset while the rows move.

For each component, what makes it correct:

- ingestion: one row per observation; a group of rows with one stamp becomes
  visible at once; the report of a cycle that has no errors and commits is true;
  cycles end.
- processing: exactly-once effect per raw row; score, alerts and watermark are
  committed together or not at all; the watermark speaks only for processed
  rows; references are intact; the result of a cycle is exact or, when its COMMIT
  fails, void; cycles end.
- locations and rules: an update changes what it names and nothing else; a
  deleted rule stays deleted, and is not deleted while an alert refers to it.
- the lists: the total covers the page; a client that reads the pages in turn
  sees every row.
- readings: rules and metrics decide at their boundaries.
- the process: a request that fails before its COMMIT changes nothing; nobody waits
  for the pool forever; the loop survives its errors; shutdown ends, and disposes of
  an engine that no cycle and no running request uses.
- migrations: the tables are all there or none; a migration ends.
- the pipeline: no row is skipped; the watermark does not go back; every stored
  row is processed in the end.

## 2 The modules

`Ingestion` - `Processing` - `Pipeline` are the detailed models;
`ObservationLog` is the abstract specification of the processing-service;
`ProcessingInvariant` holds its inductive invariant. `RowUpdate` is shared by
`Locations` and `Rules`. `Listing`, `Readings` and `Deployment` look at one aspect
each, of both services. `X_proofs` has the proofs about `X` (`Processing_proofs`
those about `ProcessingReports` as well). Each `MC...` module only gives names to
small sets for TLC.

### Ingestion

A session (`Ingester`) runs `execute`. `Begin` is the start of the transaction
and `list_all(active_only=True)`; it fixes `began`, the value of `now()` for every
row of the cycle. `FetchOne`, `FetchNone` and `FetchRaises` are the outcomes of
`fetch_current` for one location of `queue`; an observation is a pair of a location
and an `observed_at` label. `Insert` is `save_many`, which waits (`WaitsFor`) for
an open transaction that inserted the same key, and counts the rows inserted.
`InsertBreaks` is a server error: `execute` catches it and goes on with a
transaction that is `doomed`, `InsertRefused` is what later inserts meet, and
`Commit` of such a cycle stores nothing. `execute` has returned its report before
that COMMIT; `CleanReport` speaks of the step in which it succeeds, and a COMMIT that
fails is an `Abort`, which stores nothing, whatever the report says. `DeadlockVictim` is PostgreSQL ending a
circle of waits; `Abort` is a crash or cancellation anywhere.
`ActivateLocation` and `DeleteLocation` are what the location endpoints do to
the set the next cycle reads.

### Processing

A session (`Processor`) runs `execute`; `pc` names the await at which it stands:

| `pc` | waiting in | left by |
| --- | --- | --- |
| `idle` | - | `ReadWatermark` |
| `polling` | `get_observations` | `Poll`, `PollNothing`, `PollFails` |
| `listing` | `list_active` | `ListRules` |
| `saving` | `_obs_repo.save` of the next row | `SaveObservation`, `ObservationRejected`, `UpsertWatermark` when no row is left |
| `alerting` | `_alert_repo.save` of the row's matches | `SaveAlert`, `AlertRejected`, `FinishObservation` |
| `failed` | the loop of a rolled-back session | `EndFailed` |
| `committing` | COMMIT, with the watermark row locked | `Commit` |

`FlushBreaks` (any other error of a flush), `DeadlockVictim` and `Abort` may
happen wherever the code can meet them. `staged`, `newAlerts` and `newMark` are
what the session has written and nobody else sees; a waiting INSERT sees it only
through the unique index (`Free`). `Pages` is the query of the list endpoint:
rows strictly newer than `since`, ordered by stamp alone, so that any rows of the
last stamp may be the ones the limit leaves out. A rule is its severity score
while active and 0 otherwise, which is all the cycle reads of it besides its
condition; which observations meet which condition is the constant `Breaches`.
`Ingested` is the ingestion-service as this module sees it.

### ProcessingReports

`Processing` with the counters of `execute` and the `ProcessResultDTO` it returns:
`RNext` is `Next` of `Processing` with each step extended by what it counts
(`CountAlerts`, `CountErrors`) and returns. `ReturnUncommitted` is the return after the
upsert, the last await of `execute`, with the transaction still open; `End` is the
COMMIT that follows, or its failure or a crash at any time. `ReturnFailed` is the end
of a cycle whose session has rolled back: whether it returns a result depends on
`new_watermark_ts`, with which the upsert raises on the closed transaction.
`ReturnNothing` is a page without rows. A result stays in `result` until the next
cycle begins (`Start`), and `ReportExact` compares it with what the end of the session
leaves in the tables: it is exact, or it was returned before a COMMIT that failed
and is void as a whole.

### ObservationLog

What a client may rely on: rows are published; a batch of them is consumed at
once, with its alerts, and the mark becomes the newest stamp of the batch.
`Processing` implements it under the refinement mapping
`raw <- rows, mark <- watermark, done <- Processed, raised <- alerts`: of all the
steps of a cycle only `Commit` is seen. The log says nothing about *which* rows
are consumed; that needs the ingestion-service and is said by `Pipeline`.

### Pipeline

Instantiates `Ingestion` and `Processing` over the same `rows`. It shows that
`Ingestion` is an environment `Processing` allows (`ImplementsProcessing`: whole
tie groups, fresh stamps, observations not stored before), so what is proved of
`Processing` holds in the pipeline, and states the properties of the whole.

### RowUpdate

What `PUT` does to the columns of a row, in both services: the fields the body
names are laid over an entity (`Over`), and the flush sends the columns in which
the assigned entity differs from the loaded model (`Changes`). A column has two
values, which is enough for "changed" and "not changed"; `is_active` is always
one of the columns.

### Locations

A request (`Request`) is a session with one READ COMMITTED transaction. `Get` is
`get_by_id`, `Select` the second reading in `update` or `soft_delete`, `Flush` the
UPDATE, which waits for the row lock (`RowFree`) and is applied to the newest
committed row, and `Commit` the end of `session.begin()`; `Abort` is a rollback
anywhere. The second reading is really a new one: the model of the first is
referenced by nobody once `get_by_id` has copied it, and the identity map of the
session holds it weakly. `updated_at` is not a column of the model, but it is the
reason that a flush always sends an UPDATE.

### Rules

The same for rules, whose `DELETE` removes the row, so that a request can find
the row gone before its SELECT (`SelectRaises`: `scalar_one`) or when its statement
gets the row (`FlushRaises`: `StaleDataError`; `FlushDeleteMisses`: only a warning).
Of the cycles of the processing-service it keeps the foreign key: an uncommitted
alert holds a share lock on its rule (`pending`), a committed one makes DELETE
fail (`FlushDeleteRaises`). `Processing` has these edits as atomic actions;
`Rules` is where they are taken apart, and `EditsAreAtomic` says that taking them
apart changes nothing: under the mapping that makes a rule its severity score
while it is active (`ScoreOf`) and an alert the rule it refers to, every step of
`Rules` that touches the rules is a step of `RuleNext` of `Processing`. Both values of
the column `severity` are scores; the instance TLC checks has this column and
`is_active`.

### Listing

A client reads one of the three lists page by page: alerts (filtered by severity
or `acknowledged`, newest first), processed observations (by location, newest
first), raw observations (by location or `since`, oldest first). `List` and `Count`
are the two statements of one request, `Take` the client's step to the next page.
`Pages` is ORDER BY one stamp, LIMIT and OFFSET, with every order of tied rows
possible; `CycleCommits` gives all rows of a cycle one stamp, that of its
beginning, so later commits may have earlier stamps. A filter by severity or by
location is a set of rows (`Chosen`). `expected` and `seen` are history variables.

### Readings

One reading of a station. `Ingest` is `fetch_current` and `save_many`: whatever the block
`current` holds is stored. `Process` computes the metrics and evaluates the active
rules. Values are integers, tenths of the code's units, so that the bounds (27 C, 40 %,
10 C, 4.8 km/h) and thresholds are exact; a value that may be None is a set of at
most one number. The two regressions are constants: nothing that is stated depends
on what they compute.

### Deployment

One of the two services as a process; the instance is the ingestion-service, and
the processing-service differs in its tables, its routes and `Guarded` (the
statements whose errors `execute` catches). A unit of work (`User`) is a request or
the loop's cycle:

| `pc` | meaning | left by |
| --- | --- | --- |
| `idle` | no request, or the loop's sleep | `Begin`, `Refuse` (`require_api_key`) |
| `waiting` | for a connection of the pool | `Checkout`, `CheckoutTimesOut` |
| `working` | through the tables of its route | `UseTable`, `NoTable`, `StatementBreaks`, `NotFound`, `WorkVictim` |
| `returned` | the endpoint has returned, the transaction is open | `AnswersEarly`, `Commit`, `CommitFails` |
| `orphan` | a request has been answered with an error and left its session open | `Collected` |
| `cancelled` | the loop's task has been cancelled, its session is still open | `RollBackLoop` |
| `ended` | the loop's task is over | a restart |

An answer is `ok`, `error`, or `unclear`: the error of a COMMIT, which the server
may have applied before the connection was lost (`CommitFails`). `AnswersEarly` may
precede `Commit`, because `requirements.txt` asks for FastAPI 0.115 or later, and
versions differ in whether dependencies end before the response is sent. `Lifespan`
is `Start`, `Stop` (SIGTERM), `CancelLoop` (`scheduler_task.cancel()` when no
request is left), `RollBackLoop` (CancelledError leaves the session of the cycle),
`LoopAwaited` (the await of the task ends), `Dispose` and `Crash`. A migrator runs
`upgrade` or `downgrade` in one transaction, as `env.py` does; `DropTable` waits for
the transactions that use its table, they queue behind it, and PostgreSQL ends a
circle (`Deadlock`). What a unit of work reads and writes is left to the other
modules: here it commits or it does not.

Definitions headed "Seeded bug" are not part of the models. Each is a mutated
form of the definition it stands before, a bug one could plausibly write in
that code; replacing the definition by it makes TLC find a named property
violated, which shows that the property says something about the code.

## 3 The runs

| Run | Instance | Properties | States | What it shows |
| --- | --- | --- | --- | --- |
| `ingestion` | 2 locations, 2 labels, 2 sessions, 3 cycles | `OneRowPerKey`, `OneRowPerStamp`, `TieGroupComplete`, `CleanReport`, `CycleEnds` | 341 208 | overlap, waits, deadlock, aborted transactions and crashes never store an observation twice, split a group in time or make a clean report lie; opposite insertion orders end by the deadlock detector |
| `processing` | 2 observations, 2 stamps, 1 rule of severity 2 or 10, 2 sessions, page of 2 | `ExactlyOnce`, `WatermarkJustified`, `ScoreMatchesAlerts`, `NoOrphanAlert`, `IInv`, `PageAtomic`, `ImplementsLog`, `ReportExact`, `CycleEnds` | 102 387 | the processing-service by itself, with a rule created, edited, deleted, and every failure, that of the COMMIT after the result among them; its results are exact or void; no cycle is stuck |
| `pipeline_backlog` | 1 location, 2 labels, 1 ingester, 2 cycles, 1 rule, 2 processors, page of 1, 2 faults | `WatermarkExact`, `ImplementsProcessing`, `WatermarkMonotone`, `EventuallyProcessed` | 98 280 | a backlog longer than a page; the rows at or below the watermark are the processed ones; every stored row is processed after finitely many faults |
| `locations` | 1 location, 2 columns, 2 requests | `QuietUpdate`, `UnnamedKept`, `NamedTakesEffect`, `RequestEnds` | 73 285 | overlapping PUT and DELETE of one row: what an update may lose, and when; waiting for the row ends |
| `rules` | 1 rule, 2 columns, 2 requests, 1 cycle | `AlertsKeepRules`, `DeletedStaysDeleted`, `UnnamedKept`, `EditsAreAtomic`, `UpdateEnds` | 254 018 | PUT, DELETE and alerts of the same rule in every order; what requests do to the rules is a sequence of single edits; a PUT ends, also when its rule goes |
| `listing` | 4 rows, 3 stamps, cycles of up to 2 rows, pages of 1, 1 client, every list and filter | `TotalCoversPage`, `WalkComplete` | 1 723 280 | pages read while rows are committed and alerts acknowledged |
| `readings` | the values at both sides of each bound, 6 rules | `OppositesDecide` | 2 926 | every boundary of rules and metrics |
| `deployment` | 2 tables, 3 endpoints, 1 client and the loop, pool of 1, 2 migrators | `TypeOK`, `FailureChangesNothing`, `SchemaWhole`, `DisposedUnused`, `WorkEnds`, `MigrationEnds`, `StopEnds`, `LoopGoesOn` | 13 730 | the process with its pool, its errors, its end, and migrations beside it |
| `pipeline_overlap`, `pipeline_split`, `pipeline_regress`, `locations_partial` | see section 4 | one each | | violations |

`IInv` contains the type invariant of `Processing`. That of `Deployment` has the bound of
the pool. The others, of `Ingestion`, `Locations`, `Rules`, `Readings` and `Listing`, are
theorems only.

**Bounds.** Two sessions are enough for every conflict in the code: waits are
pairwise, and a circle of waits closes with two. Two locations give two keys
inserted in opposite orders, and a tie group that a page of one splits. Two
stamps give a backlog behind a page of one. `MaxClock` bounds the number of
ingestion cycles (after that the system goes on without new rows, so deadlock
checking stays on everywhere: reading the watermark is always possible);
`MaxFaults` bounds the faults the cycles of the processing-service meet in a
pipeline run and is 2, so that a fault may follow a fault; in the run of
`Processing` itself faults are not bounded. `BatchLimit` stands for 100.
In `listing`, pages of one and four rows give a walk over five requests; pairs of
rows are the ties. In `rules` and `locations` every id is created once. Locations
do not interact, nor do rules, so one is enough; it has two columns, so that a PUT
can name one while another request changes the other. In `readings` every value at
and next to a bound occurs. In `deployment` a pool
of one makes every second unit of work wait; two migrators give every overlap of
`upgrade` and `downgrade`. Symmetry is used in
`listing` only, a safety run.

**Fairness.** A cycle that has begun goes on: its awaits are an HTTP request with
a 10 s timeout, statements, and lock waits that end when the holder ends or the
deadlock detector (1 s) fails one of the waiters. For `Processing` it is strong,
since a session that keeps failing and returning must not overtake forever one
that waits for its lock: PostgreSQL wakes the waiter when the holder ends. No
cycle must begin, except those of the processing background task in `Pipeline`,
whose loop catches every error, sleeps and starts again. Requests that have begun
go on; the flush of a location and the steps of a request on a rule have strong
fairness, since waiters get a row lock in turn. A DELETE of a rule waits for the
share locks of uncommitted alerts as well, and nothing keeps cycle after cycle
from overlapping with it; so `UpdateEnds` speaks of PUTs only. Nothing is assumed
of faults, of the beginning of requests, and of the ingestion-service.
In `Deployment` the pool and the locks serve those that wait in turn (strong
fairness of `Checkout`, of the steps of a unit of work and of a migration), a
generator that was left behind is collected, the loop's sleep ends, its cancellation
goes on to the end of the task, and the deadlock detector acts. No time-out is relied on, neither that of the pool nor a
crash or a restart: that everyone gets on without them is what `WorkEnds` says. No
migration must begin.

## 4 Where the code and the documents disagree

Each is a run in which TLC must find the property violated.

1. `pipeline_overlap`: two ingestion cycles overlap and the one with the older
   stamp commits last. Its rows appear below the watermark and are never asked
   for. ADR 0011 line 11: "never skip an observation"; `overview.md` line 221
   calls overlapping manual ingestion safe.
2. `pipeline_split`: a page ends inside a group of equal stamps. All rows of an
   ingestion cycle have one stamp, so 101 active locations are enough. ADR 0011
   line 47 says the service loops through pages until an empty one; the code
   asks for one page per cycle, and the next one strictly after the watermark.
3. `pipeline_regress`: `upsert` overwrites the watermark with whatever the last
   committer saw. Once it has gone back behind processed rows, the first row of
   every page is refused by the unique constraint, the session rolls back, and
   no later cycle gets anywhere. It takes two overlapping cycles that were sent
   different rows of one group, so again a split group.
4. `locations_partial`: `PUT /locations/{id}` with one field puts back another one
   that changed between its two reads. The demo collection (line 324) describes
   the request as partial, keeping the fields that are not sent. With
   `is_active` it undoes a soft delete that was answered 204.

What remains true is stated by `QuietUpdate`, `UnnamedKept` and `NamedTakesEffect`:
undisturbed, an update is exact; an unnamed column can be lost only if it changed
between the two reads; and a named one gets its value, unless the second reading
found that value already, so that it was left out of the UPDATE, and another request
has changed it since. One more thing the models do that a reader may not expect, and
that no property denies: of two requests that delete one rule, both may be answered 204
(`FlushDeleteMisses`).

`pipeline_backlog` shows the other side: with one ingestion cycle at a time and
groups that fit their page, nothing is skipped and everything is processed,
whatever the processors do. Section 5 proves the first half for all instances.

Documents that disagree with the code in ways that no run is needed for:

- `README.md` lines 244-249 say that `docker compose up` runs the migrations. The
  Dockerfiles start only `uvicorn`, and compose runs no `alembic`. `LoopGoesOn` is
  why that does no lasting harm.
- `docs/architecture/overview.md` line 669 says `env.py` sets `search_path` to the
  service's schema; it only sets `version_table_schema`, with `include_schemas`.
- `overview.md` line 66 (FR-2) has every raw observation persisted, and lines 221 and
  380 have ON CONFLICT DO NOTHING drop duplicates only. `current.time` is the local time
  of the location, and `open_meteo_adapter.py` line 50 labels it UTC. When the clocks are
  set back, the observations of the hour that comes twice have the labels of the hour
  before, and are dropped as duplicates. (`Ingestion` takes the label for the identity of
  the observation, as the table does.)
- `overview.md` line 408 has CHECK (0..10) on `severity_score`; neither the model nor
  the migration has it. (The scores are 0, 2, 5, 7, 10 all the same.)
- `overview.md` line 687 says that a middleware validates the API key; each write
  endpoint depends on `require_api_key`.
- `docs/WeatherAPI_Demo.postman_collection.json` lines 76 and 105 say that `/health`
  verifies PostgreSQL, which it never does, and line 734 that `severity_score`
  accumulates the matches, of which it is the highest.

## 5 The proofs

Every safety property that a passing run checks on a small instance, invariant or
action property, is proved here for every value of the constants, and so are the
two refinements of one service, `Processing` to `ObservationLog` and `Rules` to
`Processing`, and those of the pipeline to its parts.

`Processing_proofs` proves, for all sets of observations, stamps, rules,
sessions and every page limit, from the named assumptions of `Processing` (stamps
are positive naturals, scores are those of `_SEVERITY_SCORE`):

| Theorem | Says |
| --- | --- |
| `Invariant`, `TypeCorrect` | `Spec => []IInv`, `Spec => []TypeOK` |
| `NoDuplicate` | `Spec => []ExactlyOnce` |
| `WatermarkNotAhead` | `Spec => []WatermarkJustified` |
| `ScoreAgrees` | `Spec => []ScoreMatchesAlerts` |
| `AlertsHaveParents` | `Spec => []NoOrphanAlert` |
| `CyclesAreAtomic` | `Spec => PageAtomic` |
| `ProcessingImplementsLog` | `Spec => ImplementsLog` |

It names the two conditions under which the watermark passes over nothing,
`StampsOrdered` (a row that appears is newer than every other) and `GroupsWhole` (no
page is cut inside a group of equal stamps); the first alone keeps it from passing
over a group as a whole. Then it goes on to the results of the cycles (`RSpec` is the
specification of `ProcessingReports`):

| Theorem | Says |
| --- | --- |
| `GroupsAreBegun` | `Spec /\ StampsOrdered => []GroupsBegun` |
| `NothingSkipped` | `Spec /\ StampsOrdered /\ []GroupsWhole => []NeverSkipped` |
| `WatermarkIsExact` | `Spec /\ StampsOrdered /\ []GroupsWhole => []WatermarkExact` |
| `WatermarkAdvances` | `Spec /\ StampsOrdered /\ []GroupsWhole => WatermarkMonotone` |
| `CountingIsPassive` | `RSpec => Spec`: what is proved of `Processing` holds with the counters |
| `CountsInvariant` | `RSpec => [](IInv /\ CountInv /\ ResultInv)` |
| `ReportsAreExact` | `RSpec => ReportExact` |

`Ingestion_proofs`, for all sets of locations, labels and sessions:

| Theorem | Says |
| --- | --- |
| `IngestionInvariant`, `IngestionTyped` | `Spec => []IngestionInv`, `Spec => []TypeOK` |
| `StoredOnce`, `StampOfOneCycle` | `Spec => []OneRowPerKey`, `Spec => []OneRowPerStamp` |
| `GroupsAppearWhole` | `Spec => TieGroupComplete` |
| `CleanReportsAreTrue` | `Spec => CleanReport` |
| `SoloOrdersStamps` | one ingester: rows appear in the order of their stamps |

`Pipeline_proofs` puts them together:

| Theorem | Says |
| --- | --- |
| `PipelineIngests` | `Spec => I!Spec`: what is proved of `Ingestion` holds in the pipeline |
| `PipelineProcesses` | `Spec => ImplementsProcessing`: and so does what is proved of `Processing` |
| `PipelineKeepsPromises` | with any number of ingesters and processors: `OneRowPerKey`, `ExactlyOnce`, `ScoreMatchesAlerts`, `NoOrphanAlert` and `WatermarkJustified` |
| `OneIngesterBeginsGroups` | one ingester: `Spec => []GroupsBegun` |
| `OneIngesterSkipsNothing` | one ingester: `Spec /\ []P!GroupsWhole => []NeverSkipped` |
| `OneLocationSkipsNothing` | one ingester, one location: `Spec => []NeverSkipped` |
| `OneLocationIsExact` | one ingester, one location: `Spec => []WatermarkExact` |
| `OneLocationAdvances` | one ingester, one location: `Spec => WatermarkMonotone` |

The assumptions of the last five are what the runs `pipeline_overlap`,
`pipeline_split` and `pipeline_regress` violate. `OneIngesterBeginsGroups` is what is left
with several locations: a page may cut a group and lose rows of it, but never a whole
group. (The runs do not check `GroupsBegun` by itself, since `WatermarkExact` implies it.
It passes as well on an instance like that of `pipeline_split` with two labels, two
cycles, two processors, a page of two and a fault, 432 880 states, where `NeverSkipped`
fails.)

`Locations_proofs` and `Rules_proofs` prove, for all sets of columns, rows,
requests and cycles, from `ColumnAssumption` alone:

| Theorem | Says |
| --- | --- |
| `LocationsInvariant`, `LocationsTyped` | `Spec => []LocationsInv`, `Spec => []TypeOK` |
| `QuietUpdatesAreExact` | `Spec => QuietUpdate` |
| `LossesAreConfined` | `Spec => UnnamedKept` (locations) |
| `NamedColumnsAreSet` | `Spec => NamedTakesEffect` |
| `RulesInvariant`, `RulesTyped` | `Spec => []RulesInv`, `Spec => []TypeOK` |
| `RulesOfAlertsStay` | `Spec => []AlertsKeepRules` |
| `NoResurrection` | `Spec => DeletedStaysDeleted` |
| `RuleLossesAreConfined` | `Spec => UnnamedKept` (rules) |
| `RequestsAreAtomic` | `Spec => EditsAreAtomic`: the refinement to the edits of `Processing` |

`Listing_proofs`, for every finite set of rows, all readers and page sizes;
`Readings_proofs`, for all values, formulas and rules;
`Deployment_proofs`, for all requests, migrators, tables, routes and pools:

| Theorem | Says |
| --- | --- |
| `ListingInvariant`, `ListingTyped` | `Spec => []ListingInv`, `Spec => []TypeOK` |
| `TotalsCover` | `Spec => []TotalCoversPage` |
| `WalksAreComplete` | `Spec => []WalkComplete` |
| `OneOfTwoOpposites` | `Spec => []OppositesDecide` |
| `CorrectionsApart`, `ReadingsTyped` | `Spec => []OneCorrection`, `Spec => []TypeOK` |
| `FailuresChangeNothing` | `Spec => []FailureChangesNothing` |
| `SchemaStaysWhole` | `Spec => []SchemaWhole` |
| `EngineUnused` | `Spec => []DisposedUnused` |
| `DeploymentTyped` | `Spec => []TypeOK`, with the bound of the pool |

**Why the invariant of `Processing` is strengthened.** The safety properties speak of the tables,
which change only in `Commit`, and a commit is right because of what its session
has collected over many steps. `IInv` adds that: `Flushed` (one staged row for
each row dealt with), `Marked` (the mark is the newest stamp of the rows
finished), `Alerted` and `Scored` (each match counted in a score is an alert or is
still to be saved for the current row, with the severity of the snapshot),
`Exclusive` (two sessions never hold one key, and a held key is not in the
table: the unique index), and `Tables`. `NoOrphanAlert` needs `Alerted`: the rules
of uncommitted alerts are still there because their deletion waits.

**The watermark.** `BegunInv` adds to `IInv` that of every group up to a session's
`since` some row is processed (`Behind`), as of every group up to the watermark, and
that its page is a prefix of what is newer (`Prefix`): a commit then moves the
watermark over its own page, the groups that the page begins, and groups that were
begun before. With whole groups in every page the rows of a group are processed
together (`GroupsTogether`), so that a group that has begun is finished, and a commit
moves the watermark forward, because the rows of its page were not processed before.
That it moves forward is also why nothing that is processed is ever beyond it
(`NothingBeyond`). `SkipInv` is the three together.

**The results of a cycle.** The counters know nothing of the transaction. `CountInv`
ties them to what the session holds: `total_alerts` is the number of flushed alerts
of the rows the loop has left behind (`Settled`), and of the current row exactly
the matches not yet saved lack their alert (`Matching`). Of a session that has
rolled back it says something only if no row had been finished, and that is the
only one of which `execute` returns the counters. Counting needs finite pages: the
LIMIT of the query makes them so (`Pages`). `ResultInv` carries the counters across the
return: what a session with an open transaction has returned is what its counters
say, and a session that has not returned has no result. `IngestionInv` adds to the tables what
open sessions hold: a cycle visits a location once (`OnceEach`), stamps and
uncommitted keys belong to one session (`Apart`), and are not in the table
(`Fresh`); without these a commit could repeat a key or a stamp.
`CleanReportsAreTrue` adds that `total_stored` of a session without errors is the
number of keys it holds.

**Rules and locations.** A flushed update fits its row (`PendingFitsTable`): a commit sets
what was flushed and finds the other columns as they were. A commit keeps that of
another request fitting only because there is no such request: the invariants add that at
most one request has written a row (`OneWriter`, `OneHolder`: the row lock), and that
requests only speak of rows that were inserted (`PlacesRegistered`, `PlacesCreated`),
since a new row must not appear under a flushed update. `RulesInv` also has
`DeletionSafe`: a rule whose deletion has been flushed has no alert, committed or
not. `AlertsKeepRules` needs it at the commit of the deletion, and so does the
refinement, since the DELETE of `Processing` looks at the alerts at that moment. The
refinement also needs `PendingFitsTable`: a PUT edits a rule that is there when it
commits, not only when it was read.

**The lists.** `ListingInv` says where the rows are that a client has not seen: a row
with a stamp of its own that it expects lies at or behind its offset, because at
least that many rows come before it in every order that respects the stamps
(`Reachable`), and commits only add to those. (A list filtered by
`unacknowledged` loses rows, and neither property is claimed of it.) That the row,
if it is not on the page, is behind the page is an argument about cardinalities of
the sets that `Pages` speaks of.

**The process.** `RequestsInv` adds to `FailureChangesNothing` that a request that has not
ended has committed nothing, an orphaned session included (`OpenUncommitted`), and
that one still on its way has not been answered with an error (`OpenUnfailed`).
`EngineUnused` rests on `Closing`: from the cancellation of the loop on there are no
requests but orphans, none begins, and the loop's task is cancelled or over.
`DeploymentInv` bounds
the connections that are out. They are counted as a set (`Connections`), so that
returning some is a subset and checking one out is a new element; that one who
waits for a connection holds none is part of it (`Progress`).

**Layout of `Processing_proofs`.** Lemmas about the operators; frame lemmas (`SessionFrame`,
`StoredFrame`, `ExclusiveFrame`) for what a step leaves alone; one lemma per
action; then the theorems. `MoveKeepsInvariant` reduces a step that changes no
table to the moving session. The refinement rests on `OnlyCommitsShow` and
`CommitConsumesPage`. The part about the watermark and that about the counters follow,
each with its invariant, what others do to it, and one lemma per kind of step.

**Model-checked only.** All liveness (`CycleEnds`, `EventuallyProcessed`, `RequestEnds`,
`UpdateEnds`, `WorkEnds`, `MigrationEnds`, `StopEnds`, `LoopGoesOn`): liveness under
fairness is beyond the prover.

## 6 What is not modelled

- The regressions of heat index and wind chill and floating point: values are
  tenths, formulas are constants. Messages of alerts, and the wording of results.
- Requests for one row by id and the list of locations: one read, no state.
- `Processing` and `Ingestion` see the edits of rules and locations as atomic
  actions, and evaluate rules by a constant; these are taken apart in `Rules`,
  `Locations` and `Readings`. `Rules` is shown to implement the actions of `Processing`
  (section 5), but no module runs them interleaved with whole cycles.
- Malformed items in a page (the endpoint's DTO always has the fields the client
  reads), the validation of bodies, `acknowledged_at`.
- The wall-clock label of an observation, and with it the hour that is lost when clocks
  are set back (section 4).
- An error of the rollback while the loop is being cancelled: it would replace the
  CancelledError, be caught by the loop, and leave the await of the task waiting.
- Health endpoints and settings: stateless; the settings that matter are
  constants.
- Images, compose files and offline migrations (`alembic --sql`): declarative, or
  only text.
- Intervals and the order of wall-clock times: a cycle may begin at any time.

## 7 Plan

Done: `Ingestion`, `Processing`, `ObservationLog` and `Pipeline`; `RowUpdate`, `Rules` and
`Locations`; `Listing`; `Readings`; the results of the cycles; the process, its pool
and its migrations; the proofs of section 5, which cover every safety property of the
runs, with the composition of the two services, the conditions under which nothing
is skipped, and the refinement of the rules.

Left, in this order:

1. The half of liveness that is not temporal: no session waits but for one that
   can go on or in a circle that the deadlock detector sees, for every number of
   sessions, in `Ingestion`, `Processing` and `Rules`.
2. `Deployment` with the processing-service's tables, where an error after a
   finished row raises in the upsert.
3. The pipeline with the counters of both services, so that the two reports can be
   compared.

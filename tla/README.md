# A TLA+ model of agent-eval-engine

agent-eval-engine evaluates LLM agents on benchmarks. It runs a benchmark through
an agent, records the trajectory as numbered events, computes metrics, stores the
run in PostgreSQL and shows it in a terminal UI, a REST API and an MCP server.

This directory holds TLA+ modules of its concurrent and failure-prone parts, TLC
configurations that check them on small instances, and TLAPS proofs. Paths below
are relative to the repository root; `AE/` is `packages/core/agent_eval/`.

## 1. Inventory

| Part | State it keeps | Operations | Talks to | What makes it correct |
|---|---|---|---|---|
| Rate limiter (`AE/openrouter.py` 388-421) | semaphore, lock, list of start times | enter, leave, be cancelled | asyncio | at most `max_concurrency` requests in flight, at most `requests_per_minute` starts per minute, nobody stuck, no permit lost |
| OpenRouter client (`AE/openrouter.py`) | attempt, idempotency key | `complete`, retry, backoff, classify | limiter, provider | retries exactly when configured, an error category that can be told from the replies, one key per call, termination |
| Evaluation workflow (`AE/workflow.py` `run`) | collected events, final state, an open transaction | the six nodes of the graph, commit | agent, repository, listener | a reader sees nothing of a run or all of it; what is returned is what is stored |
| Asynchronous batch (`run_async`, `run_batch_async`) | one session shared by all tasks | start, await the agent, persist, cancel, gather | repository, asyncio | siblings do not publish or destroy each other's runs; cancellations are recorded |
| Run repository (`database/`) | tables runs, events, metrics, evaluations, agent_targets, ... | create, add, finish, list, read | PostgreSQL | rows of a run agree; a final run does not change |
| Readers (`GET` endpoints, MCP tools, `list-runs`, `show-run`, `trace`, `compare`, CSV export) | a session per request | several SELECTs, paging by offset | repository | what is put together from several moments is one whole run; paging misses nothing |
| REST API (`apps/api/main.py`) | a session per request | POST runs/events/finish/evaluate/import, reads | repository, workflow | answers tell the truth, also when requests overlap or are repeated |
| Transcript import (`AE/real_agent_adapter.py`) | a transaction over seven tables; a file another program writes | read, check, find or create the target, save, hash, measure | repository, agent | all or nothing; one target per agent; one whole session |
| TUI loop and bridge (`apps/cli/main.go`, `backend.go`) | `appState`, channels, a goroutine, a child process | start, progress, cancel, result, error | `scripts/tui_backend.py`, docker | one evaluation at a time, no deadlock, the true outcome shown, cancellation seen through |
| TUI navigation (`apps/cli/main.go`) | selection, offsets, loaded pages, candidate cache | keys, refresh, resize | bridge | the selection stays on what is loaded; what is shown is what is selected |
| Agents, events (`AE/agent.py`, `events.py`) | the event list | run, record | client, listener | numbered events of the whole trajectory |
| Metrics (`AE/metrics.py`) | none | count, divide, fold over the events | workflow | each number is what its name says, also for empty and short trajectories |
| Benchmark catalogue (`AE/benchmark.py`, `scripts/tui_backend.py`) | files in three directories, `index.json` | create, list, resolve, load | users, installers | a created benchmark is kept and found |
| Sample packages (`AE/sample_package.py`) | one download file, a directory per package | download, verify, validate, stage, install | other commands | what can be seen is a whole package, the one asked for |
| MCP server (`apps/mcp/server.py`) | none of its own | run, read, compare, import | workflow, repository | as the API |
| Configuration, telemetry, migrations, CLI commands, Rust crate, installers | files | sequential | - | see section 8 |

How they interact: the API's and the MCP server's threads, the scripts and the
TUI's child process each call `EvaluationService` with a session of their own and
meet only in the database. The tasks of a batch meet in one session, one event
loop and, if the agent is live, one client with its limiter. The TUI meets the
engine through a child process: progress lines on stderr, one JSON result on
stdout, an exit status. The commands that create benchmarks and install samples
are processes that meet in directories nobody locks.

What is hard: cancellation at every `await`; a lock held across a sleep; a shared
transaction; commits whose answer is lost; the death of a process between flush
and commit; a goroutine, a scanner and an event loop on unbuffered channels while
the child is killed; pages and indices that are used after a refresh that may have
failed; requests of several clients on one row; requests made of several SELECTs
while others commit; files that are tested and then opened, read while they are
written, or left behind by a process that died. `PROJECT.json` lists each hazard at
its line, with the properties about it or the reason why there is none.

Smaller ones that no property is about, for whoever changes that code.

* Client: the SDK raises `InternalServerError` for every status from 500 on, so a
  list of retryable codes with 503 only is not honoured and the branch for a
  temporary outage (`AE/openrouter.py` 355-357) is never taken;
  `max_estimated_cost_usd = 0` means no limit (372, 635); a negative Retry-After
  ends as a model error (243); `per_run` idempotency keys are made per call (450).
* Workflow: the default agent of `EvaluationService` is synchronous, so a batch
  with it runs one by one (`AE/workflow.py` 87); a cancelled run keeps none of its
  events (132).
* Repository and API: a finished run takes further events and finishes
  (`apps/api/main.py` 176); the CSV has a blank for a metric of Decimal zero
  (`AE/exporter.py` 176).
* Imports: an import or an evaluation repeated after a lost commit answer is stored
  twice, nothing identifies it (`AE/real_agent_adapter.py` 195); a transcript whose
  last event is missing cannot be told from a whole one; the snapshot of an
  execution has the version of the stored target (151).
* Catalogue: a user benchmark whose id is taken by `index.json`, a sample or the
  other family is hidden in the list, and a failed creator leaves a file that blocks
  its id (`AE/benchmark.py` 336).
* MCP: `get_run` and `get_errors` see the first 100 events (`apps/mcp/server.py`
  84); the migration on first use is tested and then run (54).
* TUI: a progress line over 64 KiB ends the scanner while the child goes on writing
  (`apps/cli/backend.go` 233); `Wait` may close the stderr pipe before it has been
  read (185); paging a trace lists the runs again, and a run of
  another client may shift the selection (`apps/cli/main.go` 1104); pagedown sets
  `traceIndex` past the last event (2138); `b` on the confirmation goes to the list
  of runs (1990).

## 2. Plan

Modules in the order they were written; all of it is done unless it says "wanted".

1. `RateLimiter` and its theorems: accounting, both limits, no standstill.
2. `OpenRouterCalls` (EXTENDS `RateLimiter`): the calls implement the limiter; keys,
   categories, retries and the agreement with the synchronous client, as theorems.
3. `RunRepository`, `Workflow`, `EvaluationRun`, abstract `RunLedger`: whole runs and
   the refinement, as theorems.
4. `EvaluationBatch`: half runs, results, the refinement, as theorems. Wanted: an
   event posted through the API to the running row of a batch.
5. `RunReaders` (EXTENDS `EvaluationRun`): a request shows whole runs and paging
   skips none, as theorems.
6. `ExternalRuns`: all its safety properties are theorems.
7. `TuiRun`, `TuiViews`: likewise. Wanted: the comparison and search screens.
8. `UserBenchmarks`, `SamplePackages`, `Catalogue`, `Transcripts`, `Metrics`: the local
   data, likewise.
9. Wanted: the cost that a live run is charged against the cost it records.

## 3. Modules

| Module | Models | Composition |
|---|---|---|
| `RateLimiter` | `AsyncRateLimiter` | on its own, and inside `OpenRouterCalls` |
| `OpenRouterCalls` | `AsyncOpenRouterClient.complete` | EXTENDS `RateLimiter` |
| `RunRepository` | the writes of `run_repository.py` as operators on a table | EXTENDed by `Workflow`, `ExternalRuns` |
| `Workflow` | the data of one evaluation: events, outcomes of the agents, the rows `_persist` writes | EXTENDed by the two below |
| `EvaluationRun` | `EvaluationService.run` by concurrent callers; `run_regression` | implements `RunLedger` |
| `RunReaders` | every reading request, and paging, beside the evaluations | EXTENDS `EvaluationRun` |
| `EvaluationBatch` | `run_batch_async` on one session | implements `RunLedger` |
| `RunLedger` | abstract: what the runs table promises its readers | instantiated by both |
| `ExternalRuns` | the write endpoints of the API and the transcript import | EXTENDS `RunRepository` |
| `TuiRun` | event loop, goroutine, scanner and child of one evaluation after another | - |
| `TuiViews` | screens, selection, pages and cache of the event loop | - |
| `UserBenchmarks` | `save_custom_benchmark` by several processes | on its own, and in `Catalogue` |
| `SamplePackages` | download and installation by several processes | on its own, and in `Catalogue` |
| `Catalogue` | listing, resolving and loading benchmarks meanwhile | EXTENDS both |
| `Transcripts` | a transcript that is imported while it is written | - |
| `Metrics` | `calculate_metrics`, and the definitions it must meet | - |
| `OpenRouterCalls_proofs`, `Workflow_proofs`, `EvaluationRun_proofs`, `EvaluationBatch_proofs`, `ExternalRuns_proofs`, `LocalData_proofs`, `TuiRun_proofs`, `TuiViews_proofs` | theorems | EXTEND the modules they are about; `OpenRouterCalls_proofs` has the limiter's theorems too, `EvaluationRun_proofs` the readers', `LocalData_proofs` those of the five modules of local data |

Each `MC*` module gives a module its constants; each `MC*.cfg` is one run.

### How states and actions correspond to the code

**RateLimiter.** `permits` and `permitQueue` are the semaphore, `lockHolder` and
`lockQueue` the lock, `stamps` is `_timestamps` (as ages, saturating at the window
because the code only compares with 60 s), `pc` is where a coroutine is suspended.
asyncio runs a coroutine without interruption between awaits, so an action reaches
from one suspension to the next: `EnterFree` for instance is `acquire` of a free
semaphore, then of a free lock, then the look at the window, up to the sleep or
the return. `Cancel` is one action per suspension point. `recent` and `leaked` are
history variables.

**OpenRouterCalls.** `call`, `attempt`, `key` are the locals of `complete` and its
retry loop. A reply is the class of what the SDK returns or raises; an error answer has the
status `HttpStatus` gives it, and the settings may call any list of statuses
retryable, because `AE/config.py` does not restrict it. `Respond` is one whole turn: the reply arrives, `__aexit__` frees the slot, the except clauses
decide on retry or report. The synchronous client is a copy of the code without the
limiter; it is the function `SyncComplete` of the replies, with a test for retries and
tables of errors of its own, which the asynchronous calls must agree with.

**EvaluationRun.** One action per node of the graph. `pending` is the row in the
call's open transaction, `db` what is committed. `Persist` is the whole of
`_persist`, flushes and commit, because nothing else sees the flushes. `Raise` is
any exception that leaves `run`, `LoseCommitAnswer` a commit whose answer is lost,
`Crash` the death of the process.

**RunReaders.** A request is the sequence of SELECTs it makes (`plan`, `pos`), each of
which sees what is committed by then; `got` is what it has put together. Each
endpoint, tool and command has an operator of its own. Events of a row are read as
one value: that the API's page has the first 100 of them makes no difference here.
`walk` is a client that pages through the list by offset, its two SELECTs (the page
and the total) one step each. `startedAt` is the column, numbered in the order in which
runs are created, and `Place` the position of a run in `ORDER BY started_at DESC`.

**EvaluationBatch.** The only await of `run_async` is the agent, so a task has two
steps, `Start` and `Finish`, each with its failures. `view` is what the shared
session sees, `db` what is committed; a refused flush rolls the session back and
leaves it `poisoned` until it is closed. `GatherRaises`, `CloseSession` and
`CancelRest` are the caller: `asyncio.run` around `with session_factory()`.

**ExternalRuns.** A handler is a sequence of database calls; other handlers run in
between. `Open` are the transactions with an uncommitted row, for which inserts of
the same key and updates of the same row wait. `seen` are the columns that
`session.get` has loaded, `Written` the columns SQLAlchemy then puts in the UPDATE, and
the history `unwritten` those the last finish left out although another finish had
changed them since it looked.
`Fail` is a failure before the commit, `AnswerOrLose` an answer lost after it,
`Retry` the client that repeats.

**TuiRun.** `screen`, `running`, `cancelling`, `finished`, `notice`, `progress`,
`detail` and `updates` are fields of `appState` and locals of `runTerminal`;
`worker`, `scanner`, `child`, `pipe` are the goroutine of `startBackendRunAsync`,
`scanProgress`, the child process and its stderr; `rows` is the table in the order
of `started_at`, with what is `committed` and, as history, whose output `execute`
returned (`answered`). A send on the unbuffered channel is one step with its receive.
A child that has committed may still be given up (`GiveUpChild`: its status, or output
that could not be read), after which docker repeats the evaluation, and output that was
returned may not decode (`TakeAnswer`). `Kill` ends the process the TUI has started. For
docker that is the CLI, and the engine in the container goes on by itself: `left` says
how far it is, and `Engine` are its steps.

**UserBenchmarks.** `file` is the directory, `maker` where each `create-benchmark` is:
its test for the file, its opening of it, its write, each a step at which it may fail
or be killed. `rivals` are the paths two were at work on at once.

**SamplePackages.** `zip` is the one download file and `writers` those who have it
open; `place`, `origin`, `asked`, `valid`, `staged` are where a command is and what it
knows; `samples` are the directories. A rename makes a staged directory visible.
`stirred` are commands whose ZIP another one wrote between verification and copy.

**Catalogue.** `todo` and `paths` are the directories and files a reader has before
it, `rows` its answer. Globbing a directory and loading a file are steps, so files
appear and change between them.

**Transcripts.** `lines` is the file: headers, events, results and broken lines of
numbered sessions, written by an agent that may be seen in the middle of a line,
drop or repeat an event, die and begin again. The importer loads (`snapshot`), checks
and stores, hashes and measures in steps of their own.

**Metrics.** The trajectory grows by one event at a time, so every trajectory up to
the bound is measured. The loops of the code are recursive functions of the position and
its filters are sets of positions; the property has neither seen-set nor flag.

**TuiViews.** `s` is `appState` as far as navigation reads it. A key is one action
together with the refresh it causes (`Show`), each bridge call of which may fail.
A run started without a benchmark moves to the detail screen without a refresh and
sends only its error: `refused` until `RefusalRead`, and keys may come in between.

## 4. Runs

| Run | Instance | Shows |
|---|---|---|
| `limiter` | 4 tasks, 3 permits, 2 starts per window of 2 ticks | both limits hold, the list of starts is exactly the open window, no permit is forged or forgotten, waiters and the lock move on |
| `limiter_leak` (violation) | 3 tasks, 2 permits, 1 start | a cancelled sleeper keeps its permit |
| `calls` | 2 calls, 2 retries, 1 permit, 1 start per window of 1 tick, 7 replies, status 408 retryable | each call ends as the synchronous client would (`ClientsAgree`), the category can be told from the replies, a key names a call, every call ends unless all permits have leaked |
| `evaluation` | a dry and a live run that may time out, one client that reads or pages with one row on a page | readers find a whole run or none, put a final run together whole, and skip none when paging; result and rows agree; an agent's failure is recorded; refinement of `RunLedger` |
| `batch` | 3 tasks, 2 at a time, 1 fault, Ctrl-C | published means whole; no half runs; what stays running has failed; everything settles; refinement of `RunLedger` |
| `batch_cancel` (violation) | the same without Ctrl-C and faults in the property | a sibling's failure loses the record of a cancellation |
| `external` | 2 events of one number, 2 finishes, 2 imports of one new agent, 1 failure, 1 repetition | answers are true, finishes do not mix but for a column an overlapping one changed unseen, imports are all or nothing, the race is lost once, nobody waits for ever |
| `local_data` | 2 creators of 2 ids in 2 families, 2 installers of 2 packages, a reader; 2 sessions of 2 events in 8 lines; trajectories of 4 events of 12 kinds | created benchmarks are kept and found, installed samples are whole, an import is one session, the metrics meet their definitions |
| `tui_run` | 2 evaluations, 2 progress lines, a pipe of 1 line, a notice of 1 tick | while idle nothing executes but the engine of a cancelled docker run, progress without gaps, the true outcome, cancellation completes, no deadlock |
| `tui_run_shared` (violation) | 1 evaluation and another client | the result shown can be another client's run |
| `tui_views` | 3 runs of 3, 1 and 0 events, 2 candidates, pages of 1 or 2 rows | selection, shown detail and paging agree, but on the detail screen of a refused run |
| `tui_selection` (violation) | the same | the selection leaves the candidate list |

Why the bounds are enough: each queue forms and each limit binds. With four tasks,
three permits and two starts, one task waits for a permit while one sleeps and one
waits for the lock; a window of two ticks has starts of different ages. In `calls` one
permit and one start per window make a call wait for the other and sleep for its slot,
where a cancellation takes the permit with it; the replies are an answer, a broken one,
an error of each way to decide on a retry (by its class, by its status, without a status)
and of each outcome, and a 409, which only its status tells apart. Three tasks
with two at a time give a batch a queue, a running sibling and a failing one at
once. One reader is enough because readers do not affect each other; a page of one
row makes every commit fall between two pages, and the kinds of error the agent's
client can raise differ only in the name that is stored, so one stands for all. Two
requests of each kind meet in every order in `ExternalRuns`, with one failure and
one repetition anywhere. Two creators, or two installers, are a race. In a transcript,
two sessions of two events give a dead session with the next one behind it, and a gap,
a repetition and a cut line in either. Four events hold an error, a recovery and a
repeated call. One line of pipe makes the child block on its scanner. Two page sizes
and three rows give a first, a middle and a last page and a resize between them.

The parts of `local_data` share no state. So that their states are not multiplied,
`focus` chooses the one that is at work in a behaviour: the catalogue with one
installer, two racing installers, the transcript, or the metrics.

Bounds that are not in the code: `Window`, `MaxFaults`, `MaxRetries` of
`ExternalRuns` (clients), `PageSize` (a parameter of the requests), `MaxSessions`,
`MaxEvents`, `MaxLines` of `Transcripts`, `MaxTrajectory` of `Metrics`, `MaxRuns`,
`Lines`, `PipeSize`, `Notice`, `MaxOthers` of `TuiRun`, `MaxRows`, `MaxOffset`,
`InitialRows` of `TuiViews`. `MaxOffset` only stops the trace offset, which the code
lets grow. Deadlock is checked in the runs of `RateLimiter`, `OpenRouterCalls`,
`TuiRun` and `TuiViews`; the others really stop when every call has ended.

The type invariants that are no property of a run are theorems (section 7), except
`ViewTypeOK`, of which the proofs need and show only the part about runs and pages.

## 5. Fairness

* asyncio resumes every coroutine whose wait is over and the Go scheduler runs
  every goroutine: weak fairness of their steps.
* Requests end because the HTTP client has a timeout (`AE/openrouter.py` 427-431);
  agents end because requests do; PostgreSQL answers or the connection fails.
* The node of an evaluation that has begun is executed (`FairReadersSpec`); that a
  client reads is not assumed.
* A child process ends by itself or is killed by its context.
* Time passes.

Nobody has to start, press a key, cancel, fail or crash. No strong fairness is used
anywhere: asyncio's queues are first come, first served.

`WaitersMoveOn` and `CallsEnd` have the escape `leaked = MaxConcurrency` because the
code needs it: see the first finding.

## 6. Findings

Each is a run that checks one property, which quotes the repository, and finds it
violated; `PROJECT.json` has the quotations.

1. **A cancelled waiter keeps its permit** (`limiter_leak`, `AE/openrouter.py:408`).
2. **Lost cancellations** (`batch_cancel`, `AE/workflow.py:134`): when a sibling
   fails, the session is closed before the others are cancelled, and recording
   their cancellation raises.
3. **Selection outside the list** (`tui_selection`, `apps/cli/main.go:2048`): a
   failing backend and a page up leave an index that the confirmation panics on.
4. **Another run shown as the result** (`tui_run_shared`, `apps/cli/main.go:2538`). It
   takes another client, or an engine that a killed docker command has left at work:
   that the result is shown without either is the theorem `AloneShowsOwn`.

Divergences of a document from the code that need no run to be seen:
`tests/unit/MANUAL_PHASE3_RESILIENCE.md:292` expects `OpenRouterRetryLimitError` after
repeated failures with a retryable status, and `AE/openrouter.py` 525-538 reports
timeouts and 429s under their own names (`CategoryFromReplies` takes no side: it asks
for one of the three errors that carry the number of retries); `tests/integration/MANUAL_PHASE5_DATASET_STORAGE.md:17` expects a saved
benchmark in the list as user-created, and
`tests/unit/MANUAL_PHASE5_BENCHMARK_CREATOR.md:87` a second one of its id to be refused,
but ids are compared within a family only, and the list leaves out an id it already has
(`CreatedIsFound` has that exception).

## 7. Proofs

Checked by TLAPS for every value of the constants that satisfies the named
assumptions, which TLC evaluates on its runs too. Each theorem is `Spec => []Inv`, or a
step property or a refinement, from an inductive invariant that was first checked
with TLC.

| Module | Safety properties of the runs | Refinement and composition | Further invariants |
|---|---|---|---|
| `OpenRouterCalls_proofs` | `Accounting` (`PermitAccounting`), `Concurrency` (`ConcurrencyBound`), `Listed` (`WindowListed`), `Rate` (`RateBound`), `KeysName` (`KeyNamesCall`), `CategoryTold` (`CategoryFromReplies`), `ClientsAlike` (`ClientsAgree`) | `CallsImplementLimiter` (`CallSpec => Spec`) | `NoStandstill`, `RequestsAreBounded`, `TypeCorrect`, `CallTypes` |
| `EvaluationRun_proofs` | `Published` (`PublishedRunIsWhole`), `Returned` (`ReturnedIsPublished`), `ReadersSeeWhole` (`FinalReadIsWhole`), `WalkSeesAll` (`WalkSkipsNothing`) | `ImplementsLedger` (`LedgerSpec`), `ReadersOnlyRead` (`ReadersSpec => Spec`) | `FailuresRecorded`, `EvaluationTypes` |
| `EvaluationBatch_proofs` | `NoHalf` (`NoHalfRun`), `Done` (`DoneIsPublished`), `LeftRunning` (`LeftRunningOnlyByFailure`) | `ImplementsBatchLedger` (`LedgerSpec`) | `CallerIsTold`, `BatchTypes` |
| `ExternalRuns_proofs` | `EventAnswers` (`EventAnswerIsTrue`), `LastFinish` (`FinishIsLastRequests`), `WholeImports` (`ImportsAllOrNothing`), `LosesOnce` (`RacesOnce`) | | `NobodyStuck`, `ExternalTypes` |
| `LocalData_proofs` | `Kept` (`CreatedIsKept`), `Found` (`CreatedIsFound`), `Whole` (`InstalledIsWhole`), `OneSessionStored` (`ImportIsOneSession`), `MetricsAreRight` (`MetricsMatchReference`) | `PartsUndisturbed` (`CatalogueSpec => UserSpec /\ SampleSpec`) | `UserTypeCorrect` |
| `TuiRun_proofs` | `IdleIsQuiet` (`IdleMeansNoChild`), `TraceHasNoGap` (`ProgressHasNoGap`), `Truth` (`ToldTheTruth`), `SeenThrough` (`CancelSeenThrough`, a step property) | | `AloneShowsOwn` (a step property), `NobodyStuck`, `TuiTypesHold` |
| `TuiViews_proofs` | `SelectionExists` (`SelectedRunExists`), `DetailIsSelected` (`ShownDetailIsSelected`), `PagesFollow` (`NextPageFollows`, a step property) | | `PagesOrdered` |

So every safety property and every refinement that a passing run checks is a theorem
too. `Workflow_proofs` has the lemmas about the data of one evaluation that the two
modules of evaluations share: what an agent's outcome can be and why the row
`_persist` makes of it is whole.

**Limiter.** `LimiterAssumption`: finite tasks, at least one permit and one tick, which
the settings' validation in `AE/config.py` gives. `permits + |Holding| + leaked =
MaxConcurrency` is not inductive: a release hands its permit to the head of the queue,
and the count stays what it was only if that task was waiting. `IInv` adds that each
queue holds exactly once each task whose `pc` says it waits there (`QueuesDistinct`) and
that nobody waits for the lock unless a rate is set (`WindowInUse`). For the rate the
invariant says that the list of starts is the starts of the window, which needs the list
to be sorted by age: it is pruned from its front only, so an expired start behind a
live one would stay. `NoStandstill` is what the liveness of the limiter rests on, said
without ENABLED: whoever waits, waits for somebody who does not. It needs the converse of
`QueuesDistinct`, that every waiter is in its queue, and that no permit is free while one
waits (`WaitIInv`); a hand-over that skipped a cancelled waiter would break both.

**Calls.** A step of a call is a step of the limiter or leaves it alone, so every
theorem about the limiter holds of the calls. Keys: each is drawn once, and a request
is sent with the key of its call (`CallAssumption`: the bounds of the settings). What a
call reports is told by its replies because all of them but the last were failures that
the loop repeats (`LoopIInv`: how many replies there are wherever the coroutine is, and
`RetriedTo`). The synchronous client is a recursive function of the replies; that it
walks over the retried ones to the last is shown by the replies of which it does not,
among which there would be a first. That the two tests for a retry agree holds of every
reply and every list of statuses (`RetryablesAgree`). `RequestsAreBounded` counts the requests a call
has sent by the replies it has had (`CountIInv`).

**Evaluations** (`WorkflowAssumption`: the errors the client can raise). The row that is
published was written by one step of many: the invariant says of each stage which
events are in memory, that the transaction holds one running row, and that nothing of
the run is committed before the last stage. The result is computed from memory, so
`ResultIInv` says that what is in memory after the commit is what the rows were made
of; `FailuresRecorded` follows, the safety half of `AgentFailureIsRecorded`. The
refinement follows because only a commit changes a row, and only one that was not there.

**Readers** (`ReadersAssumption`). Requests and walks change nothing an evaluation looks
at (`ReadersOnlyRead`). `FinalReadIsWhole` speaks of a request that has ended. The
invariant (`ReaderIInv`) says during the request that whatever it has of a run, once it
has found the run, equals what is stored, and that no request looks at anything of a run
before it has found it (`InOrder`, proved of every request there is). Commits in between
keep it because a row that has been found is final. Paging: a commit can only move a
listed run to a later place, because places count the listed runs that were started
after it and no row disappears. So a run that was there and has not been seen is never in
front of the offset (`WalkIInv`), and if the pages seem to end, the total, which was
counted after the page, includes it. That needs the starting times to be distinct and
every listed run to have one (`StartIInv`).

**Batch** (`BatchAssumption`). The tasks share one session, so the commit of one
publishes what the others have flushed. The invariant: the session and the table differ
at most by running rows (`Shown`), and what a task may find of its own row at each stage
(`Progress`), with `Excuse` for those whose session was closed or has failed. The proof
corrected `LeftRunningOnlyByFailure`: a run may also stay running because its task raised
after the session was closed under it, without any fault. That takes four tasks, three
at a time, and three tasks cannot reach it. `CallerIsTold` adds what the caller can
conclude from how gather ended (`CallerIInv`).

**External runs.** `ExternalAssumption`: the requests are of one kind each, and a finish
or a transcript has one of the three statuses that `apps/api/schemas.py` and
`AE/real_agent_adapter.py` let through. The properties need what is between two database
calls: of a sequence number at most one insert is open, and none once an event is stored
under it; nobody is past its test for the run before the run exists; an import that has
its target has it from the table or inserted it itself. `NobodyStuck`: an insert of a
target waits only for an import that has made its own and never waits again; the other
waits are for a transaction that is about to commit. It needs that every request is at a
place of its kind (`Kinds`).

**Local data** (`CreatorAssumption`, `PackageAssumption`, `CatalogueAssumption`,
`TranscriptAssumption`, `MetricsAssumption`). Users: the state of a creator tells what its
file holds unless it has rivals. Samples: an installer's bytes are those it verified
unless another download stirred the ZIP. Catalogue: what was created before the request is
in a directory still to come, among the paths found, or listed (`Coming`), and no other row
takes its id unless the id is taken elsewhere (`Heeded`); files the reader holds are still
there when it opens them (`InTurn`), because no creator or installer takes one away. That
needs ids and packages to be finite, as a directory is. Transcripts: up to the first
broken line or second header, which the importer refuses, all lines are of one session
(`OneSession`), and the file grows at its end by lines of the session that is recorded,
until its result (`Tip`); so what was loaded as complete is still the whole file when it is
hashed, or a new session has begun (`Loaded`). Metrics: a loop is a recursive function of
the position; it equals the counting it should do because at the first position where
they differed (`SameLoop`) one more event would have been counted wrong (`OneMore`).

**TUI** (`TuiBounds`). `IdleIsQuiet`, `Truth` and `SeenThrough` are proved for
`SharedSpec`, that is also beside another client, and inherited by `Spec`. The loop never
looks at the child, the scanner or the goroutine; `LoopIInv` says what `running`,
`finished` and the channel it listens to let it conclude about them and about the engine
behind a docker command. `Truth` is about the table: `RowsTell` says what the state of a
child and the place of the goroutine tell of the row, and `KindOfRows` that each child has
one row at most, the local child's first. `ProgressHasNoGap` needs the place of every line: the
last on the screen, then those in the pipe, then the next to be printed (`Follows`), until
the evaluation is cancelled; and that docker is asked only when the local child is through.
`AloneShowsOwn`, of `UndisturbedSpec`: the detail is that of the newest row, which is the
run's if the rows are those of the evaluations in their order (`RowOrder`). An engine left
in its container breaks that order, as another client does.
`NobodyStuck` needs that whoever writes to a pipe is read (`Watched`): a child blocked on a
full pipe has a scanner that takes a line or is sending one to the loop.

**Views** (`ViewBounds`: at least one row at the start, because a failed first run
shows progress and no detail). `ViewIInv` says of every screen that shows runs that the
index is inside the loaded page and the detail is the selected run's, unless it is the
detail screen of a refused run (`Unread`), and that a page holds
distinct runs in the table's order. Keys break it between their assignments; it is
restored by the refresh each of them ends with (`Show`), and a refresh that fails leaves
for a screen that shows neither. So the lemmas are about `Show` of any `appState` a key
could hand it, and each key is an instance.

Arguments by a least counterexample (`WFMin` of `WellFoundedInduction`) stand where
induction would: over the positions of replies and of events.

Only model-checked, because ENABLED and fairness are out of the provers' reach: the
liveness properties `WaitersMoveOn`, `LockMovesOn`, `CallsEnd`, `AgentFailureIsRecorded`,
`BatchSettles`, `RunEnds`, `RequestsAnswered`, and deadlock. For four of them the theorems
`NoStandstill`, `FailuresRecorded` and the two `NobodyStuck` have the part that needs no
fairness. Not proved either: `ViewTypeOK`, as to the list of benchmarks, whose length
`SelectSeq` determines and no library theorem bounds.

## 8. What is not modelled, and why

* The OpenAI SDK, asyncio, SQLAlchemy, PostgreSQL, Go's `os/exec`, docker, the file
  system and the programs that write transcripts are external: modelled as the code
  uses them.
* Contents of prompts, answers and events, and amounts of cost: no property here tells
  them apart. Among the metrics, costs, output tokens and times are sums like the input
  tokens, which are modelled.
* A docker command that fails by itself while its container goes on: only one that is
  killed leaves an engine at work.
* The lengths of backoffs and jitter; a backoff ends.
* What makes a benchmark file, a path or a field of a transcript valid: the checks are
  pure functions of text, and a file is valid or not.
* The listing without `index.json` (it is shipped), the generator of it, the streaming
  readers, which only scripts and tests call, `doctor` and `get-template`: sequential.
* The layout of the CSV; the MCP server's redaction, its permission for live calls and
  its migration on first use.
* Configuration, telemetry, migrations, the `agent-eval` commands, the Rust crate and
  the installers are sequential file or text processing.
* The TUI's search, comparison, creation, import and export screens: forms over the
  bridge that `TuiRun` and `TuiViews` model.

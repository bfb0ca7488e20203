# Verification models of a test-comparison study and the programs it studies

The repository compares human-written with AI-written test suites on five
Python projects. Its own program is `src/mutation_test.py`; the programs under
study are complete checkouts below `src/repositorios-originais/` (dask, scrapy,
celery, conan, requests). These TLA+ modules model the parts whose correctness
depends on the order of events: the dask local scheduler, scrapy's downloader,
engine and scheduler, the task messages of a celery worker, and the mutation
tool's in-place rewriting of a source file.

## Inventory

| Component | State | Operations | Interacts with | What is hard |
|---|---|---|---|---|
| dask `local.get_async` | `waiting`, `waiting_data`, `cache`, `ready`, `running`, `finished`, `released`; queue of futures | `fire_tasks`, `finish_task`, `release_data`, batches in workers | executor's workers through one queue | completion order, when memory is released, errors in a batch, batch size arithmetic |
| dask `local.start_state_from_dask` | the same dictionaries while they are built, a stack, `seen` | visit an undefined key, a data node, a task | the caller's graph and cache; `get_async` | data found before or after its readers; a cache the caller filled |
| dask `threaded.get` | pools per thread | look up, create, clean | `get_async`, other threads | races on the dictionaries |
| `mutation_test.py` | source file, backup, report, records | back up, sanity run, mutate, test, restore, report | file system, test process | interrupts, kills, reruns, timeouts |
| scrapy `Downloader` | slots (active, queue, transferring, lastseen, timer), `active`, the collector's loop | `fetch`, `_enqueue_request`, `_process_queue`, `_download`, `_latercall`, `_slot_gc`, `close` | engine, middlewares, handlers, event loop | wake-ups, timers, coroutines that start late, collection of a slot in use |
| scrapy engine and scraper | engine slot (`inprogress`, `closing`, `nextcall`), scraper slot (`queue`, `active`, `itemproc_size`) | start requests, detect idleness, close | downloader, scheduler, spider | missed wake-ups on closing, requests that bypass the scheduler |
| scrapy scheduler and priority queues | `requests.seen`, memory and disk queues (per slot: lines per priority, `curprio`), `active.json` | enqueue, next, close, open | engine, downloader's active counts | lines that are gone or empty, refusals, stop and resumption |
| celery worker: request life cycle | `Request` flags, `state.requests`, `state.revoked`, semaphore and its waiters, frames to be written | receive, reserve, accept, succeed, fail, time out, revoke, cancel, lose the connection | pool processes, broker, result backend | callbacks racing each other, redelivery beside the first delivery |
| celery autoscaler, beat, canvas, backends, asynpool | pool size, schedule, chord counters, jobs | grow/shrink, tick, chord join | brokers and stores | partly I/O |
| conan graph, cache, version ranges | dependency graph, cache database | resolve, install | file system | sequential, large data |
| requests | session, cookies, redirects | send | urllib3 | formatting and I/O |
| coverage translation, shell scripts, tests | none | | | |

What makes each modelled component correct:

* `get_async`: every task runs once and after its inputs; the books agree with
  each other in every completion order; a value is in memory exactly while it
  is needed; the call ends, and raises only if a task did.
* `start_state_from_dask`: its result does not depend on the order of the walk.
* `mutation_test.py`: the original source is never lost, is back after every
  orderly exit, and each verdict is about the mutant it names.
* `Downloader`: no request is lost or overtaken, concurrency and delays hold,
  a slot in use is never collected, everything fetched leaves.
* engine and scraper: no wake-up is missed while requests could be sent, a
  spider is found idle only when nothing is left, nothing is sent after the
  downloader is closed, pipelines close after the last item, a close ends.
* scheduler: each request is given once, memory before disk, in each of them the
  most urgent of a slot first, and stopping and resuming the crawl changes
  nothing for those on disk.
* celery worker: no task is forgotten before its state is stored, a delivery is
  settled once, the registry names what is running, places in the pool come back.

`PROJECT.json` lists every component with its status and every hazard with its
line.

## Modules

| Module | Models | Role |
|---|---|---|
| `DaskGraph` | the graph as the scheduler sees it | constants, closed form of the start state, `Needed` |
| `TaskGraph` | (abstract) | what any scheduler of a task graph promises |
| `DaskLocal` | `dask/local.py` 246-317, 382-561 | the loop and its workers; refines `TaskGraph` |
| `DaskStart` | `dask/local.py` 144-232 | the walk; its result equals `StartState` of `DaskLocal` |
| `MutationTest` | `mutation_test.py` 248-387 | the tool's runs on one file |
| `ScrapyDownloader` | `scrapy/core/downloader/__init__.py` | slots on one event loop |
| `ScrapyEngine` | `scrapy/core/engine.py`, the slot of `scraper.py`, `CallLaterOnce` of `utils/reactor.py` | life cycle of a crawl |
| `RequestStore` | (abstract) | what a crawl's scheduler promises, without its queues |
| `ScrapyScheduler` | `scrapy/core/scheduler.py`, `scrapy/pqueues.py` | default queues in memory and on disk; refines `RequestStore` |
| `CeleryWorker` | `celery/worker/request.py`, `state.py`, `strategy.py`, `consumer/consumer.py`, `control.py`, `worker.py` | one worker, its pool and its broker |
| `MCDaskLocal`, `MCDaskStart`, `MCScrapyDownloader`, `MCScrapyScheduler`, `MCCeleryWorker` | | values of the constants for TLC |
| `SeqFacts` | | lemmas on ranges, concatenations and slices of sequences, and induction over sets of numbers |
| `DaskLocalProofs`, `DaskStartProofs`, `MutationTestProofs`, `ScrapyDownloaderProofs`, `ScrapyEngineProofs`, `ScrapySchedulerProofs`, `CeleryWorkerProofs` | | theorems about the module each is named after |

### DaskLocal

One process runs `get_async`, so the code between two blocking points is one
action: `FireTasks` is `fire_tasks` whole (how many, pop, mark running, submit
in batches), `GetBatch` is `queue_get(queue).result()`, `ApplyResult` stores a
result and runs `finish_task` with its `release_data` calls. `pc` is the place
in the loop. `Complete` is a worker: it takes a whole batch and decides which of
its tasks failed. The variables have the names of the state dictionaries;
`items` is the rest of the batch being applied. A cached object is either a
value or an exception, which is all the rerun path can confuse: `Unpacked` is what
`loads(res_info)` gives. `rerun` is `rerun_exceptions_locally` of the call, both values
are explored; `TaskGraph` lets an exception stand for a value (`spoiled`) only in
calls that asked for it, so a failed task that counted as computed would violate
`KeepsPromise`. The order
`dask.order` gives is a constant, injective and with dependencies first (it
raises on cyclic graphs). `FinishTaskDefined` spells out every dictionary access
that would raise; `FinishNeverFails` says that it never does.

### DaskStart

One action is one turn of the `while stack` loop. The iteration order of a set
is a choice among all sequences of its elements (`Orders`). `defaultdict` reads
as `{}`; `waiting` keeps its domain because the code tests membership in it. A
value in the caller's cache is only true or false, which is what
`not cache.get(key)` looks at.

### MutationTest

A content is the sequence of mutations applied to the original; `Truncated` is
a file opened for writing and not filled yet, `Absent` one that does not exist.
Each write is two steps (truncate, fill), so interrupts and kills come between
them. `verdicts` is what the tests say about each mutant of the original,
chosen at the start and constant; a mutant of a mutant may answer anything.
`hang` is a timeout; `TaskkillMissing` is the branch where `taskkill` does not
exist. `Interrupt` is Ctrl-C (unwinds through `finally` from inside `try`),
`Kill` runs no handler. `leftovers` is a history variable: runs started
after one whose exit left something else than the original in the file, by a kill
or by an interrupt in the `finally` block; `Clean` says that there was none so far.

### ScrapyDownloader

An action is the code between two awaits; `stage` says where each request's
coroutine is suspended. Under asyncio a popped request is `launched`, an entry
of the loop's queue `ready`, until `StartTask`; otherwise it transfers at once
(`asyncio` is chosen in `Init`, both are explored). Due timers are entries of the
same queue. Time is relative, counted in ticks up to `LongAgo`: `since` replaces
`lastseen`, `timer` the delay left of `latercall`. `ProcessQueue` is
`_process_queue` with the recursive call after a pop. `quiet` is a history
variable, unlike `since` it survives the collection of a slot. `Close` is guarded by what
its caller, `close_spider_async`, has waited for (`NoneInProgress`): no request of the
crawl is left, but a direct one may be there. `close` cancels its slot's timer, so it
may stay in the queue; `Drains` and `ConcurrencyWithDelay` say what still holds then.

### ScrapyEngine

`req`, `item` and `direct` say where the requests of the crawl, the items that
`start()` yields and the calls of `download_async` are; `slot.inprogress`,
`downloader.active` and the scraper slot are sets derived from them. An item
that a callback yields stays part of its response, which the scraper slot keeps
until its items are through. `nextcall` is the `CallLaterOnce`: cancelled while
scheduled it keeps its call object, so `schedule` does nothing for good
(`cancelled`). `starter` is the loop of `_start_request_processing`;
`closing` and `scraperClosing` are the two deferreds closing waits for, `phase`
is the place of the one `close_spider_async` that got past its early return.
`NextCall` is a whole `_start_scheduled_requests`, from `NeedsBackout` to the
requests it sends, which may be fewer than there is room for: `next_request` may
return `None` with requests pending (`Refused`, as `ScrapyScheduler` shows it to
happen), and then the loop breaks. The heartbeat is there "for scenarios where the
scheduler reports having pending requests but returns none" (`engine.py:316-318`);
`NeverSleepsOnWork` says that these are the only ones that need it. Requests that
`start()`, callbacks and idle handlers crawl may be dropped as duplicates, redirects
too. `NextCallIdle` includes the handlers of `spider_idle`, which may crawl a
request or veto. `Scraped` is the end of a
response with everything it wakes; `ItemDone` wakes nobody, as in the code.
`Running` keeps the order of two entries of the loop: a close decided by
`_spider_idle` is created before any new call of `nextcall`.

The downloader is what the engine sees of it, its active set and the end of a
fetch; `ScrapyDownloader` has the rest, and its `Drains` is why fetches end here.
Only asyncio is modelled. `stop_async` called from inside `start()` and the
opening of the spider are not.

### ScrapyScheduler

A queue of one slot has `lines`: `queues` and `_start_queues` in one function
from a priority and a flag; `cur` is `curprio`, the empty set for `None`. `Push`
leaves an empty line behind when serializing fails, and `Turn`, `PopLine` follow
the loop of `pop`: the line at `curprio` even if it is empty, the least other
priority if no line is there, start requests last, and the condition under
which `curprio` is computed again. A slot goes with its last request, an empty line with
the next pop that comes upon it. `NextSlot` is `_next_slot` with the downloader's
counts. `NextRequest` is memory, then disk, whatever the priorities; `Restart` is `close` and `open`: what
`active.json` names is opened again, with empty files dropped, and memory is gone.
`Download` and `Downloaded` are the downloader, as far as its counts matter here.

`RequestStore` knows no queues: requests are stored or volatile; all volatile ones go
first, and in each of the two sets a total preorder says which of a slot's goes first.
That is less than the class says, which has memory take precedence over disk "For a
given priority value" (`scheduler.py:137-138`): a request that could not be serialized
goes before a more urgent one on disk. The mapping takes the contents of the
two stores for the two sets; `kind`, `seen` and `given` are the same. `owed` is a
history variable in both. The docstring of `next_request` says "Return `None` if
there are no more enqueued requests" (`scheduler.py:391`), which an empty line
that a failed push left behind refutes; the abstract specification allows one
such refusal for each request that could not be serialized, and the run shows
that there are no more. A request kept in memory is in `requests.seen` too: a
resumed crawl neither has it nor accepts it again.

### CeleryWorker

The main process is one event loop, so each callback is an action, from the
handler's first line to its last call: `Accepted`, `OnSuccess`, `OnTaskFailure`,
`OnReject`, `OnTerminated`, `OnWorkerLost`, `HardTimeout` are `on_accepted`,
`on_success`, the branches of `on_failure`, `on_timeout`. Each frees a place in
the pool, and `JobOver` follows the semaphore's release through the waiters:
those found revoked are announced and give the place on. `stage` is where the main
process has a delivery; `child` what the pool's processes make of it, including
jobs the main process gave up when the connection broke but that had been written
to a pipe. `frames` are acks and rejects that wait for the loop's next turn;
`live` the deliveries of the present connection. `conf` has the task options that
change what a handler does. `ChildFails` lets a task raise `Reject`, with
`requeue` or without, whatever its acknowledgement: `OnReject` stores a failure without
`requeue` and nothing with it, and `Settle` ignores what comes after the ack. An
early-acknowledged task that asks to be queued again is therefore neither: its
message is gone and no state is stored. The history variable `unheeded` has these
tasks, `Abandoned` names them in `NothingLost` and `Drains`. `ConnectionLost` is three
parts of the code in one step: the consumer cancels (`Doomed`), its `on_close` gives up
what the pool has not accepted (`GivenUp`), the loop drops frames and timers (`HubReset`). The `n`-th delivery of a task is a `Request` of its own,
with the same id: `state.requests` holds one entry for both.

External, as the code uses them: the broker (queues again what was not settled when a
connection ends), billiard (a process takes one job; a terminated or timed-out
process is replaced, its place given back in the same step; termination hits the
process that runs the job and no other) and kombu's semaphore.
Resetting the hub after a connection error clears the timers of running jobs with
the others, although a comment says that timers are re-registered
(`loops.py:107`): a task that hangs then keeps its process. `Stuck` names that
state and `Drains` excepts it.

## Runs

| Run | Bounds | What it shows |
|---|---|---|
| `dask_local` | all graphs of 1-4 keys, all sets of data nodes and results, 2 workers, chunk sizes -1, 1, 2, failed tasks rerun or not | books exact in every completion order, memory exact, no double submission, refinement, termination |
| `dask_auto_chunk` | 3 keys, chunk size -1 | violation: `ZeroDivisionError` with no failed task |
| `dask_start` | all calls on 3 keys, cycles included | the walk is independent of its order and ends |
| `dask_falsy_cache` | the same | violation: a cached false value is "missing" |
| `mutation_test` | 3 sites, 2 mutants, 2 runs, 1 interrupt, 1 kill | the original survives and is in place until a run is started on something else; an orderly run puts back what it found, leftovers included; reports right and complete |
| `mutation_rerun` | the same | violation: the backup is overwritten by a run after a killed one |
| `scrapy_downloader` | 3 requests (1 bypassing the scheduler), 2 slots of concurrency 1, CONCURRENT_REQUESTS 1 or unlimited | nothing lost, spacing, order, concurrency where it holds, everything drains but what `close` leaves behind |
| `scrapy_burst` | 2 requests | violation: concurrency exceeded under asyncio without a delay |
| `scrapy_engine` | 3 requests, 1 item and 1 direct download, CONCURRENT_REQUESTS 2, one active response backs out, 1 veto, 1 pause, 1 refusal | closing drains the crawl, a finished spider is finished, no missed wake-up but after a refusal, the crawl ends but for the case below |
| `scrapy_close_hangs` | 1 request, 1 item, 1 direct download | violation: a close waits for ever for an item of `start()` |
| `celery_worker` | 2 tasks, 1 process, 4 settings with 1 or 2 mishaps each | nothing lost, settled once, registry exact, all drains but for hung tasks without a limit and `Abandoned` ones |
| `scrapy_scheduler` | 4 requests chosen among 7 kinds, with and without JOBDIR, 1 resumption | `RequestStore` is implemented, `curprio` leads, everything stored is given |

Why the bounds are enough. Four keys give every diamond, fork, join and chain
a step of `finish_task` can meet, two workers with chunk size 2 give full,
short and several batches at once. Three keys are a task, its data and another
reader in every visiting order. In `MutationTest` three sites against two
mutants makes the sampling skip one; two runs with one interrupt and one kill
reach every pair of places where a run can be cut and another begin. In the
downloader two requests compete for a slot, the third arrives past the total
limit; the delay of 2 ticks drawn between 1 and 3 and a collector age of 1 let a
slot be dropped and created again while the delay matters, and `LongAgo` is
past every comparison. In the engine two requests fill the downloader and the
third waits; it may come from `start()`, a callback, a redirect or an idle
handler. One item and one direct download are enough to keep the scraper and the
slot busy alone at every point of a close; `MaxVetoes`, `MaxPauses` and `MaxRefusals` are 1 as
a second would meet the same states. That refusals are finite is no assumption about
the engine: `RequestStore` has one for each request that could not be serialized. In the scheduler four requests are two in
a line beside a third in another line and one that cannot be stored; the kinds differ in
every field the comparison looks at, and the requests of each choice come in any
order. In the worker a second task waits for the only process or takes over its
place, and two mishaps give every pair: a revocation of a task that is being
redelivered, a limit that comes with a lost process. `MCConfs` holds the settings
that take different branches, not their product; ETAs double the states, so the two
settings with an ETA have one mishap.

Deadlock checking is off in all runs: calls return, scripts exit and spiders
are closed. Termination properties say what must not be left undone.

### Fairness

* `DaskLocal`: weak fairness of the loop's own steps and of "some batch
  completes". The thread is never stopped and futures always complete: `execute_task`
  catches `BaseException`. Tasks that never return are outside the promise.
* `DaskStart`, `MutationTest`: weak fairness of the sequential program;
  `run_tests` gives up after its timeout. Interrupts and kills have none.
* `ScrapyDownloader`: the event loop runs what is ready, the clock goes on,
  and some suspended coroutine that can go on does. Middlewares that never answer
  are excluded; downloads end because of `DOWNLOAD_TIMEOUT`. The collector and
  `fetch` have no fairness.
* `ScrapyEngine`: the loop runs what is ready, the heartbeat goes on, and
  `start()`, downloads, callbacks and pipelines end. Nobody has to pause,
  resume, ask for a close, stop or start a direct download. `CrawlEnds` excepts
  a crawl that stays paused, one that was opened with `close_if_idle` off and
  that nobody closes, and `MissedWakeup`, the states `scrapy_close_hangs` ends in.
* `ScrapyScheduler`: weak fairness of `NextRequest`. The engine's heartbeat asks
  again for as long as the scheduler has requests, also after a `None`.
* `CeleryWorker`: weak fairness of `Work`: some message comes in, job starts or
  ends, callback runs or frame is written. Tasks that return are assumed to do so;
  one that hangs ends only by its armed limit. Mishaps and revocations have none.

### Where code and documents disagree

Five runs end in a counterexample; `PROJECT.json` quotes the lines. The runs
are kept as they are so that a repair shows as a change of their outcome.

Five more disagreements are in the modules as the code has them, without a run of their
own: the properties say what does hold, and name these cases.

* memory goes before disk whatever the priority (`scheduler.py:396`, against
  137-138), in `RequestStore.Give`;
* `next_request` returns `None` with requests pending (`scheduler.py:391`, and what
  `engine.py:316-318` knows of it), in `RequestStore.Refuse`, bounded by `owed`;
* a `Reject(requeue=True)` of an early-acknowledged task leaves it "stuck in
  PENDING/STARTED forever", which the branch without `requeue` takes care to avoid
  (`request.py:661-664`), in `OnReject`;
* a hub that was reset has lost the time limits of running jobs (`loops.py:107`), in
  `HubReset`;
* `on_timeout` stores FAILURE for a task that `on_failure` has requeued
  (`request.py:542`, against the comment at 717), in `HardTimeout`.

## Proofs

Every invariant and action property that a run checks is also a theorem, and so
are the two refinements: TLC shows them for the bounds above, the proofs for all
values of the constants that satisfy the named assumptions. Each proof module has
an inductive invariant; `Init` satisfies it, every action keeps it, and the properties
follow from it without looking at actions again. Where a property speaks of a
step, the invariant gives the state the step starts from.

### DaskLocalProofs

For every set of graphs, order, number of workers and set of chunk sizes
(`GraphsAssumption`, `OrderAssumption`, `WorkersAssumption`, `ChunkAssumption`,
finitely many keys): `TypeCorrect`, `BooksExact` (`Accounting`, `WaitingExact`,
`WaitingDataExact`), `MemoryExact` (`CacheExact`), `InputsAlwaysCached`,
`FinishIsSafe`, `RunsOnce` (`NeverResubmits`), `ResultsOnly`, `WorkersTheorem`
(`WorkersBound`) and `Refinement`: every step of the loop is a step of `TaskGraph`
or leaves it alone, where a task that failed counts as computed only in a call that
asked for reruns.

None of these is inductive alone. The books are linked through the tasks that
are out: when a result is applied, `finish_task` relies on the key being in
`running`, and that a running key is nowhere else depends on what is in the
executor, in the queue and in `items`. `IInv` is therefore the conjunction of
`Bookkeeping` (the exact content of every dictionary as a function of
`finished`, the four-way partition) and `Submission` (each running task is in
exactly one place: a batch in flight, a batch in the queue, or an item still to be
applied, and only there). The first half is proved action by action
with `FinishBookkeeping` for the one step that moves everything; the second
with one lemma per step that hands batches on, which rest on `SeqFacts` for
slices and concatenations. `Refinement` uses that `Needed` is what the cache
holds before and after a step.

### DaskStartProofs

For every set of inputs that are finite graphs, and every order in which the sets
are walked: `TypeCorrect`, `WaitingTheorem` (`WaitingTracksCache`) and `StartTheorem`
(`StartMatches`): what the walk returns is `StartState`, the state `DaskLocal`
starts from. `Books` gives the content of each dictionary in terms of the keys
seen so far. It does not say that all needed keys are seen when the stack is empty;
`Walk` does: results and the dependencies of what is seen are seen or on the
stack, and nothing else is. The two together give the closed form.

### MutationTestProofs

For any number of sites, mutants, runs, interrupts and kills: `SurvivalTheorem`
(`OriginalSurvives`), `InPlaceTheorem` (`OriginalInPlace`), `ReportsAreFaithful`
(`ReportFaithful`), `TypeCorrect`, `LeftAsFound` (`LeavesAsFound`) and
`ReportsAreComplete` (`ReportComplete`). Survival and the verdicts speak of
the time until a run is started on something else than the original (`Clean`);
beyond it survival is false, and `mutation_rerun` shows how. `IInv` says,
for each `pc`, which of the file, the backup and memory is the original; `TInv` the
same of what the present run found, whatever that was; `CInv` splits the mutants
a run has to try into those with a record and, behind them, those still in
`indices`, which needs that sampling every `total / max`-th site keeps the order.

### ScrapyDownloaderProofs

For all sets of requests and slots, concurrencies, delays and ages of the
collector (`SlotsAssumption`: a slot with a delay draws some delay that is not above
the nominal one, which a factor between 0.5 and 1.5 does; the clock counts past
`GcAge` and every delay): `TypeCorrect`, `NothingIsLost` (`NothingLost`),
`BackoutTheorem` (`BackoutBounds`), `SpacedTheorem` (`SpacedPops`), `ServedInOrder`
(`FirstInFirstOut`), `ConcurrencyTheorem` (`ConcurrencyWithDelay`).

`Core` ties the three records that the code keeps of a request: `stage`, the
queue and the sets of its slot, and the loop's queue. `_process_queue` pops any number
of requests at once, so what it leaves is described by `Served`, for any number of
pops, and `ServedPlacement` proves `Core` of that. Spacing needs `SinceInv` besides: a slot
that was collected had not popped for longer than its delay, so that the age of its
successor may start anew. Concurrency needs `LaunchInv`: under asyncio and with a
delay, a popped request's coroutine is ahead of the slot's next timer in the loop's queue,
so it is transferring before the slot pops again; `close` cancels that timer, and the
theorem speaks of the time before it (`ClosedForGood`: nothing scheduled comes after).

### ScrapyEngineProofs

For all finite sets of requests and direct downloads, all items and all limits
(`EngineAssumption`): `TypeCorrect`, `ClosingDrains` (`ClosedDrained`),
`FinishedIsFinal` (`FinishedMeansFinished`), `PipelinesLast` (`PipelinesCloseLast`),
`AwakeOnWork` (`NeverSleepsOnWork`). `Control` relates the places of
`close_spider_async`, `start()`, `stop_async` and `nextcall`; only the end of
closing cancels `nextcall`. `Drained` says what `slot.closing` having fired is worth,
`ShutDown` the same of the scraper after `stop_async`. `NeverSleepsOnWork` is inductive
given these: each step that ends a backout is followed to its `nextcall.schedule()`, and
a call that breaks on a `None` leaves the heartbeat running.

### ScrapySchedulerProofs

For every set of requests of whatever slots, priorities and kinds, and any number of
resumptions: `TypeCorrect` (`TypeOK`, with `CurprioLeads`) and `PromiseTheorem`
(`KeepsPromise`): the scheduler implements `RequestStore`. `IInv` says of every line
that it holds requests of its key in the order they came in (`LineOK`), of
every queue that `curprio` leads (`QueueOK`), and that a request is in one place.
`TurnFacts` shows that the loop of `pop` then comes to one line only, and
`PopLineFacts` that what it takes there goes before all others of the slot in that
store. A `None` with requests pending comes from a blank: an empty line, or a slot
without lines. `Accounts` bounds the number of blanks on disk by `owed`, so that a
refusal always has a request that could not be stored to account for it; a resumption maps blanks injectively into the old ones. In memory there are none.

### CeleryWorkerProofs

For any number of tasks and processes, any set of settings and any bound on the
mishaps: `TypeCorrect`, `NothingIsLost` (`NothingLost`), `RegistryTheorem`
(`RegistryExact`), `SettledTheorem` (`SettledOnceWhenDone`). Two deliveries of one
task share an entry of `state.requests`, a backend entry and a message, so the invariant
relates them. `Broker`: a message that is out belongs to the latest delivery, with at
most one answer on its way. `Debt`: each delivery after the first has been paid for by a
mishap, and a task that will be delivered again owes one. `Kept`: what a child or a
revocation has stored stays a final state, but for the cancellation of a late
request. `Unique`: unless a lost connection left a job running, one delivery of a task is
not over. `Registry` then gives the entry exactly. `Line` and `Fresh` say who waits
for a place and what holds before the pool accepts a job.

### Only model-checked

Liveness (`Termination`, `Terminates`, `RunEnds`, `Drains`, `CrawlEnds`): the prover
does neither fairness nor `ENABLED`. The violations are counterexamples of TLC and have
nothing to prove. The functions on sets and sequences that the modules share are not
recursive; where a fact about them needs induction on a number it goes by
`SetInduction`, over the set of the numbers for which it holds.

## Not modelled

Values of tasks, callbacks and packing of exceptions in dask; the AST work of the mutation tool; what a middleware does to a request; the
content of responses. A caller's cache that already contains tasks of the
graph is excluded by `IsInput`; a slot concurrency of 0 by `SlotsAssumption`;
requests are distinct objects in `ScrapyDownloader`.

Of the scheduler: `peek`, which only tests call; requests with `dont_filter`; other
queue classes than the defaults; a crash, after which the contents of the disk
depend on when the queuelib package writes. Of the celery worker: retries and
`Ignore`, rate limits, stamped headers, expiry, prefetch counts, shutdown, and
crashes of the main process.

The models cover a small share of the repository's lines. Most of those belong to
dask's array and dataframe expressions, celery's canvas and backends, conan's
resolver and requests: functions over large data, or I/O, whose checkouts are here
whole because their test suites are compared. `PROJECT.json` gives the reason for
each component marked `not_modelled`.

Where a definition simplifies:

* `ScrapyDownloader`: a handler that completes synchronously under Twisted ends in
  the step of `ProcessQueue` in the code, and in a later `Downloaded` here.
* `DaskLocal`: a batch reports its failures item by item. With
  `default_pack_exception`, which raises again (`local.py:344-345`), `result()` raises
  for the batch as a whole, before earlier items of it are applied; `threaded.get` and
  `multiprocessing.get` pass a `pack_exception` that does not.
* `MutationTest`: `int(i * step)` with a float step is an exact division; a mutant left
  in the file is assumed to have as many sites as the original.
* `CeleryWorker`: the result backend follows `KeyValueStoreBackend`, which does not
  overwrite a success; `store_errors` is on and `ignore_result` off. The code ends a
  job by the pid of its process; that the process still runs this job is assumed.
* `ScrapyEngine`: between the check that the spider is idle and the decision to close
  only handlers of `spider_idle` crawl, the ones the signal is for.

## Plan

1. An abstract specification of a crawl's life cycle (open, closing, drained, closed;
   nothing enters once drained), refined by `ScrapyEngine`; `IInv` of
   `ScrapyEngineProofs` has what the mapping needs.
2. The steps that liveness rests on and that can be proved: that `Drains` of
   `ScrapyScheduler` has a measure (what is queued and the blanks) which every
   `NextRequest` lowers, and the same of `DaskLocal`'s loop.
3. `DaskThreaded`: the per-thread pools and their lock.

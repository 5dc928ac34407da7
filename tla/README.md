# Workflow Automation Engine: TLA+ development

TLA+ models, TLC runs and TLAPS proofs for the engine in this repository. Paths
below are relative to the repository's root; the program is the Python package
`src/`.

## 1. The system

One FastAPI process serves tenants: it stores workflow definitions, runs them
when a webhook, a clock, a user or a replay asks for it, and answers queries. A
second process, the arq worker, runs background jobs and can run single steps.
PostgreSQL keeps everything that lasts; Redis has the rate-limit counters, the
arq queue and a pub/sub channel. The handlers of the web process are coroutines
of one event loop: code between two awaits is atomic, and nothing else is.

| Component | State it keeps | Operations | Talks to |
|---|---|---|---|
| State machine `engine/state.py` | none; two tables | validate, `transition_execution`, `transition_step` | rows of a session |
| Orchestrator `engine/orchestrator.py` | locals of one run (`order`, `skipped_steps`, `attempt`) | `start_execution`, the walk, retries, branching, `_topological_sort` | state machine, context, executors; its callers commit |
| Execution context `engine/context.py` | `executions.context` (JSONB) | `merge_step_output`, `get_step_input` | orchestrator, worker |
| Parser and graph `engine/parser.py`, `graph.py`, `models.py` | none | validation, cycle search, depth | orchestrator, workflow CRUD |
| Executors `steps/*.py`, `lib/expressions.py` | none | http, transform, condition, delay, sub_workflow | outside world; sub_workflow calls the orchestrator again |
| Webhook receiver `api/webhooks.py`, `triggers/webhook.py` | deliveries | receive: look up, verify, log, run, answer | cache, orchestrator |
| Workflow cache `lib/cache.py` | LRU entries with TTL, index by path | get, set, invalidate | receiver, CRUD; shared objects |
| Workflow CRUD `api/workflows.py` | workflows table | create, list, get, update, delete | cache |
| Execution API `api/executions.py`, `replay/` | executions, steps | trigger, list, get, cancel, replay, logs, stream | orchestrator, state machine, Redis |
| Queue worker `queue/tasks.py`, `worker.py` | jobs in Redis | `execute_step`, `dispatch_step` | state machine, context |
| Background jobs `queue/jobs.py` | none | stale cleanup, log and delivery retention | rows, past the state machine |
| Cron `triggers/cron.py` | the scheduler's jobs | load at start, tick, add, remove | orchestrator |
| Rate limiter `api/middleware/rate_limit.py` | counters in Redis | count, refuse | Redis |
| Auth and tenants `api/middleware/auth.py`, `tenants/` | tenants | register, validate, seed | rows |
| Health, metrics, errors, logging, configuration | none | queries, formatting, wiring | |

What is hard, and makes the components correct:

* **Orchestrator.** A run makes HTTP requests to the outside while all its rows
  are in one transaction that its caller commits at the end. Correct: steps run
  after their dependencies; requests go out only in turn and within the attempts;
  the statuses follow the tables, also where a status is written without them;
  outputs survive merges, refreshes and retries; others see one record of a run,
  when it is over, or none, whatever fails. (One exception leaves a run that a
  webhook then commits as it is: section 2.) Steps run one at a time, although
  README.md:213 promises parallel ones: section 3.
* **Sort.** In-degrees count mentions (a dependency may be listed twice).
  Correct: it respects dependencies, queues nothing twice, and is complete
  exactly on acyclic graphs.
* **Receiver, cache, CRUD.** Lookups, cache writes, invalidations and commits
  interleave; the cache keeps ORM instances of sessions that are gone. Correct:
  a webhook is served by the workflow its path belongs to, runs one committed and
  active revision, leaves no record of a deleted workflow, and is answered.
* **Worker, cancel, cleanup.** Several sessions on one execution: redelivery,
  stale reads, lock order, context merges, connections lost under a running
  executor. Correct: a step is not called twice at a time as long as connections
  last, the context names only recorded outputs, an ended execution has no step
  waiting, nobody waits for ever.
* **Triggers and readers.** The scheduler keeps what it found at its start while
  workflows are edited and deleted under it; a replay reads its original and its
  workflow one after the other; readers go from page to page while rows commit late.
  Correct: what is committed has its workflow and its original, an inactive
  workflow is not run, pages neither skip nor repeat, a stream tells the truth.
* **Rate limiter.** INCR and EXPIRE are two commands, with failures in between.
  Correct: how much a window lets through is bounded, no request makes a window
  longer, a counter ends.
* **Tenants.** A unique prefix stands for a key; registrations and seed runs
  overlap; each request takes a connection twice from a bounded pool. Correct: a
  key that was told works, a seed that comes late adds nothing, all are answered.

Every hazard has its line in `PROJECT.json`, with the properties aimed at it or
the reason why there is none.

## 2. Modules

| Module | Models | Notes |
|---|---|---|
| `StateMachine` | the transition tables | constants only |
| `StepGraph` | the sort as a recursive function over a step list | no state |
| `StepGraphProofs` | what that function computes, for every step list | induction over sets and functions |
| `WorkflowDefinition` | what the parser accepts, as records | CONSTANT `Workflows`, with its assumption |
| `AtomicRun` | abstract: what a run promises to other sessions | refined by `Orchestrator` |
| `Orchestrator` | one run, from call to commit or loss | composes what is above |
| `OrchestratorProofs` | its theorems | |
| `Kahn` | the sort, one loop turn per step, on any graph | `SameAsOperator` ties it to `StepGraph` |
| `GraphValidation` | the parser's cycle search, the path it reports and its depth check, and the sort behind them | extends `Kahn` |
| `KahnProofs` | the theorems of both | |
| `WorkflowCache` | the cache's methods as operators | no state of its own |
| `WebhookReceiver` | webhooks, PUT and DELETE over the cache and the rows | extends `WorkflowCache` |
| `WebhookReceiverProofs` | its theorems | |
| `QueueWorker` | jobs, cancel and cleanup on the rows of one execution | extends `StateMachine` |
| `QueueWorkerProofs` | its theorems | |
| `RateLimiter` | the middleware between its Redis commands, the counters, the clock | |
| `RateLimiterProofs` | its theorems | |
| `Tenants` | authentication, registration, profile, the pool, the seed script | |
| `TenantsProofs` | its theorems | |
| `Pagination` | the query, the cursor and the pages of both lists, as operators | no state of its own |
| `ExecutionStore` | manual triggers, cron, replays, workflow edits, pages and streams over many runs | extends `Pagination`; a run is what `AtomicRun` promises |
| `ExecutionStoreProofs` | its theorems | |
| `MCOrchestrator`, `MCKahn`, `MCWebhookReceiver`, `MCQueueWorker`, `MCRateLimiter`, `MCTenants`, `MCExecutionStore` | the instances TLC checks | |

### Orchestrator

`phase` says where the coroutine stands; each action is the code between two
points that matter (`BeginAttempt`: the counter and the queueing, `RunAttempt`:
the transition to running and the refresh, `SendRequest`: the request leaves,
`CompleteStep`, `FailAttempt`, `ExhaustStep`: the ends of an attempt). The other
variables are the code's own: `order`, `exec_status`, `step_status`, `attempt`,
`skipped_steps`. `ctx` and `row` are the two copies of `execution.context`, the
attribute in memory and the column in the transaction, because they differ: a
dict changed in place and assigned back is no change to SQLAlchemy. `db` is what
other sessions see, empty until a commit. `calls` counts requests sent. The data
of outputs is reduced to which steps have one, a template to the steps it reads
and whether it is well formed (`reads`, `sound`), a condition's value to a
Boolean. A stored definition is always one the parser accepted: create and
update validate it. A branch step that comes before its condition in the order has
run when the condition decides against it, and is not skipped (README.md:214 promises
an automatic skip): `SkipsAreDecided` and `TemplatesResolve` say what does hold.

Faults: a flush that fails (`LoseOutput`), the connection (`LoseConnection`), the
process (`Crash`). Flushes that raise kill the session, so the except branch of
the retry loop raises too, a webhook's commit fails, and the transaction is rolled back.

One exception leaves the session intact. `_resolve_condition_branches` is called
outside any try (orchestrator.py:147), and the parser accepts a branch that is null
or has members `set()` does not take (`no_list`). The condition is then completed, the
execution "running", and `EscapeFromBranch` leaves `start_execution`. The callers'
`async with` rolls back (`Rollback`), but the except branch of `receive_webhook`
(webhooks.py:188-192) commits (`CommitInExcept`): others see a record that says
"running" and that no run goes on with. `AtomicRun` has two kinds of record for
this, `IsFinal` and `Abandoned`, and `ImplementsAtomicRun` says that there is no third:
one record at most, consistent in its statuses, outputs and skips, final unless the
branch of a completed condition could not be read, and with no step half done when
it is abandoned.

### Kahn

`loop` and `next` are the position in the code's three loops; a visit of a child
takes all of its mentions at once, which is what the inner loop over the
children list does with the entries of one child. The order of those entries
in the list is the step list's order, with the mentions of one child together.

### GraphValidation

`check` says which function the parser is in, and then what it said of the graph. The
recursion of `dfs` is an explicit stack: `calls` has the steps whose `dfs` has not
returned, `at` for each step how far its loop over the children is; the list of
children is the step list with the others passed over. `color`, `parent`, `path` and
`current` are the code's own. One action is one look at a child, one return, one turn
of `_reconstruct_cycle`'s loop, or one turn of the depth check's, which is
`StepGraph!KahnVisit` with the depths of the children raised (`turn`, `depth`). The
exception that carries a cycle out of the calls changes nothing, so `calls` stays.

The parser runs on saving, the orchestrator sorts on running: `Sort` takes the steps of
`Kahn` once the parser is through, so `ParseSpec` implements `Kahn!Spec` and the run
checks both. It sorts refused graphs too, which the program never does, because the
sort itself does not ask. The properties relate the two: exactly the graphs without a
cycle and with no more than `MAX_DEPTH` steps in a row are accepted, the reported path
is a cycle and goes through no step twice, and the sort gets through every accepted
graph. The `max` of the depth check turns out to be redundant: the queue is first in,
first out, so the last dependency visited is the deepest. `MAX_DEPTH` is 3 in the run
(20 in the code, `src/engine/graph.py`), and any positive number in the proofs. Python's
recursion limit is left out: the parser refuses lists of more than
`max_steps_per_workflow` steps (50 unless configured) before it searches them.

### WebhookReceiver

A request's `pc` is the await it stands at. `objects` are the ORM instances
requests have loaded, shared by reference with the cache; `own` tells the
request whose session an instance belongs to, `lost` that a failed flush of that
session expired it, after which reading it raises. `row` is the workflows table as
committed, with a `revision` counting commits; the columns kept are those the
handlers decide by. `Update` writes only the columns whose value differs from what
its handler loaded, as the ORM does. `Locks` is the FOR KEY SHARE lock that a
flushed foreign key holds: it keeps out a DELETE and a change of the unique
`webhook_path`, and nothing else. `settled` is the revision whose PUT or DELETE has
been answered; a request remembers it at its arrival. A handler of PUT or DELETE knows
from the start which it is: a PUT that keeps its path (`putting`) needs no lock, one
that writes it (`moving`) and a DELETE wait until no webhook holds the row. `RecordError` has both
outcomes of a run that raised: nothing but the delivery is committed, or, from
`running`, the partial execution with it.

What the receiver leaves out: the 413 answer (before any state), the tenant
columns, HTTP details. `start_execution` inside it is two steps, reading the
definition and coming back.

### QueueWorker

A session's `pc` is the round trip to PostgreSQL it is about to make. `db` is what is
committed, `row` the newest version of each row, `held` whose uncommitted
transaction it belongs to. A flush writes by primary key: it waits until the row is
free and writes over whatever the row has become, while every check (`seen`, `todo`)
was made on the values loaded before: the second SELECT of `transition_step` and
`merge_step_output` returns the loaded instance. The cleanup's second UPDATE, with
the status in its WHERE, looks again after a wait. `Deadlock` is PostgreSQL's
detection. A job whose worker stops is delivered again; one that raises is not. `stale`
says that the execution is past the cutoff.

A connection lost between two statements ends its job at the next one
(`LoseConnection`). Lost while the executor is called (`LoseConnectionInCall`), it frees
the row at once, but the job goes on awaiting the executor as an `orphaned` one, and
ends when the call does (`FindConnectionLost`). Another job of the step may call the
executor meanwhile: that is the one way to two calls side by side, and `OneCallAtATime`
says so. `TimeOut` is arq's, which cancels the job and the call with it.

The orchestrator runs steps itself (README.md:50 keeps arq for "future horizontal
scaling"), and nothing in `src/` queues steps: `Init` is what `execute_step`
expects, an execution committed as running with queued steps and jobs for them
(`step_of`, where one step may have two jobs). As long as only the orchestrator
runs steps, the only running executions that are ever committed are those a webhook's
except branch leaves: that is what `ImplementsAtomicRun` proves. They, without jobs, are
all that cancel has to cancel and the cleanup to find.

### RateLimiter

A request's `pc` is the Redis command it is about to send, or `handler` when it has
been let through; `redis` has the counters, with `NoExpiry` for the TTL of a key
without one. Four variables are for the properties only: `recent`, the ages of the
requests that their count let through; `opened`, the ages of those that only the except
branch lets through; `failures`, the commands that failed; and `lost`, the counters whose
EXPIRE will never come. `RedisFails` is the except branch, after a command that was run or
was not: a request without a count, because its INCR failed or its reply was lost, and
one counted above the limit whose EXPIRE or TTL failed, pass like any other. Time
goes by between any two commands, so a request may be late with its EXPIRE.
`Limit` gives the limit of a key as `_get_rate_limit` finds it; the table itself is
data. The code counts per URL, since the counter's key has the whole path, and its
window is fixed where the docstring (rate_limit.py:79) and main.py:84 say sliding:
`LessThanTwoLimits` is what holds, fewer than two limits by their count and one more for
each failed command.

### Tenants

A request goes through authentication (a connection of its own), the limiter (a
choice here) and its handler (a connection again). `Holding` says who has a
connection, `Free` that the pool has one left. A tenant stands for its key, a key for its
lookup prefix. An INSERT waits for a transaction that has written the same
prefix, whether it is a request's or a seed's, and fails once it has committed.
`handed` collects the keys somebody was told. The seed script is a process of its own: it
checks, inserts, commits, prints the key and adds a sample workflow in a second
transaction; it may stop anywhere, and is then not resumed.

### Pagination and ExecutionStore

A session of `ExecutionStore` is the transaction of a manual trigger, a webhook, a replay
or a cron job. `selected` is past the check of `is_active` (a webhook's is made on what
the cache says, so here it is no check at all), `running` past the insert of
the execution, which holds the workflow's row through its foreign key until the
end. What the orchestrator does in between is `Orchestrator`; here the run ends
with one commit, or with nothing (`Abort`), or, a webhook's, with the commit of what it
had flushed (`CommitInExcept`), which is what `ImplementsAtomicRun` proves of it. Such a
record says "running" until a cancel or the cleanup ends it (`EndUnfinished`). `created` is `now()`, the beginning of the transaction, so rows commit
later than they are dated. `jobs` are those the scheduler found when the process
started: nothing but a restart changes them, although the docstrings of cron.py (lines 5,
247 and 285) say that edits do. `off` remembers when a workflow was last made active or
inactive. A DELETE takes the executions with it.

A client goes from page to page with the cursor of the page before, or opens a stream,
which tells the status when it begins and then nothing, because nobody publishes
to its channel. `StreamsMissNoRun` says what that means: it tells an end, or the
"running" of a record no session goes on with. The filters of `list_executions` compare
columns that a committed execution does not change, but for the status of such a
record; the filter `is_active` of `list_workflows` compares one that changes. The filters
are left out.

## 3. Runs

All numbers are TLC's distinct states. The types of a module are part of its `IInv`
(`ParseInv` in the run `kahn`).

| Run | Bounds | States | Shows |
|---|---|---|---|
| `orchestrator` | seven chosen definitions of 2 to 4 steps, and every acyclic 3-step graph over 7 dependency lists with 12 type triples; 1 or 2 attempts | 16167 | all properties of a run, the refinement of `AtomicRun`, that it ends or waits for an answer |
| `kahn` | every graph of 3 steps with up to 2 mentions each, of 4 steps over 6 lists; `MAX_DEPTH` 3 | 64531 | what the parser accepts and reports; the sort, its agreement with the operator |
| `webhook_race` | 1 workflow, 2 handlers, 3 webhooks, 1 change | 606462 | interleavings of lookups, cache writes and commits |
| `webhook_admins` | 1 handler, 2 webhooks, 2 changes at a time | 177182 | lost updates, a row deleted under a PUT, a DELETE behind a run, answers under fairness |
| `webhook_eviction` | 2 workflows, 3 paths, cache of 1, 3 webhooks, 2 changes | 7470621 | evictions and left-over index entries |
| `queue_worker` | 2 steps, 2 jobs for any of them, 1 cancel, the cleanup, 1 fault | 53261 | redelivery, double jobs, deadlocks, what a cancelled or failed execution leaves, that everybody ends |
| `rate_limiter` | 2 requests at a time, a counter with a limit of 2, a window of 3 ticks, arrivals until the counter is at 5, 2 failed commands | 254656 | late and lost expiries, how much a window lets through and failures add, that counters end |
| `tenants` | 2 requests at a time, 1 seed run, 3 keys of which two share a prefix, a pool of 1 | 39680 | a registration beside another and beside the seed, connections, that everybody is answered |
| `execution_store` | 1 workflow, 2 execution ids, 2 sessions, 1 reader, pages of 1, 2 edits, 2 starts, 2 moments | 2043759 | deletion, deactivation and restart under runs; pages and streams meanwhile |

Why the bounds are enough: a run of a workflow has no loop over data except
attempts and steps, and two attempts show a retry, its success and its
exhaustion; the proofs cover the rest. In the receiver each hazard needs one
request that loads, one that is served and one change, and `webhook_eviction` the
two changes that move a path; MaxSize 1 makes every second workflow evict. In
`queue_worker` a context is lost, a step called twice or a circle of waits closed by
two sessions and one that cancels or cleans up; the fault comes at any point.
In
`rate_limiter` one request can be late with the expiry while the other goes through the
limiter again and again, fills the window and begins the next; two failures let one
request pass over the limit and one without a count; counters do not influence each other, so one is enough. In
`tenants` a pool of one makes everybody wait for everybody, and two keys with one
prefix collide; the proofs cover several seeds. In `execution_store` a page of one makes every second execution follow
a cursor, two moments let a row commit with an earlier date than one committed
before it, with the same and with a later one, and two edits switch a workflow off and on or
delete it, or create it and do one of these. Deadlock is not checked where the bounds stop everybody: a run that
ended, and handlers whose bounds (`MaxRequests`, `MaxChanges`, `MaxCount`, `MaxEdits`,
`MaxStarts`, `MaxTime`, the keys) are used up.

Claims the code does not keep, one run each, with TLC's counterexample:

| Run | Claim | What happens |
|---|---|---|
| `persisted_before_proceeding` | README.md:127, every transition persisted before execution proceeds | flushed, not committed, until the run is over |
| `metadata_reaches_sub_workflow` | orchestrator.py:91, metadata stored for sub_workflow access | never written; every sub_workflow step fails |
| `stale_not_served` | cache.py:129, no stale data after PUT and DELETE | a lookup under way caches after the invalidation |

Other disagreements of code and comments met while modelling; the models follow the code:

* README.md:213 says "Steps run in dependency order, parallel where possible". The walk
  (orchestrator.py:124) awaits one step after the other, also where none depends on the
  other: `ProgressInv` and `AtHandInv` of `IInv` and the theorem `RunIsSequential` describe
  the code here, and are no claim that it should be so.
* README.md:222 says "Real-time step status updates via Server-Sent Events". Nothing in
  `src/` publishes to the channel a stream listens on, so it tells the first status and
  nothing else; whoever opens one on a record a webhook left "running" is not told when a
  cancel or the cleanup ends it. `StreamsMissNoRun` is what holds.
* README.md:214 promises an "automatic skip of non-taken branch". A branch step that
  comes before its condition in the order has run; and a branch that is no list of ids,
  which the parser accepts, stops the run with an exception.
* README.md:215 says "configurable timeout". http.py:62 takes `timeout_seconds` from the
  step as it comes: null is no timeout, a number one for each read, not for the
  request. A run may wait for an answer for ever (`RunEnds`).
* cache.py:72 looks up by path, but an eviction leaves the path in the index
  (cache.py:105 removes the entry first). Once the workflow has a new path and is cached
  again, its old path leads to it. `ServesItsOwner` is what holds.
* cache.py:51 says None for an expired entry; when a flush failed in the session that
  loaded the cached object, removing the entry raises instead (`ReceiveExpired`).
* context.py:5 says the database merges outputs; two workers on one execution write the
  whole column back, and one output is lost. `ContextHasOutputs` is what holds.
* cron.py:5 says that edits reach the scheduler; they do not.
* seed.py:7 calls the seed "Idempotent — safe to run multiple times"; two that overlap may each add a tenant
  (`LateSeedAddsNone` is what holds), and one that stops before it prints leaves a
  tenant whose key nobody has.
* rate_limit.py:79 and main.py:84 say sliding window; rate_limit.py:36 gives the stream
  30 requests per minute, its table 100; rate_limit.py:21 says more specific prefixes come
  first, and `POST /api/workflows/` stands behind `POST /api/workflows`.

Each property of a passing run has a mutant in `PROJECT.json`: a definition
introduced by "Mistake:" in the module, put in the place of the real one, that
breaks it.

## 4. Fairness

`Orchestrator!FairSpec`: weak fairness of what the program does by itself
(`Advance`), except while a request waits for its answer. A delay is at most an hour, and the
event loop resumes a coroutine whose await is over; but an http answer may never
come, since `timeout_seconds: null` is no timeout and httpx counts anew with every
chunk it reads. `RunEnds` accordingly says that a run ends or waits for an answer for
ever. Being called and faults are not fair. `WebhookReceiver!FairSpec`: weak
fairness of each handler; PostgreSQL grants a row lock when it is free, and a
flush or a PUT whose workflow is gone fails by itself. Arrivals, expiry and other
faults are free. Weak fairness is enough for a DELETE behind the webhooks that
hold its row because the number of webhooks is bounded; in the program an endless
stream of webhooks could hold it up. `QueueWorker!FairSpec`: each session goes on,
strongly fair since PostgreSQL queues the sessions that wait for a row; one of a
circle is aborted; an executor ends, at the latest when arq cancels its job past the
timeout; the cutoff passes, and the cleanup is scheduled every hour. Being
cancelled and faults are not fair. `RateLimiter!FairSpec`: the clock goes on, and each
request, whose commands Redis answers or refuses; arrivals and failures are free.
`Tenants!FairSpec`: each request and each seed run goes on, weakly fair where nothing
can take away what it waits for; strongly fair where others can (a connection, a
prefix another transaction has written), because the pool and PostgreSQL serve their
waiters in order. `ExecutionStore` states no liveness: a run ends by `RunEnds`.

## 5. Proofs

`StepGraphProofs`, for every step list: what the recursive functions of `StepGraph`
compute. Nothing is assumed but `IsGraph` (distinct ids, dependencies in the list).
Its first part is induction in a form the provers can use: a set that has 0 and with
every number its successor has them all (`AllOf`), and a function that goes on by a
given step exists (`RecursionOf`); from these, what a recursive definition equals
(`PickedUnfolds`, `TurnsUnfold`) and what holds at every turn. A turn keeps `Sorts`:
in-degrees count the mentions still awaited, exactly the steps that await nothing are
queued or in the result, and the result has dependencies first. Each turn takes one
step until the queue is empty (`TurnsSort`) and then nothing changes (`TurnsStand`),
so that one turn per step is enough; without a cycle a set of steps that were left
out would have one that awaits nothing. `SortIsTopological` says it for the operator.

`OrchestratorProofs`, for every set `Workflows` that satisfies
`WorkflowsAssumption` (the parser's checks, the absence of cycles among them, which
`ParserIsExact` derives from the search; that the sort then returns a topological order is
`SortIsTopological`): the type invariant, each safety invariant
and action property of the run `orchestrator` (`IInv` has the types, and
`CallsWithinAttempts`; `OneStepAtATime` follows from it), and that the orchestrator implements
`AtomicRun`. The safety properties are not inductive: that dependencies come
first needs to know that everything before `pos` is finished and everything
after it untouched. `IInv` says that (`ProgressInv`), what the phase says of the
step at hand (`AtHandInv`) and of the execution (`PhaseInv`), that `order` is
topological (`OrderInv`), and that the context column holds the outputs of the
completed steps (`ContextInv`). Of conditions it says that one whose branch cannot be
read is the last step the loop got to, in a run that escaped (`BranchInv`). One lemma
per action shows that it is kept;
the theorems follow from it without further induction. The step to `AtomicRun` is
that a commit happens only from `returned`, where `IInv` makes the record final, or from
`escaped`, where it makes it one that is `Abandoned` (`EscapedRecordIsAbandoned`), and
every other action leaves `db` alone.

`KahnProofs`, for every set of graphs, cyclic ones included: the invariant that
in-degrees count missing mentions, that dependencies precede and nothing is queued
twice, and that the sort is complete exactly on the acyclic graphs. The half from
acyclic to complete takes a set of unvisited steps without a least one; the other
half orders a set by its first visited member. `SameAsOperator` takes a second
invariant on top, `TurnInv`: between two turns the loops' variables are the fields of
`Turn(Len(result))`; inside the children loop they are on the way from one turn to the
next, with the in-degrees of the steps already passed lowered and those of them that
were freed queued (`InVisit`).

Of the parser's checks, for every set of graphs and every `MAX_DEPTH`, it proves
`AcceptsShallowDags` and `ReportsACycle` from `CheckInv`. `CallsInv` says that the gray
steps are the calls, each a child of the one below it and with it as `parent`;
`LoopsInv` that whatever a loop has passed is black or being called by it. So the
children of a step that returns are all black, and none of its dependencies is: had one
finished before, it would have waited for the step. Hence a set of black steps with
the new one in it has a member that depends on none of the set, the new one
(`BlackInv`), and when everything is black the graph has no cycle. A cycle that is
reported is read off the calls (`Follows`): `_reconstruct_cycle` goes from the last call down to the
one that was found again, and never comes to its `None`. For the depths,
`DepthInv` has both bounds: each step stands at the end of as many steps in a row as
its depth says, and is deeper than each visited dependency, whose depth does not
change any more. With all steps visited a path therefore never gets ahead of the
depths (`DepthIsLongest`, by induction along it with `AllOf`). `ParserThenSort` carries what is
proved of the sort over, and with it `AcceptedIsSorted`: nothing the parser accepts
loses a step in the sort.

`QueueWorkerProofs`, for any number of steps, jobs, cancels and faults, from
`QueueAssumption` alone (the identifiers differ): the type invariant and every safety
property of the run `queue_worker`. Two sessions each check what they loaded and write
without looking again, so none of the properties is inductive: they hold because of
who holds which row at which place. `IInv` says so. A row nobody holds is as
committed (`FreshInv`), a job holds its step from the first flush to its end unless its
connection is lost, and an orphaned one holds nothing (`LockInv`), and a step written but unfinished is one whose executor is being called
(`WaitingInv`). Who ends the execution is still to go through its steps
(`EndedByInv`), and until it commits each unfinished step is before it or in its
hands (`EnderInv`); this gives `EndedHasNoneWaiting`. A context, loaded or written,
names only steps whose output is committed or is committed with it (`SeenInv`,
`ContextInv`), and outputs are never taken back (`OutputsKept`). The cleanup holds
finished steps as it found them (`CleanerInv`), which makes its commit harmless. As
in the other modules there is one lemma per action.

`RateLimiterProofs`, for any number of requests and counters, any limits and length of
the window: `WindowsAreNotExtended`, which is no invariant of the counters alone. A counter may
be given an expiry only if it has none, and whoever is about to give one must find
that still true: `IInv` says that a counter is owed its expiry by at most one
request, exists and has no expiry meanwhile, so that it cannot end or begin anew
before it is paid (`CountersInv`). `LessThanTwoLimits` needs the record of what passed to
be read in two parts (`Splits`): up to some place, fewer than the limit, what passed under
counters that are gone, after it what passed under the one that is there, no more than it
has counted and than its limit. What the except branch lets through is counted apart:
a failure adds at most one to `opened` (`OpenedInv`), and time only takes from it. The ticks since the counter's expiry was set have gone
over all of the first part, and over the first of the second when that part has all it
can have: when the counter ends, the first part is older than a window, and so is one of
the second if it was full. Each command, each tick and each expiry keeps such a place.

`TenantsProofs`, for any number of requests, seeds, keys and connections: types,
`HandedKeysWork` and `LateSeedAddsNone`. `PrefixesDiffer` ranges over what is committed
and what is about to be (`Pending`), which is what the waiting of an INSERT keeps;
`ToldIsCommitted` says who may tell a key; `LateSeedFinds` that tenants are never taken
back.

`ExecutionStoreProofs`, for any number of workflows, executions, sessions, clients and
edits: `RecordsAreWhole`, `DeactivatedStaysQuiet` and `StreamsMissNoRun`. A session
refers to rows that others may delete until it inserts: `SessionsRefer` says that as
long as the workflow is there so is the original, and `RunsHold` that from the
insert on the workflow stays. `SessionsBeganActive` carries the check of `is_active` to the
commit: who passed it began before any change of it. What is committed is over or a
webhook left it (`CommittedIsOver`), and an id once used changes in no other way than from
"running" to its end, or goes (`Moves`): so what a stream has told stays true
(`Told`). `PagesAreExact` is about sequences built page by page: a reader has
nothing yet of what lies ahead of its cursor, and all of what lies behind it and was
there when it began (`PagesInv`). A page is the least rows that follow the cursor; that
sorting by place lists each row once and that a page cuts off a lower part of the order
is proved from the order of (created_at, id) alone (`SortedFits`, `PageFits`). Commits only
add rows that were not in the base, however they are dated, and deletions take rows
from both sides.

`WebhookReceiverProofs`, for any number of workflows, paths, webhooks and changes and
a cache of any size: `ServesItsOwner`, `RunsAnActiveRevision` and `NothingOfDeleted`. A
cached instance may be older than its row, and outlive it, so what it says is
related to what was committed rather than to the row: an instance is one of the
`revisions`, and its path was made for it (`InstancesAreKnown`). An eviction leaves
paths in the index; `CacheSound` says only that each leads to the workflow it was made
for, which every method of the cache keeps and a hit needs. `RequestsRefer` carries the
check of `is_active` to the run, and says that a handler past its first flush has a row
to refer to: the foreign key found it, and a DELETE waits for its `Locks`. The
invariant is in no run's list, because the theorem says more; TLC finds it to hold
in the configurations of all three runs too. `CacheInv` has an invariant of its own
(`CacheIInv`): beside the order of the entries it needs that an instance from the table has
a path (`InstancesHavePaths`), since `set` indexes by it.

Only model-checked: every liveness property (`RunEnds`, `Answered`,
`EveryoneEnds`, `StepsEnd`, `CountersEnd`, `RequestsEnd`), since the prover does
not handle fairness. Every other property of the passing runs is a theorem. The library's
induction theorems, which take an operator, cannot be instantiated; where induction over data
was needed it is done with sets (`StepGraphProofs`).

## 6. Order of development

1. `Orchestrator`, `Kahn`, `GraphValidation`, `WebhookReceiver`, `QueueWorker` and the
   proofs of `Orchestrator`, `Kahn` and `QueueWorker`.
2. `RateLimiter`, `Tenants`, `Pagination` and `ExecutionStore`, with proofs.
3. The proofs of `WebhookReceiver`.
4. The proofs about sequences: the order of the cache, the record of the rate limiter, the
   pages, and the sort as an operator.
5. The proofs of `GraphValidation`, with the search as actions over an explicit stack.

## 7. Not modelled

* `steps/sub_workflow.py` beyond its failure. Every sub_workflow step fails for want of
  its metadata before it reads anything (`metadata_reaches_sub_workflow`), so a model
  of nesting would have states the program cannot be in.
* The two retention jobs of `queue/jobs.py`: each deletes rows by their age, weeks after
  anything here is over.
* Key hashing (library code), metrics, health and single-row GETs (read-only queries),
  execution logs (rows nobody writes), logging and error formatting, configuration,
  migrations and row-level security policies (declarations), the template language.
* When APScheduler ticks: any moment is one. The day-of-week numbers it is given are its own.
* Settings of a workflow the engine never reads (`retry.delay_seconds`,
  `execution_timeout_seconds`, `max_concurrent_steps`), and functions nobody calls
  (`record_execution_log`, `add_cron_job`, `remove_cron_job`).
* The table of route limits, and Redis clients that are made for every request and
  never closed.
* The filter `is_active` of `list_workflows`: a workflow switched off and on between two
  pages is left out of both, and nothing says it should not be.

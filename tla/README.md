# A verification project for trio-parallel

TLA+ modules of the program in `src/`, model-checked with TLC and proved about
with TLAPS. `PROJECT.json` lists components, runs, faulty variants, the source
lines of every definition, findings, hazards and theorems. In this file paths
are relative to `src/`.

## 1. The system

trio-parallel runs synchronous functions in worker processes on behalf of trio
tasks. One call crosses these parts:

    task -> run_sync -> WorkerContext.run_sync -> SpawnProcWorker.run_sync
              limiter     ContextLifetimeManager     FdChannel / FdStream
                          WorkerProcCache               |  two pipes
                                                     worker_behavior -> job

| Part | State | Operations | Speaks to |
|---|---|---|---|
| worker process, `_trio_parallel_workers/__init__.py` | position in its loop, its pipe ends | `worker_behavior`, `handle_job`, `safe_dumps`, `safe_poll` | handle, through two pipes |
| worker handle, `trio_parallel/_proc.py` | the process, four pipe ends, two channels | `start`, `run_sync`, `is_alive`, `shutdown`, `kill`, `wait` | worker process; context and cache (calls) |
| channel, `trio_parallel/_posix_pipes.py` | a descriptor | `send`, `receive` | kernel pipe |
| cache, `WorkerProcCache` | a deque of idle handles | `prune`, `pop`, `append`, `shutdown` | handles |
| context, `trio_parallel/_impl.py` | lifetime counters, waiting task | `run_sync`, `statistics`, `_aclose` | cache, handles, limiter |
| context selection, `trio_parallel/_impl.py` | a global, a tree variable, a run variable, atexit handlers | `get_default_context`, `configure_default_context`, `cache_scope` | contexts |
| abstract interface, `_abc.py` | none | what a worker and a cache promise | |
| Windows pipes, `_windows_pipes.py`, `_windows_cffi.py` | a handle | `send`, `receive` | completion ports |
| pipeline example, `docs/source/examples/async_parallel_pipeline.py` | channels, one limiter | `to_process_map_as_completed`, `data_generator`, `amain` | `run_sync` |

What is hard here, and what makes each part correct:

* **handle and process.** Two sequential programs joined by two bounded pipes.
  The worker may leave at any moment (idle timeout, retirement, a fault, a
  crash) while the main process writes a job, and the main process may cancel,
  shut down or die while the worker does anything. Correct means: a job handed
  back for another try never ran; a finished job is not reported as lost; a
  result belongs to its call; a worker that is given up is dead; a clean exit
  is never reported as a crash; every call ends.
* **context and cache.** Tasks interleave at every await, processes die
  between any two steps, and the cache is shut down in another thread.
  Correct means: a worker serves one task at a time; no process is forgotten;
  there are no more processes than the limiter allows; the context closes
  after the last task, is woken exactly once, and leaves nothing behind.
* **default context.** Several trio threads share it without a lock. Correct
  means: the deque loses and duplicates nothing, and the counts settle.
* **context selection.** A call finds its context through the tree of tasks, the
  trio run or a global, and each of these closes it at another moment. Correct
  means: no context closes under a call that found it, and whatever has workers
  has something that will stop them, also after an exception or at exit.
* **start on Windows.** Two tasks in a nursery cancel each other while the caller
  may cancel both. Correct means: start ends, what it returns has answered, and
  what it gives up leaves no process.
* **pipeline.** Tasks hold tokens of one limiter while they wait for tasks that
  need tokens. Correct means: bounded, complete, and it ends.
* **channel.** Partial reads and writes, two kinds of end-of-file, EPIPE,
  EBADF.

The full list of hazards, each at its line with the properties that cover it,
is in `PROJECT.json`.

## 2. The modules

| Module | What it is |
|---|---|
| `WorkerProc` | one handle and its process, chunk by chunk through two pipes |
| `WorkerContract` | what a worker promises the context: the abstract specification |
| `WorkerRefinement` | the mapping under which `WorkerProc` implements `WorkerContract` |
| `WorkerContext` | one context in one trio thread: tasks, limiter, cache, close, shutdown thread |
| `SharedContext` | the default context in several trio threads, one atomic operation per step |
| `ForkSiblings` | several forked workers, and who holds which end of whose pipes |
| `DefaultContext` | which context a call finds, and who closes it: POSIX and Windows, scopes, reconfiguration, exit |
| `WindowsWorker` | `start` with its nursery, and message pipes that are read in two parts |
| `Pipeline` | the documented pipeline on one limiter |
| `MCDefaultContext` | symmetry for TLC |
| `WorkerProcProofs`, `WorkerRefinementProofs`, `WorkerContextProofs`, `SharedContextProofs`, `ForkSiblingsProofs`, `WindowsWorkerProofs`, `DefaultContextProofs`, `PipelineProofs` | the theorems |

`WorkerProc` composes the worker process, the handle and the channel: they share
the pipes, and none of them means anything alone. `WorkerContext` is written
against `WorkerContract` and not against `WorkerProc`: a running worker either
returns, or is dead. `ContractImplemented` is what allows that.

### WorkerProc

`call` is the main coroutine's place in the handle (`send`, `recv`, `wait`, ...),
`pc` the worker's place in `worker_behavior`. `open` is the set of open pipe
ends, one element per copy a process holds, so end-of-file is computed, never
assumed: `ResEof` is "nothing buffered and no writer left". A message is a
number of chunks; the first is the 4-byte header unless the message goes out in
one write, so end-of-file after at most one chunk is `EOFError`/`EndOfChannel`
and later an `OSError`. The sentinel `dumps(None)` is one chunk.

Each await, blocking call and user callable ends an action. What runs without
one is a single action: for instance `ReadEof` also closes the send end, because
`_proc.py:112` follows the exception without an await. `init`, the job and
`retire` may return, raise `EOFError`/`BrokenPipeError` (taken for a closed pipe
by `worker_behavior`), raise anything else, or spin. `Die` is a crash or a signal
from outside, at any place; `Killed` is the same step once the main process has
sent SIGKILL, and the only form of it that is fair. The result of
`run_sync` for job `j` is `outcome[j]`; `retry` stands for `None`.

The start method and `EAGER_CLEANUP` are drawn from sets at the start of a
behaviour. With `"fork"` the worker starts in the event loop's own turn and has
copies of the main process's ends, which `Boot` closes. `EAGER_CLEANUP = False` is
the repository's own test hook, which widens the race between a late job and
the sentinel.

### WorkerContext

One variable per fact: `task[t]` (place in `WorkerContext.run_sync`), `uses[t]` (its
local `worker`), `cache` (the deque, right end last), `entrances`/`exits`, `closer`
(`_aclose`, then the thread running `WorkerProcCache.shutdown`) with that thread's
deque iterator (`idx`, `current`, `mutated`). `prune` runs inside `Enter`, where no other
thread uses the deque yet, and `__aexit__` inside every action that leaves, as in the code.
`statistics` runs in the event loop too, so no task steps while it does (`EventLoopFree`),
but the shutdown thread may run at the same time, and workers die: its `prune` is one
action per operation, `StatisticsPopLeft`, `StatisticsIsAlive`, `StatisticsAppendLeft`
(`pruning`, `popped`). The history variable `missed` keeps which worker it had in its
hands when each loop of shutdown made its iterator (`ShutdownBegin`, `JoinBegin`).
Workers are names that can be reused once nothing refers to them; which unused name a
new one gets makes no difference.
`killed` workers are joined in `ShutdownEnd`. A call is either allowed to be
cancelled (then the cancellation kills its worker) or it is not, and then only
the limiter and the checkpoint in the retry loop notice it.

### SharedContext

What the GIL makes atomic (one deque method, one `next` of a counter, one
attribute store) is an action; everything between may interleave. Starting a
worker is part of `Pop` here: `WorkerContext` has it in steps. There is no close,
because the default context is closed at exit only (POSIX).

### ForkSiblings

`sendEnds[w]` and `recvEnds[w]` are the processes that hold the main process's two
ends of the pipes of worker `w`: the main process, and every worker forked while
it had them open (`Inherited`). `Boot` is `ForkProcWorker._run`, which closes the
child's copies of its own handle's ends and no others; a process that ends lets go
of all it holds (`Gone`). A worker sees end-of-file when `sendEnds[w]` is empty.
Workers are numbered in the order of their forks. One trio thread and one context;
`WorkerProc` has the chunks, the order of a leaving worker's closes, and the kill
after the grace period, which never ends here: what `WorkersUnwind` says is that
none is needed.

A consequence for a finite grace period, which no document contradicts: a young
worker in user code that does not return keeps its healthy elder siblings from
seeing end-of-file, so they are killed with it when the period ends.

### DefaultContext

Which context a call gets, without what happens inside it: a context is open,
closing or closed, and has idle workers or not. A task is a stack of frames,
scopes and nurseries, each with the value that the tree variable
(`tricycle.TreeVar`, external) has inside it; a child belongs to a nursery of any
task of its run, whoever starts it, and inherits that nursery's value (`Inherited`).
`configure_default_context` is in two steps, since other threads run meanwhile, and
may be cut short by `KeyboardInterrupt` between any two of its statements
(`NewDefault`): it is not protected against it, and neither is `get_default_context`
(`MakeRunContext`). `handlers` is the list of atexit handlers, with `multiprocessing`'s
own as `NoContext`. POSIX and Windows are two kinds of initial state.

### WindowsWorker

`main`, `ack` and `waiter` are the three tasks of `start`: the one in the nursery's
block, `wait_for_ack`, and the wait for the process, which is in the block itself
but can be interleaved with the first all the same. `nursery` and `cancelled` are
the two cancel scopes that can end them. A message is sent in parts and read part
by part; `TakePart` is one read, and a message that is read in part is torn until
`ReceiveMore`. What the worker does besides is reduced to what `start` and the pipe can
see; `WorkerProc` has it.

### Pipeline

The stages' worker tasks are counted by where they are (`computing`, `sending`,
`sent`), for they are alike. The limiter's queue is explicit, because the order in which
tokens are given decides whether the generator starves the stages. So is trio's
scheduler: a batch of runnable tasks in any order, each once (`NewBatch`, `Runs`), since
a generator that gives its token back and asks again without an await in between
depends on who has run in between. A job may raise, and the consumer may cancel
everything.

## 3. The runs

The runs take seconds, `context` and `default_context` two to three minutes.
None checks for deadlock: a system in which every job has been submitted, the
context closed or the process gone may really stop.

| Run | Question | States |
|---|---|---|
| `worker` | is every answer of `run_sync` right, does it come, does shutdown end, are there no orphans, is the contract implemented, for spawned and forked workers, with a narrow and a wide race? | 22 525 |
| `context` | sharing, losing, bounds, counts, closing, with statistics at any time; does a cancelled call end, does closing end, what does it leave? | 219 669 |
| `default_context` | does no context close under a call, has every worker something that stops it, is the exit graceful? | 2 049 644 |
| `pipeline` | backpressure, completeness, does it end although everyone holds tokens? | 132 364 |
| `shared_safe` | two threads on one deque: sharing, losing, does pruning end unless workers die for ever? | 78 874 |
| `fork_siblings` | do forked siblings end, do their calls, although they hold each other's pipes, and does a job find its worker free? | 11 662 |
| `windows_worker` | does `start` end and leave no process, is the acknowledgement taken, is no message torn? | 446 |

Each property of these runs is also tried against a faulty variant of one
definition (`mutants` in `PROJECT.json`, each defined right before the
definition it varies) and TLC finds it violated.

Five runs expect a violation: they state what a doc or comment says and find a
behaviour of the code that differs.

| Run | The statement | What the code does |
|---|---|---|
| `worker_truncated` | a dying worker raises `BrokenWorkerError` (`_abc.py:16`) | inside a long result it is a bare `OSError` |
| `worker_cancel` | a deadlocked call can be cancelled by terminating the process (`reference.rst:79`) | not while `run_sync` waits, shielded, for a worker it has not killed and whose exit hangs |
| `fork_drain` | closing the send end frees a failed worker that drains its pipe (`_proc.py:112`) | not while a younger forked sibling lives: it has a copy of that end, and `run_sync` waits, shielded |
| `context_abort` | `shutdown` stops all cached workers (`_abc.py:78`) | `statistics()` meanwhile makes its iteration raise, or hides a worker from it |
| `shared_stats` | statistics of a shared context are eventually consistent (`_impl.py:322`) | a thread overtaken between drawing a number (`_impl.py:74`, `:78`) and storing it is never corrected |

The first two are limits of one worker that a caller meets rarely. `fork_drain`
is a deadlock with an infinite `idle_timeout`, and a wait of up to the sibling's
`idle_timeout` without; `CallEndsOrDrains` says that it is the only way in which
siblings keep a call from ending. The last two are races a user of `statistics()`
can meet. `context_abort` shows the loud one, an exception in `_aclose`. The silent one is
that `prune` has the only living worker in its hands when a loop of shutdown begins: that loop runs
over a deque without it and ends normally. If both loops do, `_aclose` returns and the
worker was never told to end. `ClosedIsStopped` states exactly what a close without an error can leave:
the worker popped when the second loop began, told to shut down unless it was
popped also when the first did.

Some more statements in the source are narrower than they read. `_abc.py:62` says
that `run_sync` returns `None` after `shutdown`; the code raises
`ClosedResourceError` (`WriteClosed`), which no context meets, because
`ShutdownIsExclusive`. `_trio_parallel_workers/__init__.py:105` wants the
sentinel's send not to block; it does while an unread result fills the pipe
(`SendSentinel` waits for room), until the reader has read it. `_impl.py:109` says that `idle_workers` is
the number of live workers; dead ones behind a live one are counted, because `prune`
stops at the first live one (`Pruned`). `configure_default_context` warns of "zombie
workers" (`_impl.py:266`) by the statistics of the context that its caller would
get: inside a `cache_scope` that is the scope's and not the default that it
replaces, so the warning is missing, or is given for nothing. `_proc.py:75` promises a nice
error for a worker that fails to start; if the end of the pipe is seen before the end
of the process, what leaves `start` is an exception group with `EndOfChannel`
(`NurseryRaises`). The pipeline needs two tokens: with one, which is what a machine with
one processor gives it (`_impl.py:21`), the generator keeps the token while it waits
for a stage that needs it, and the example hangs; the run has two.

### Bounds, and why they are enough

* Two jobs per worker (`MaxJobs`, `worker`): the handle keeps nothing of a job but its
  number, so the second job meets every state the first can leave behind, and a
  stale result needs exactly two. The theorems drop this bound.
* Messages of one and of three chunks, pipes of two (`Sizes`, `PipeCap`): a message
  in one write, and one that has a header, does not fit the pipe and can be cut
  after the header and inside the payload. The theorems drop these too.
* Two tasks, three names for workers, two tokens, three entrances (`context`, without
  symmetry, because of the liveness properties): two tasks are inside together and leave in
  either order, and a dead worker can be in the cache behind a live one. The third name
  is what a context would need to break `WorkersBounded`. Nobody waits for a token with two tasks; that matters to
  the invariants only, which are proved for any number of tasks and tokens.
* Three tasks, two trio runs at once, three contexts, stacks of two frames
  (`default_context`): each task may be the main task of a thread's run or a child, so that
  there are a parent, a child and a grandchild, siblings of which one starts the other,
  and two threads with one task more; a scope with a nursery inside it or around it,
  nested scopes, one context more than can be open in one task. A context's name is
  used again when nothing refers to it.
* Three stages, six items, two tokens (`pipeline`): the example's own number of stages, the
  least number of tokens that works, and more items than tokens and stages hold
  together, so that `Backpressure` can fail.
* Three jobs, messages of one or two parts (`windows_worker`): two parts are all that
  `receive` ever reads. The theorems drop the number of jobs.
* Two threads, three workers, four entrances (`shared_safe`): every pair of
  operations meets, with live and dead workers in any order in the deque. The
  theorems drop the bounds.
* Two workers (`fork_siblings`): one elder, one younger, which is all that a pipe end
  relates. The chain of several rests on `NoCycleOfHolders`, proved for any number;
  three workers are beyond TLC's reach with the liveness properties.
* `MaxEntrances` bounds the lifetime counters; they are never reset, and only
  their difference is used.

### Fairness

* `WF(MainStep)`, `WF(WorkerStep)`: trio runs a task that can run, the operating
  system a process that can run. Neither includes what callers or user code
  decide: `Submit`, `Cancel`, `Shutdown`, `Spin`, `ExitHangs`, `Die`, `PollTimeout`.
  `JobDone` is in `WorkerStep`, but a job may `Spin` instead, and the properties say
  what then happens.
* `WF(Killed)`: SIGKILL takes effect. `WF(GraceExpired)`: a finite grace period ends.
* `WorkerContext`: `WF` of the closing thread's steps and of a `statistics` that has begun;
  `SF` of each task's step, because statistics may be called again and again, and then
  no task's step is enabled all the time: but a runnable task is in trio's next batch,
  and `trio.CapacityLimiter` serves its waiters in order.
  `CloseCompletes` is conditional on `SF(Return(t))`: without it a call can meet
  dead workers for ever (an `idle_timeout` of zero does that) and a context cannot
  close under it. `CancelledLeaves` needs no such condition: a cancelled call
  leaves that very loop.
* `SharedContext`: `WF` of each thread's step. `StatisticsReturns` holds unless workers die for
  ever: the other thread could feed dead ones to the pruning loop as long as that
  goes on, whatever `MaxEntrances` is.
* `ForkSiblings`: `WF` of each worker's step and of the main process's step with each
  worker. `IdleTimeout` is not fair, because `idle_timeout` may be infinite; nor are
  `Fault`, `Spin`, `Cancel`, `Shutdown`, `Fork` and `Die`.
* `Pipeline`: `WF(Next)` only. Some task that can run does; which one is the
  scheduler's choice within a batch.
* `WindowsWorker`: `WF` of the main process's steps, which include the collection of a
  dropped worker (CPython collects it when its last reference goes), of the worker's, and of a kill. `Spin` and
  `IdleTimeout` are not fair.
* `CancelSpec`, used by `worker_cancel`, adds that the caller does cancel.

## 4. The proofs

`WorkerProcProofs` proves six properties of `worker` as theorems of `SafeSpec`,
for all values of `MaxJobs`, `Sizes`, `PipeCap`, `StartMethods` and `EagerCleanups` that
satisfy `WorkerProcAssumption`. Nothing else is assumed.

None of the properties is inductive. A result that is *in* the pipe when the
process dies is what makes `FinishedIsDelivered` true, so the invariant has to say
what the pipes hold. `IInv` is a conjunction of eight parts:

* `TypeOK`;
* `EndsInv`: which ends are open at which place of either side;
* `ProgressInv`: the worker is never ahead of the caller, and `run`/`send` mean that
  the latest job is begun and not answered;
* `JobPipeInv`: the job pipe holds chunks of the latest job, and only while the
  worker has not begun it;
* `ResPipeInv`: the result pipe holds chunks of the latest job, a last chunk only
  if it is finished, then at most one sentinel;
* `DeliveryInv`: while the caller is receiving, a finished job's last chunk is
  still in the pipe, and a worker that left cleanly has its sentinel there. With
  it `ReadEof` (pipe empty) cannot happen to a finished job or to a clean exit;
* `CauseInv`: why the worker left its loop, by its place;
* `OutcomeInv`: what `run_sync` has decided stays right until the process is
  dead, because a worker that is leaving never begins a job.

There is one lemma per action (`<Action>Step`: it preserves `IInv`), one for the
initial states, `NextIInv` puts them together, `InvariantHolds` is the temporal
step and each property follows from the invariant.

`WorkerRefinementProofs` proves `SafeSpec => ImplementsContract`: the actions are
sorted into those the contract does not see and those that map to one of its
steps; the latter need the invariant (for instance `ReadMessage` maps to
`ReturnOutcome` only because `ResPipeInv` says whose chunk it is).

`SharedContextProofs` proves `TypeOK`, `WorkerHeldOnce` and `NoWorkerLost` for every
number of threads, workers and calls. Together they are almost inductive; what is
missing is `HoldsInv`, that a thread has a worker in hand exactly at the places
where its code has one, without which a step that takes a worker could drop
another. Four lemmas say what `append`, `appendleft`, `popleft` and `pop` do to the
members of a sequence and to its being free of duplicates.

`ForkSiblingsProofs` proves `TypeOK`, `OnlyYoungerHold` and `OneExchange` for every number of
forked workers. `UnforkedInv` (a worker not yet forked has neither process nor pipes) makes
it inductive: all the ends that a new worker inherits then belong to elders. The
theorem is the safety half of why siblings can end: the relation "holds an end of"
follows the order of the forks, so it has no cycle, and the youngest living worker
waits for the main process only. It carries the two-worker result of `WorkersUnwind`
to any number as an argument, not as a proof. `OneExchange` needs two more invariants
(`FreshInv`, `InOnePlace`): while an answer is awaited its job is in the job pipe, at work or a
result in the result pipe, never in two of these, so a call that has received its
answer leaves a worker with nothing of it.

`WorkerContextProofs` proves all eight invariants of `context` for every number of tasks,
workers, tokens and calls. The invariant has five parts:

* `TypeOK`;
* `HoldInv`: `WorkerHeldOnce` and `NoWorkerLost`, with what makes them inductive: a task
  has a worker in hand exactly while it starts or runs one, statistics exactly between
  popleft and appendleft, and a worker that is being started has no process yet;
* `BoundInv`: the tasks that hold a token are no more than the tokens, and neither are the
  workers that live or are being started. A worker is made only when the deque is
  empty, and then every living one is in a task's hands, so the holders bound their
  number: an argument about cardinalities, not about single steps;
* `CountInv`: `RunningExact`, `WokenOnce`, and that nobody is inside once the shutdown thread
  may run. The counters are an arithmetic view of a set of tasks, and each step that enters
  or leaves changes both by one;
* `StopInv`: nothing is shut down before the thread runs; while the deque is not mutated, the
  workers that the iterator has passed have been told to end (`SignalInv`) or are dead or
  killed (`JoinInv`), and a worker out of the deque is the one that statistics held when
  the loop began: while the iterator is valid, statistics can put nothing back and take
  nothing out. So each loop that comes to its end has dealt with every living worker but
  that one. A mutation ends in `aborted`.

`WindowsWorkerProofs` proves `TypeOK`, `AckIsTaken` and `NoTornMessage` for every number of jobs.
`StartInv` relates the three tasks of `start`: a nursery that is cancelled from within has
either the acknowledgement or an exit code, so a cancelled `wait_for_ack` can only be met by a
`start` that raises. `AckInv` says that the acknowledgement is the first message until it is taken,
`TornInv` that only the first message can be incomplete.

`DefaultContextProofs` proves the four invariants of `default_context` for every number of tasks,
frames and contexts, on both platforms. That a call never loses its context
(`CallsKeepContext`) is a fact about the whole tree of tasks: what closes a context may be a
task that has never heard of the call. The invariant says

* who holds each context (`ScopeInv`, `ClosingInv`, `RunInv`, `HandlerInv`, `DefaultInv`): an open
  scope, a task that closes it, a system task of its run, or an exit handler, and never two
  of them, so that the step that closes one context leaves the others alone;
* where a value of the tree variable comes from (`TreeInv`, `ValueInv`): a nursery has the value of
  a scope below it in its task or the one its task inherited, a child has that of its
  nursery, and every value is the context of some open scope. A scope is left as the innermost frame of its
  task, so no nursery above it is open; `OnlyHolder` concludes that nobody has its value any
  more, neither a child nor a child's child;
* that a run ends after its tasks (`LifeInv`, `RankInv`): parents have lower ranks, for some
  ranking of the tasks. The ranking is what takes the place of an induction over the
  tree: of any set of tasks that are not main tasks one has a parent outside the set
  (`TopmostTask`, from the library's well-founded order on the numbers), so a
  set closed under "parent" is empty (`RunIsEmpty`, `OnlyHolder`);
* what a call in progress uses (`CallInv`) and what will close a context with workers
  (`CloserInv`). `CallFacts` derives `CallsKeepContext` from them.

`PipelineProofs` proves the three invariants of `pipeline` for every number of stages, items and
tokens, and `NoItemIsLost`, the conservation law they rest on. The model counts tokens
and items per stage, and the properties are about the sums over the stages. `Sums` is a recursive
function; `SumsExist` shows that one exists that satisfies the recursion, and `SumPoints`, `SumBound` and
`SumZero` say what happens to a sum when two of its terms change, when each
is at most one more than another's, and when all are zero. Each is an induction over a *set* of
numbers (`StageInduction`), which needs no operator for a parameter. The invariant is

* `TokenInv`, `QueueInv`: the limiter lends no more than it has, and who waits is in its queue, once;
* `ProducedInv`, `ItemsInv`: every item handed over is delivered, at the consumer, or in a stage;
* `EndInv`: a stage drains only after all before it have closed, and is empty when it closes. With
  `ItemsInv` that is `EndIsComplete`;
* `DueInv`, `WokenInv`: what trio's batches guarantee about a consumer that has a result and has not
  run yet. The result's worker task still holds its token, or the token is free again, or it is with
  somebody who was given it in this batch and cannot use it before the next one.

`Backpressure` says that fewer than `TotalTokens + NumStages` items are between the generator and the
consumer. A stage has at most one item more than it has tokens (`SumBound`), so the sum is at
most that; the work is to show that one place stays empty. Only the generator adds an
item (`BackpressureStep`). When it does, it holds a token itself, which carries no item, and the
first stage waits for an item, so it has none without a token: there is room for one
(`RoomForOne`). If the consumer has a result that left its stage already, `WokenInv` gives the further place
that it takes. The bound is exact: TLC finds states with one item less than it.

Only model-checked: all liveness (`CallReturns`, `ShutdownEnds`, `NoOrphan`, `CloseCompletes`,
`CancelledLeaves`, `StatisticsReturns`, `WorkersUnwind`, `CallEndsOrDrains`, `PipelineEnds`,
`StartSettles`), which is out of the prover's reach: it rests on fairness and
`ENABLED`. Every invariant that a passing run checks is a theorem.

## 5. Not modelled, and what is left

1. **The bytes of a header** (`FdChannel`): a header is one chunk. Sizes, the 8-byte form for
   more than 2 GiB and its -1 are not modelled.
2. **Deadline arithmetic** (`safe_poll`, the cache's join loop): a timeout may pass at any
   moment. `MAX_TIMEOUT`, infinity, and zero as -0.1 are not computed.
3. **Two threads that fork at once**: a child forked between another's fork and the close of its
   ends inherits those too. `ForkSiblings` has one thread.
4. **Explicit contexts** of `open_worker_context`: each is an instance of `WorkerContext`, and is not
   in `DefaultContext`, since no call finds one by itself. Nor are the parameters, which
   `configure_default_context` on Windows only stores for the next context of a run.
5. **System tasks of users on Windows**: one that still calls `run_sync` when its run ends would
   meet the assertion `_impl.py:190`. `DefaultContext` has tasks of the main task's tree only.
6. **Daemon threads at exit**, which may still use the default context while its handler runs.

Out of scope: pickling itself (a job or a result can be pickled or cannot), the
cffi declarations, attribute validators, the other examples, docs and packaging. Descriptor
numbers are not modelled: an end is an identity, so the reuse of a closed descriptor's
number by another file is not representable. `KeyboardInterrupt` is held off by
`enable_ki_protection` in every function of `WorkerProc` and `WorkerContext`; in
`DefaultContext` it is part of the model where it is not held off.

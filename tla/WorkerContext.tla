---------------------------- MODULE WorkerContext ----------------------------
(***************************************************************************)
(* A WorkerContext in one trio thread: the tasks that call run_sync, the   *)
(* limiter, the lifetime manager, the cache of idle workers, the task that *)
(* closes the context and the thread in which the cache shuts down.        *)
(*                                                                         *)
(* A worker is what WorkerContract allows: a call on it returns an Outcome, *)
(* or the worker is dead.  Tasks interleave at awaits, workers die at any  *)
(* time, the shutdown thread interleaves with everything: also with each   *)
(* operation that statistics does on the deque, during which no task runs. *)
(***************************************************************************)
EXTENDS Naturals, Sequences, FiniteSets

CONSTANTS
  Tasks,        \* the tasks that use the context
  Workers,      \* names for worker objects, reused once nothing refers to them
  NoWorker,     \* not a worker
  TotalTokens,  \* total_tokens of the limiter
  MaxEntrances  \* bound: how many calls of run_sync are made

ASSUME WorkerContextAssumption ==
  /\ IsFiniteSet(Tasks) /\ IsFiniteSet(Workers)
  /\ NoWorker \notin Workers
  /\ TotalTokens \in Nat \ {0}
  /\ MaxEntrances \in Nat

VARIABLES
  task,       \* where each task is in run_sync
  uses,       \* the worker each task has taken
  killable,   \* cancellable or kill_on_cancel, of each task's call
  cancelled,  \* has the scope around each task's call been cancelled?
  live,       \* the workers whose process exists
  cache,      \* the deque _worker_cache, right end last
  pruning,    \* the operation of prune that statistics does next, or "out"
  popped,     \* the worker that prune, called by it, has in its hands
  entrances,  \* ContextLifetimeManager.entrances
  exits,      \* ContextLifetimeManager.exits
  closer,     \* where _aclose and WorkerProcCache.shutdown are
  wakeups,    \* history: how often the closing task has been rescheduled
  idx,        \* position of the deque iterator in the shutdown thread
  current,    \* the worker of the current iteration there
  mutated,    \* has the deque changed since that iterator was made?
  missed,     \* history: what popped was when each loop's iterator was made
  shut,       \* workers whose shutdown() has been called
  killed      \* workers killed at the end of the grace period

taskVars == <<task, uses, killable, cancelled>>
countVars == <<entrances, exits>>
pruneVars == <<pruning, popped>>
closeVars == <<closer, wakeups>>
stopVars == <<idx, current, mutated, missed, shut, killed>>
vars == <<taskVars, live, cache, pruneVars, countVars, closeVars, stopVars>>

Init ==
  /\ task = [t \in Tasks |-> "out"]
  /\ uses = [t \in Tasks |-> NoWorker]
  /\ killable = [t \in Tasks |-> FALSE]
  /\ cancelled = [t \in Tasks |-> FALSE]
  /\ live = {} /\ cache = <<>>
  /\ pruning = "out" /\ popped = NoWorker
  /\ entrances = 0 /\ exits = 0
  /\ closer = "open" /\ wakeups = 0
  /\ idx = 1 /\ current = NoWorker /\ mutated = FALSE
  /\ missed = [loop \in {"signal", "join"} |-> NoWorker]
  /\ shut = {} /\ killed = {}

\* The lifetime manager's waiting_task is set by _aclose.
Closing == closer # "open"

calc_running == entrances - exits

Cached == {cache[i] : i \in 1..Len(cache)}
Used == {uses[t] : t \in Tasks} \ {NoWorker}
Holders == {t \in Tasks : task[t] \notin {"out", "limiter"}}
Inside == {t \in Tasks : task[t] \in {"starting", "running", "retry"}}

-----------------------------------------------------------------------------
(***************************************************************************)
(* WorkerProcCache as run_sync and statistics use it.                      *)
(***************************************************************************)

\* Faulty variant of Pruned: the first live worker is not put back.
PrunedTooFar ==
  LET alive == {i \in 1..Len(cache) : cache[i] \in live}
      first == CHOOSE i \in alive : \A k \in alive : i <= k
  IN  IF alive = {} THEN <<>> ELSE SubSeq(cache, first + 1, Len(cache))

\* prune: drop dead workers from the left, up to the first live one.
Pruned ==
  LET alive == {i \in 1..Len(cache) : cache[i] \in live}
      first == CHOOSE i \in alive : \A k \in alive : i <= k
  IN  IF alive = {} THEN <<>> ELSE SubSeq(cache, first, Len(cache))

\* Names for a new worker; which of them it gets makes no difference.
Unused == Workers \ (live \cup Used)

\* Faulty variant of Take: the worker stays in the deque.
TakePeeks(t, idle) ==
  \/ /\ idle # <<>>
     /\ uses' = [uses EXCEPT ![t] = idle[Len(idle)]]
     /\ cache' = idle
     /\ task' = [task EXCEPT ![t] = "running"]
  \/ /\ idle = <<>>
     /\ Unused # {}
     /\ uses' = [uses EXCEPT ![t] = CHOOSE w \in Unused : TRUE]
     /\ cache' = <<>>
     /\ task' = [task EXCEPT ![t] = "starting"]

\* Faulty variant of Take: the deque is not consulted.
TakeMakesNew(t, idle) ==
  /\ \E w \in Workers \ (live \cup Used \cup Cached) :
       uses' = [uses EXCEPT ![t] = w]
  /\ cache' = idle
  /\ task' = [task EXCEPT ![t] = "starting"]

\* Take the worker at the right end of the deque, or make a new one.
Take(t, idle) ==
  \/ /\ idle # <<>>
     /\ uses' = [uses EXCEPT ![t] = idle[Len(idle)]]
     /\ cache' = SubSeq(idle, 1, Len(idle) - 1)
     /\ task' = [task EXCEPT ![t] = "running"]
  \/ /\ idle = <<>>
     /\ Unused # {}
     /\ uses' = [uses EXCEPT ![t] = CHOOSE w \in Unused : TRUE]
     /\ cache' = <<>>
     /\ task' = [task EXCEPT ![t] = "starting"]

-----------------------------------------------------------------------------
(***************************************************************************)
(* WorkerContext.run_sync.                                                 *)
(***************************************************************************)

\* The call: wait for the limiter.
Call(t, kill_on_cancel) ==
  /\ task[t] = "out"
  /\ entrances + Cardinality({s \in Tasks : task[s] \in {"limiter", "acquired"}})
       < MaxEntrances
  /\ task' = [task EXCEPT ![t] = "limiter"]
  /\ killable' = [killable EXCEPT ![t] = kill_on_cancel]
  /\ UNCHANGED <<uses, cancelled, live, cache, pruneVars, countVars, closeVars,
                 stopVars>>

\* async with limiter: a token is free.
Acquire(t) ==
  /\ task[t] = "limiter"
  /\ Cardinality(Holders) < TotalTokens
  /\ task' = [task EXCEPT ![t] = "acquired"]
  /\ UNCHANGED <<uses, killable, cancelled, live, cache, pruneVars, countVars,
                 closeVars, stopVars>>

\* The call is over, and with it its own cancel scope.
CallOver(t) ==
  /\ task' = [task EXCEPT ![t] = "out"]
  /\ killable' = [killable EXCEPT ![t] = FALSE]
  /\ cancelled' = [cancelled EXCEPT ![t] = FALSE]

\* async with limiter: cancelled while waiting.
AcquireCancelled(t) ==
  /\ task[t] = "limiter" /\ cancelled[t]
  /\ CallOver(t)
  /\ UNCHANGED <<uses, live, cache, pruneVars, countVars, closeVars, stopVars>>

\* ContextLifetimeManager.__aenter__ refuses a closed context.
EnterRefused(t) ==
  /\ task[t] = "acquired" /\ Closing
  /\ CallOver(t)
  /\ UNCHANGED <<uses, live, cache, pruneVars, countVars, closeVars, stopVars>>

\* ContextLifetimeManager.__aenter__, prune and the first turn of the loop, with
\* no await between them; the thread that shuts the cache down does not run yet.
Enter(t) ==
  /\ task[t] = "acquired" /\ ~Closing
  /\ entrances' = entrances + 1
  /\ Take(t, Pruned)
  /\ UNCHANGED <<killable, cancelled, live, pruneVars, exits, closeVars,
                 stopVars>>

\* Faulty variant of Leave: the running tasks are counted before this one has
\* left.
LeaveCountsItself(t) ==
  /\ CallOver(t)
  /\ uses' = [uses EXCEPT ![t] = NoWorker]
  /\ exits' = exits + 1
  /\ IF Closing /\ entrances = exits
       THEN closer' = "woken" /\ wakeups' = wakeups + 1
       ELSE UNCHANGED closeVars
  /\ UNCHANGED <<pruneVars, entrances, stopVars>>

\* Leaving run_sync: ContextLifetimeManager.__aexit__, then the limiter.  The
\* last task out reschedules the closing task.
Leave(t) ==
  /\ CallOver(t)
  /\ uses' = [uses EXCEPT ![t] = NoWorker]
  /\ exits' = exits + 1
  /\ IF Closing /\ entrances = exits'
       THEN closer' = "woken" /\ wakeups' = wakeups + 1
       ELSE UNCHANGED closeVars
  /\ UNCHANGED <<pruneVars, entrances, stopVars>>

\* worker.start returns.
Started(t) ==
  /\ task[t] = "starting"
  /\ live' = live \cup {uses[t]}
  /\ task' = [task EXCEPT ![t] = "running"]
  /\ UNCHANGED <<uses, killable, cancelled, cache, pruneVars, countVars,
                 closeVars, stopVars>>

\* worker.start raises (it may be cancelled) before there is a process.
StartAborted(t) ==
  /\ task[t] = "starting"
  /\ Leave(t)
  /\ UNCHANGED <<live, cache, pruneVars>>

\* Faulty variant of Return: the worker is let go before it is cached.
ReturnNothing(t) ==
  /\ task[t] = "running" /\ uses[t] \in live
  /\ Leave(t)
  /\ cache' = Append(cache, uses'[t])
  /\ UNCHANGED live

\* worker.run_sync returns the Outcome of the job.
Return(t) ==
  /\ task[t] = "running" /\ uses[t] \in live
  /\ cache' = Append(cache, uses[t])
  /\ Leave(t)
  /\ UNCHANGED live

\* worker.run_sync returns an Outcome although the process is gone: it died
\* after it had sent the result, or the job could not be pickled.
ReturnDead(t) ==
  /\ task[t] = "running" /\ uses[t] \notin live
  /\ cache' = Append(cache, uses[t])
  /\ Leave(t)
  /\ UNCHANGED live

\* worker.run_sync returns None.
ReturnNone(t) ==
  /\ task[t] = "running" /\ uses[t] \notin live
  /\ task' = [task EXCEPT ![t] = "retry"]
  /\ uses' = [uses EXCEPT ![t] = NoWorker]
  /\ UNCHANGED <<killable, cancelled, live, cache, pruneVars, countVars,
                 closeVars, stopVars>>

\* Faulty variant of Raise: an exception skips __aexit__.
RaiseUncounted(t) ==
  /\ task[t] = "running"
  /\ uses[t] \notin live \/ (killable[t] /\ cancelled[t])
  /\ live' = live \ {uses[t]}
  /\ CallOver(t)
  /\ uses' = [uses EXCEPT ![t] = NoWorker]
  /\ UNCHANGED <<cache, pruneVars, countVars, closeVars, stopVars>>

\* worker.run_sync raises: the worker died, or this call was cancelled and has
\* killed it.
Raise(t) ==
  /\ task[t] = "running"
  /\ uses[t] \notin live \/ (killable[t] /\ cancelled[t])
  /\ live' = live \ {uses[t]}
  /\ Leave(t)
  /\ UNCHANGED cache

\* worker.run_sync raises because the result cannot be unpickled; it has killed
\* the worker.
RaiseUnloadable(t) ==
  /\ task[t] = "running" /\ uses[t] \in live
  /\ live' = live \ {uses[t]}
  /\ Leave(t)
  /\ UNCHANGED cache

\* After None: checkpoint_if_cancelled, whatever the call's own flags.
RetryCancelled(t) ==
  /\ task[t] = "retry" /\ cancelled[t]
  /\ Leave(t)
  /\ UNCHANGED <<live, cache, pruneVars>>

\* Faulty variant of Retry: no checkpoint before the next turn.
RetryRegardless(t) ==
  /\ task[t] = "retry"
  /\ Take(t, cache)
  /\ UNCHANGED <<killable, cancelled, live, pruneVars, countVars, closeVars,
                 stopVars>>

\* After None: another turn of the loop, without pruning.
Retry(t) ==
  /\ task[t] = "retry" /\ ~cancelled[t]
  /\ Take(t, cache)
  /\ UNCHANGED <<killable, cancelled, live, pruneVars, countVars, closeVars,
                 stopVars>>

\* The scope around a call is cancelled.
Cancel(t) ==
  /\ task[t] # "out" /\ ~cancelled[t]
  /\ cancelled' = [cancelled EXCEPT ![t] = TRUE]
  /\ UNCHANGED <<task, uses, killable, live, cache, pruneVars, countVars,
                 closeVars, stopVars>>

\* A process ends: idle timeout, retirement, shutdown, SIGKILL or a crash.
Die(w) ==
  /\ w \in live
  /\ live' = live \ {w}
  /\ UNCHANGED <<taskVars, cache, pruneVars, countVars, closeVars, stopVars>>

running_workers == calc_running

-----------------------------------------------------------------------------
(***************************************************************************)
(* WorkerContext.statistics, also while the context is closing.  It is     *)
(* prune, one operation at a time, and then reads and returns.             *)
(***************************************************************************)

\* statistics is not a coroutine: the other tasks wait until it returns.
EventLoopFree == pruning = "out"

\* The deque changes under the iterator of the shutdown thread.
Mutate == mutated' = (mutated \/ closer \in {"signal", "join"})

\* prune: popleft, or IndexError and return.
StatisticsPopLeft ==
  /\ \/ /\ pruning \in {"out", "popleft"} /\ cache # <<>>
        /\ popped' = Head(cache) /\ cache' = Tail(cache)
        /\ pruning' = "is_alive" /\ Mutate
     \/ /\ pruning = "popleft" /\ cache = <<>>
        /\ pruning' = "out"
        /\ UNCHANGED <<popped, cache, mutated>>
  /\ UNCHANGED <<taskVars, live, countVars, closeVars, idx, current, missed, shut,
                 killed>>

\* prune: is_alive, which is a system call; a dead worker is forgotten.
StatisticsIsAlive ==
  /\ pruning = "is_alive"
  /\ IF popped \in live
       THEN pruning' = "appendleft" /\ UNCHANGED popped
       ELSE pruning' = "popleft" /\ popped' = NoWorker
  /\ UNCHANGED <<taskVars, live, cache, countVars, closeVars, stopVars>>

\* Faulty variant of StatisticsAppendLeft: the worker is not put back.
StatisticsForgets ==
  /\ pruning = "appendleft"
  /\ popped' = NoWorker
  /\ pruning' = "out"
  /\ UNCHANGED <<taskVars, live, cache, countVars, closeVars, stopVars>>

\* prune: the worker was alive; appendleft and return.
StatisticsAppendLeft ==
  /\ pruning = "appendleft"
  /\ cache' = <<popped>> \o cache /\ popped' = NoWorker
  /\ pruning' = "out" /\ Mutate
  /\ UNCHANGED <<taskVars, live, countVars, closeVars, idx, current, missed, shut,
                 killed>>

-----------------------------------------------------------------------------
(***************************************************************************)
(* WorkerContext._aclose, and WorkerProcCache.shutdown in its thread.      *)
(***************************************************************************)

\* Faulty variant of Aclose: the running tasks are not waited for.
AcloseAtOnce ==
  /\ ~Closing
  /\ closer' = "woken"
  /\ UNCHANGED <<taskVars, live, cache, pruneVars, countVars, wakeups,
                 stopVars>>

\* _aclose: wait for the running tasks, if there are any.
Aclose ==
  /\ ~Closing
  /\ closer' = IF calc_running # 0 THEN "parked" ELSE "woken"
  /\ UNCHANGED <<taskVars, live, cache, pruneVars, countVars, wakeups,
                 stopVars>>

\* Make an iterator over the deque.
Iterate(loop) ==
  /\ closer' = loop
  /\ idx' = 1 /\ current' = NoWorker /\ mutated' = FALSE
  /\ missed' = [missed EXCEPT ![loop] = popped]

\* shutdown: the thread starts.
ShutdownBegin ==
  /\ closer = "woken"
  /\ Iterate("signal")
  /\ UNCHANGED <<taskVars, live, cache, pruneVars, countVars, wakeups, shut,
                 killed>>

\* The iterator's next worker.
NextWorker ==
  /\ closer \in {"signal", "join"} /\ current = NoWorker
  /\ ~mutated /\ idx <= Len(cache)
  /\ current' = cache[idx] /\ idx' = idx + 1
  /\ UNCHANGED <<taskVars, live, cache, pruneVars, countVars, closeVars,
                 mutated, missed, shut, killed>>

\* The iterator raises RuntimeError: deque mutated during iteration.
NextRaises ==
  /\ closer \in {"signal", "join"} /\ current = NoWorker
  /\ mutated
  /\ closer' = "aborted"
  /\ UNCHANGED <<taskVars, live, cache, pruneVars, countVars, wakeups,
                 stopVars>>

\* The iterator is at its end: the first loop is followed by the second, and
\* that by the join of the killed processes.
NextStops ==
  /\ current = NoWorker
  /\ ~mutated /\ idx > Len(cache)
  /\ \/ closer = "signal" /\ closer' = "signaled"
     \/ closer = "join" /\ closer' = "reap"
  /\ UNCHANGED <<taskVars, live, cache, pruneVars, countVars, wakeups, stopVars>>

\* The second loop begins; its deadline is the grace period from now.
JoinBegin ==
  /\ closer = "signaled"
  /\ Iterate("join")
  /\ UNCHANGED <<taskVars, live, cache, pruneVars, countVars, wakeups, shut, killed>>

\* First loop: worker.shutdown().
SignalWorker ==
  /\ closer = "signal" /\ current # NoWorker
  /\ shut' = shut \cup {current} /\ current' = NoWorker
  /\ UNCHANGED <<taskVars, live, cache, pruneVars, countVars, closeVars, idx,
                 mutated, missed, killed>>

\* Second loop: the process has ended by itself.
JoinWorker ==
  /\ closer = "join" /\ current # NoWorker
  /\ current \notin live
  /\ current' = NoWorker
  /\ UNCHANGED <<taskVars, live, cache, pruneVars, countVars, closeVars, idx,
                 mutated, missed, shut, killed>>

\* Second loop: the deadline has passed and the process has not ended.
KillWorker ==
  /\ closer = "join" /\ current # NoWorker
  /\ current \in live
  /\ killed' = killed \cup {current} /\ current' = NoWorker
  /\ UNCHANGED <<taskVars, live, cache, pruneVars, countVars, closeVars, idx,
                 mutated, missed, shut>>

\* Faulty variant of ShutdownEnd: killed processes are not joined.
ShutdownEndEarly ==
  /\ closer = "reap"
  /\ closer' = "closed"
  /\ UNCHANGED <<taskVars, live, cache, pruneVars, countVars, wakeups,
                 stopVars>>

\* All killed processes have been joined; _aclose returns, or raises
\* BrokenWorkerProcessError if there were any.
ShutdownEnd ==
  /\ closer = "reap" /\ killed \cap live = {}
  /\ closer' = "closed"
  /\ UNCHANGED <<taskVars, live, cache, pruneVars, countVars, wakeups,
                 stopVars>>

-----------------------------------------------------------------------------
TaskStep(t) ==
  /\ EventLoopFree
  /\ \/ Acquire(t) \/ AcquireCancelled(t) \/ EnterRefused(t) \/ Enter(t)
     \/ Started(t) \/ StartAborted(t)
     \/ Return(t) \/ ReturnDead(t) \/ ReturnNone(t)
     \/ Raise(t) \/ RaiseUnloadable(t)
     \/ RetryCancelled(t) \/ Retry(t)

StatisticsStep == StatisticsPopLeft \/ StatisticsIsAlive \/ StatisticsAppendLeft

CloserStep ==
  \/ ShutdownBegin \/ NextWorker \/ NextRaises \/ NextStops \/ JoinBegin
  \/ SignalWorker \/ JoinWorker \/ KillWorker \/ ShutdownEnd

Next ==
  \/ /\ EventLoopFree
     /\ \/ \E t \in Tasks, kill_on_cancel \in BOOLEAN : Call(t, kill_on_cancel)
        \/ \E t \in Tasks : Cancel(t)
        \/ Aclose
  \/ \E t \in Tasks : TaskStep(t)
  \/ \E w \in Workers : Die(w)
  \/ StatisticsStep \/ CloserStep

SafeSpec == Init /\ [][Next]_vars

\* Jobs end, and tasks run though statistics may be called again and again: it
\* is over soon, and what is runnable then runs in trio's next batch.  The
\* limiter is first-come first-served, a killed process dies, the shutdown
\* thread runs.
Fairness ==
  /\ \A t \in Tasks : SF_vars(TaskStep(t))
  /\ WF_vars(~EventLoopFree /\ StatisticsStep)
  /\ WF_vars(\E w \in killed : Die(w))
  /\ WF_vars(CloserStep)

Spec == SafeSpec /\ Fairness

-----------------------------------------------------------------------------
(***************************************************************************)
(* Properties.                                                             *)
(***************************************************************************)

TaskStates == {"out", "limiter", "acquired", "starting", "running", "retry"}
CloserStates == {"open", "parked", "woken", "signal", "signaled", "join", "reap",
                 "closed", "aborted"}

\* The values each variable ranges over.
TypeOK ==
  /\ task \in [Tasks -> TaskStates]
  /\ uses \in [Tasks -> Workers \cup {NoWorker}]
  /\ killable \in [Tasks -> BOOLEAN] /\ cancelled \in [Tasks -> BOOLEAN]
  /\ live \subseteq Workers /\ shut \subseteq Workers /\ killed \subseteq Workers
  /\ cache \in Seq(Workers)
  /\ entrances \in Nat /\ exits \in Nat /\ wakeups \in Nat /\ idx \in Nat \ {0}
  /\ closer \in CloserStates /\ mutated \in BOOLEAN
  /\ current \in Workers \cup {NoWorker}
  /\ pruning \in {"out", "popleft", "is_alive", "appendleft"}
  /\ popped \in Workers \cup {NoWorker}
  /\ missed \in [{"signal", "join"} -> Workers \cup {NoWorker}]

\* No worker is given to two tasks, or cached while a task uses it, or cached
\* twice; nor is one that statistics has popped.
WorkerHeldOnce ==
  /\ \A s, t \in Tasks : s # t /\ uses[s] = uses[t] => uses[t] = NoWorker
  /\ \A t \in Tasks : uses[t] \notin Cached
  /\ \A i, k \in 1..Len(cache) : cache[i] = cache[k] => i = k
  /\ popped \notin Cached \cup Used

\* No living process is forgotten: the cache, a task or statistics holds every
\* one, so closing the context or cancelling the call reaches it, unless
\* statistics has just popped it.
NoWorkerLost == live \subseteq Cached \cup Used \cup {popped}

\* The context never has more workers than the limiter has tokens, because a
\* worker is made only when none is idle.
WorkersBounded == Cardinality(live) <= TotalTokens

\* The lifetime manager's count is the number of tasks between __aenter__ and
\* __aexit__, however they left.
RunningExact == running_workers = Cardinality(Inside)

\* The shutdown thread runs only when no task is inside, so no job is ever
\* sent to a worker whose send end has been closed.
ShutdownIsExclusive ==
  /\ closer \notin {"open", "parked"} => Inside = {}
  /\ Used \cap shut = {}

\* The closing task is rescheduled once, and only while it is parked: once it
\* sleeps there is a running task left to wake it.
WokenOnce ==
  /\ closer = "parked" => wakeups = 0 /\ calc_running > 0
  /\ wakeups <= 1

\* What a context that has closed without an error leaves behind: at most the
\* one worker that statistics had in its hands when the second loop began, and
\* that was told to shut down unless it was in its hands also when the first
\* one did.  (A statistics() between or during the loops changes nothing else,
\* or makes the iteration raise.)
ClosedIsStopped ==
  closer = "closed" =>
    live \subseteq {missed["join"]} /\ live \ shut \subseteq {missed["signal"]}

\* Closing comes to an end, provided that no call meets for ever workers that
\* are gone before they get its job (idle_timeout is not too small for one to
\* arrive).
CloseCompletes ==
  (\A t \in Tasks : SF_vars(EventLoopFree /\ Return(t)))
    => (Closing ~> closer \in {"closed", "aborted"})

\* A cancelled call ends, even if it is not cancellable and one worker after
\* another turns out to be gone.
CancelledLeaves ==
  \A t \in Tasks : cancelled[t] /\ task[t] # "out" ~> task[t] = "out"

\* What WorkerCache.shutdown documents: all cached workers are stopped.  (Not
\* when statistics runs meanwhile.)
ShutdownStopsAll == closer \in {"closed", "aborted"} => live = {}
=============================================================================

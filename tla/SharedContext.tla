---------------------------- MODULE SharedContext ----------------------------
(***************************************************************************)
(* The default WorkerContext used from several threads at once, each with  *)
(* its own trio.run.  Nothing is locked: the code relies on the deque and  *)
(* itertools.count operations being atomic, and everything between two of  *)
(* them interleaves.  No thread closes this context (POSIX).               *)
(***************************************************************************)
EXTENDS Integers, Sequences, FiniteSets

CONSTANTS
  Threads,      \* the threads that use the default context
  Workers,      \* names for worker objects, reused once nothing refers to them
  NoWorker,     \* not a worker
  MaxEntrances  \* bound: how many calls of run_sync are made

ASSUME SharedContextAssumption ==
  /\ IsFiniteSet(Threads) /\ IsFiniteSet(Workers)
  /\ NoWorker \notin Workers
  /\ MaxEntrances \in Nat

VARIABLES
  at,             \* where each thread is, between two atomic operations
  drawn,          \* the number each thread has drawn from a counter
  holds,          \* the worker each thread has in a local variable
  live,           \* the workers whose process exists
  cache,          \* the deque _worker_cache, right end last
  enter_counter,  \* the last number drawn from enter_counter
  exit_counter,   \* the last number drawn from exit_counter
  entrances,      \* ContextLifetimeManager.entrances
  exits           \* ContextLifetimeManager.exits

counterVars == <<enter_counter, exit_counter, entrances, exits>>
vars == <<at, drawn, holds, live, cache, counterVars>>

Init ==
  /\ at = [t \in Threads |-> "out"]
  /\ drawn = [t \in Threads |-> 0]
  /\ holds = [t \in Threads |-> NoWorker]
  /\ live = {} /\ cache = <<>>
  /\ enter_counter = 0 /\ exit_counter = 0 /\ entrances = 0 /\ exits = 0

Held == {holds[t] : t \in Threads} \ {NoWorker}
Cached == {cache[i] : i \in 1..Len(cache)}

Goto(t, p) == at' = [at EXCEPT ![t] = p]
Hold(t, w) == holds' = [holds EXCEPT ![t] = w]

-----------------------------------------------------------------------------
\* __aenter__: next(self.enter_counter) ...
DrawEntrance(t) ==
  /\ at[t] = "out" /\ enter_counter < MaxEntrances
  /\ enter_counter' = enter_counter + 1
  /\ drawn' = [drawn EXCEPT ![t] = enter_counter']
  /\ Goto(t, "entering")
  /\ UNCHANGED <<holds, live, cache, exit_counter, entrances, exits>>

\* ... is stored in self.entrances.
StoreEntrance(t) ==
  /\ at[t] = "entering"
  /\ entrances' = drawn[t]
  /\ Goto(t, "prune")
  /\ UNCHANGED <<drawn, holds, live, cache, enter_counter, exit_counter, exits>>

\* statistics begins: it prunes as run_sync does, then reads and returns.
BeginStatistics(t) ==
  /\ at[t] = "out"
  /\ Goto(t, "stats prune")
  /\ UNCHANGED <<drawn, holds, live, cache, counterVars>>

\* What follows prune in each of its two callers.
AfterPrune(t) == IF at[t] \in {"prune", "check"} THEN "pop" ELSE "out"

\* Faulty variant of PopLeft: the worker is looked at, not taken.
PopLeftPeeks(t) ==
  /\ at[t] \in {"prune", "stats prune"}
  /\ IF cache = <<>>
       THEN Goto(t, AfterPrune(t)) /\ UNCHANGED holds
       ELSE /\ Hold(t, Head(cache))
            /\ Goto(t, IF at[t] = "prune" THEN "check" ELSE "stats check")
  /\ UNCHANGED <<drawn, live, cache, counterVars>>

\* prune: popleft, or IndexError.
PopLeft(t) ==
  /\ at[t] \in {"prune", "stats prune"}
  /\ IF cache = <<>>
       THEN Goto(t, AfterPrune(t)) /\ UNCHANGED <<cache, holds>>
       ELSE /\ Hold(t, Head(cache)) /\ cache' = Tail(cache)
            /\ Goto(t, IF at[t] = "prune" THEN "check" ELSE "stats check")
  /\ UNCHANGED <<drawn, live, counterVars>>

\* prune: the worker is dead and is forgotten.
PruneDead(t) ==
  /\ at[t] \in {"check", "stats check"} /\ holds[t] \notin live
  /\ Hold(t, NoWorker)
  /\ Goto(t, IF at[t] = "check" THEN "prune" ELSE "stats prune")
  /\ UNCHANGED <<drawn, live, cache, counterVars>>

\* Faulty variant of AppendLeft: the worker is not put back.
AppendLeftForgets(t) ==
  /\ at[t] \in {"check", "stats check"} /\ holds[t] \in live
  /\ Hold(t, NoWorker)
  /\ Goto(t, AfterPrune(t))
  /\ UNCHANGED <<drawn, live, cache, counterVars>>

\* Faulty variant of AppendLeft: pruning goes on.
AppendLeftAgain(t) ==
  /\ at[t] \in {"check", "stats check"} /\ holds[t] \in live
  /\ cache' = <<holds[t]>> \o cache
  /\ Hold(t, NoWorker)
  /\ Goto(t, IF at[t] = "check" THEN "prune" ELSE "stats prune")
  /\ UNCHANGED <<drawn, live, counterVars>>

\* prune: is_alive has returned true, appendleft and return.  (The worker may
\* have died since, which the next operation on it finds out.)
AppendLeft(t) ==
  /\ at[t] \in {"check", "stats check"} /\ holds[t] \in live
  /\ cache' = <<holds[t]>> \o cache
  /\ Hold(t, NoWorker)
  /\ Goto(t, AfterPrune(t))
  /\ UNCHANGED <<drawn, live, counterVars>>

\* run_sync: pop, or IndexError and a new worker, which is started.
Pop(t) ==
  /\ at[t] = "pop"
  /\ \/ /\ cache # <<>>
        /\ Hold(t, cache[Len(cache)])
        /\ cache' = SubSeq(cache, 1, Len(cache) - 1)
        /\ UNCHANGED live
     \/ /\ cache = <<>>
        /\ \E w \in Workers \ (live \cup Held \cup Cached) :
             Hold(t, w) /\ live' = live \cup {w}
        /\ UNCHANGED cache
  /\ Goto(t, "running")
  /\ UNCHANGED <<drawn, counterVars>>

\* Faulty variant of AppendWorker: what is appended is no longer the worker.
AppendNothing(t) ==
  /\ at[t] = "running"
  /\ Hold(t, NoWorker)
  /\ cache' = Append(cache, holds'[t])
  /\ Goto(t, "exit")
  /\ UNCHANGED <<drawn, live, counterVars>>

\* run_sync: an Outcome; append.  (The worker may have died since it sent it.)
AppendWorker(t) ==
  /\ at[t] = "running"
  /\ cache' = Append(cache, holds[t])
  /\ Hold(t, NoWorker)
  /\ Goto(t, "exit")
  /\ UNCHANGED <<drawn, live, counterVars>>

\* run_sync: None, take another worker; or an exception.
WorkerGone(t) ==
  /\ at[t] = "running" /\ holds[t] \notin live
  /\ Hold(t, NoWorker)
  /\ \/ Goto(t, "pop") \/ Goto(t, "exit")
  /\ UNCHANGED <<drawn, live, cache, counterVars>>

\* __aexit__: next(self.exit_counter) ...
DrawExit(t) ==
  /\ at[t] = "exit"
  /\ exit_counter' = exit_counter + 1
  /\ drawn' = [drawn EXCEPT ![t] = exit_counter']
  /\ Goto(t, "exiting")
  /\ UNCHANGED <<holds, live, cache, enter_counter, entrances, exits>>

\* ... is stored in self.exits.
StoreExit(t) ==
  /\ at[t] = "exiting"
  /\ exits' = drawn[t]
  /\ Goto(t, "out")
  /\ UNCHANGED <<drawn, holds, live, cache, enter_counter, exit_counter, entrances>>

Die(w) ==
  /\ w \in live
  /\ live' = live \ {w}
  /\ UNCHANGED <<at, drawn, holds, cache, counterVars>>

\* What a thread does without being asked again.
Step(t) ==
  \/ StoreEntrance(t) \/ PopLeft(t) \/ PruneDead(t) \/ AppendLeft(t) \/ Pop(t)
  \/ AppendWorker(t) \/ WorkerGone(t) \/ DrawExit(t) \/ StoreExit(t)

Next ==
  \/ \E t \in Threads : DrawEntrance(t) \/ BeginStatistics(t) \/ Step(t)
  \/ \E w \in Workers : Die(w)

SafeSpec == Init /\ [][Next]_vars
Spec == SafeSpec /\ \A t \in Threads : WF_vars(Step(t))

-----------------------------------------------------------------------------
Places == {"out", "entering", "prune", "check", "pop", "running", "exit",
           "exiting", "stats prune", "stats check"}

\* The values each variable ranges over.
TypeOK ==
  /\ at \in [Threads -> Places]
  /\ drawn \in [Threads -> Nat]
  /\ holds \in [Threads -> Workers \cup {NoWorker}]
  /\ live \subseteq Workers /\ cache \in Seq(Workers)
  /\ enter_counter \in Nat /\ exit_counter \in Nat
  /\ entrances \in Nat /\ exits \in Nat

\* However the deque operations of the threads interleave, a worker is in the
\* hands of one thread, or in the cache once.
WorkerHeldOnce ==
  /\ \A s, t \in Threads : s # t /\ holds[s] = holds[t] => holds[t] = NoWorker
  /\ \A t \in Threads : holds[t] \notin Cached
  /\ \A i, k \in 1..Len(cache) : cache[i] = cache[k] => i = k

\* No living process is forgotten, not even between popleft and appendleft.
NoWorkerLost == live \subseteq Cached \cup Held

\* statistics returns, whoever changes the deque meanwhile, unless workers go on
\* dying for ever: prune turns once more only for a worker that has died, and
\* stops at a living one.
StatisticsReturns ==
  \/ []<><<\E w \in Workers : Die(w)>>_vars
  \/ \A t \in Threads :
       at[t] \in {"stats prune", "stats check"} ~> at[t] = "out"

\* What default_context_statistics documents: running_workers, entrances -
\* exits, is eventually consistent.  (A late store of an old number stays.)
EventuallyConsistent ==
  <>[](\A t \in Threads : at[t] = "out") => <>[](entrances - exits = 0)
=============================================================================

------------------------- MODULE WorkerContextProofs -------------------------
(***************************************************************************)
(* Theorems about WorkerContext, for every number of tasks, workers and     *)
(* tokens: who holds which worker, how many there are, how the lifetime     *)
(* manager counts and what closing leaves behind.                          *)
(***************************************************************************)
EXTENDS WorkerContext, FiniteSetTheorems, SequenceTheorems,
        WellFoundedInduction, TLAPS

\* A task has a worker exactly where run_sync has one in its local variable.
UsesInv == \A t \in Tasks : uses[t] # NoWorker <=> task[t] \in {"starting", "running"}

\* A worker that is being started has no process yet.
UnbornInv == \A t \in Tasks : task[t] = "starting" => uses[t] \notin live

\* prune, called by statistics, has a worker between popleft and appendleft.
PoppedInv == popped # NoWorker <=> pruning \in {"is_alive", "appendleft"}

\* Who has which worker.
HoldInv == UsesInv /\ UnbornInv /\ PoppedInv /\ WorkerHeldOnce /\ NoWorkerLost

\* The workers that exist, and those that will when start returns.
Starting == {t \in Tasks : task[t] = "starting"}
Bearing == live \cup {uses[t] : t \in Starting}

\* The limiter bounds the tasks, and they the workers.
BoundInv ==
  /\ Cardinality(Holders) <= TotalTokens
  /\ IsFiniteSet(Bearing) /\ Cardinality(Bearing) <= TotalTokens

\* How the lifetime manager counts.
CountInv ==
  /\ RunningExact
  /\ closer \notin {"open", "parked"} => Inside = {}
  /\ closer = "open" => wakeups = 0
  /\ WokenOnce

\* The first loop, while the deque has not changed, has told each worker it has
\* passed; what is not in the deque was popped when the loop began.
SignalInv ==
  closer = "signal" /\ ~mutated =>
    /\ \A i \in 1..Len(cache) : i < idx => cache[i] \in shut \/ cache[i] = current
    /\ popped \in {NoWorker, missed["signal"]}

\* The second loop leaves a worker it has passed only if that is dead or killed.
JoinInv ==
  closer = "join" /\ ~mutated =>
    /\ \A i \in 1..Len(cache) :
         i < idx => cache[i] \notin live \/ cache[i] \in killed \/ cache[i] = current
    /\ popped \in {NoWorker, missed["join"]}

\* Nothing is shut down before the thread runs, and what each loop has done once
\* it has come to its end.
StopInv ==
  /\ closer \in {"open", "parked", "woken"} => shut = {}
  /\ SignalInv /\ JoinInv
  /\ closer \in {"signaled", "join", "reap", "closed"}
       => live \subseteq shut \cup {missed["signal"]}
  /\ closer = "reap" => live \subseteq killed \cup {missed["join"]}
  /\ ClosedIsStopped

IInv == TypeOK /\ HoldInv /\ BoundInv /\ CountInv /\ StopInv

-----------------------------------------------------------------------------
(***************************************************************************)
(* Sequences: the members of the deque and of its suffixes.                *)
(***************************************************************************)

Members(q) == {q[i] : i \in 1..Len(q)}
Distinct(q) == \A i, k \in 1..Len(q) : q[i] = q[k] => i = k

\* A set of naturals has a least member.
LEMMA Smallest ==
  ASSUME NEW S \in SUBSET Nat, S # {}
  PROVE  \E m \in S : \A k \in S : m <= k
  <1>1. PICK m \in S : \A k \in S : ~ (<<k, m>> \in OpToRel(<, Nat))
    BY WFMin, NatLessThanWellFounded, Zenon
  <1>2. \A k \in S : ~ (k < m)
    BY <1>1, Zenon DEF OpToRel
  <1> QED
    BY <1>2

\* prune leaves a suffix and drops no live worker.
LEMMA PrunedIsSuffix ==
  ASSUME cache \in Seq(Workers)
  PROVE  \E f \in 1..(Len(cache) + 1) :
           /\ Pruned = SubSeq(cache, f, Len(cache))
           /\ \A i \in 1..Len(cache) : i < f => cache[i] \notin live
  <1> DEFINE alive == {i \in 1..Len(cache) : cache[i] \in live}
             first == CHOOSE i \in alive : \A k \in alive : i <= k
  <1>1. CASE alive = {}
    <2>1. /\ Pruned = <<>> /\ Len(cache) + 1 \in 1..(Len(cache) + 1)
          /\ SubSeq(cache, Len(cache) + 1, Len(cache)) = <<>>
      BY <1>1 DEF Pruned
    <2>2. \A i \in 1..Len(cache) : cache[i] \notin live
      BY <1>1
    <2> QED
      BY <2>1, <2>2
  <1>2. CASE alive # {}
    <2>1. alive \in SUBSET Nat
      OBVIOUS
    <2>2. \E m \in alive : \A k \in alive : m <= k
      BY <1>2, <2>1, Smallest
    <2>3. first \in alive /\ \A k \in alive : first <= k
      BY <2>2
    <2>4. Pruned = SubSeq(cache, first, Len(cache))
      BY <1>2 DEF Pruned
    <2> HIDE DEF first
    <2>5. \A i \in 1..Len(cache) : i < first => cache[i] \notin live
      BY <2>3
    <2> QED
      BY <2>3, <2>4, <2>5
  <1> QED
    BY <1>1, <1>2

\* The members of a suffix.
LEMMA SuffixFacts ==
  ASSUME NEW S, NEW q \in Seq(S), NEW f \in 1..(Len(q) + 1)
  PROVE  LET p == SubSeq(q, f, Len(q))
         IN  /\ p \in Seq(S) /\ Len(p) = Len(q) + 1 - f
             /\ \A i \in 1..Len(p) : p[i] = q[i + f - 1]
             /\ \A i \in f..Len(q) : q[i] \in Members(p)
             /\ Members(p) \subseteq Members(q)
             /\ Distinct(q) => Distinct(p)
  <1> DEFINE p == SubSeq(q, f, Len(q))
  <1>1. /\ p \in Seq(S) /\ Len(q) \in Nat /\ Len(p) = Len(q) + 1 - f
        /\ \A i \in 1..Len(p) : p[i] = q[i + f - 1]
    OBVIOUS
  <1> HIDE DEF p
  <1>2. \A i \in 1..Len(p) : i + f - 1 \in 1..Len(q)
    BY <1>1
  <1>3. \A i \in f..Len(q) : i - f + 1 \in 1..Len(p) /\ p[i - f + 1] = q[i]
    BY <1>1
  <1>4. \A i \in f..Len(q) : q[i] \in Members(p)
    BY <1>3 DEF Members
  <1>5. Members(p) \subseteq Members(q)
    BY <1>1, <1>2 DEF Members
  <1>6. ASSUME Distinct(q), NEW i \in 1..Len(p), NEW k \in 1..Len(p), p[i] = p[k]
        PROVE  i = k
    <2>1. /\ i + f - 1 \in 1..Len(q) /\ k + f - 1 \in 1..Len(q)
          /\ q[i + f - 1] = q[k + f - 1]
      BY <1>1, <1>2, <1>6
    <2>2. i + f - 1 = k + f - 1
      BY <1>6, <2>1 DEF Distinct
    <2> QED
      BY <1>1, <2>2
  <1>7. Distinct(q) => Distinct(p)
    BY <1>6 DEF Distinct
  <1> QED
    BY <1>1, <1>4, <1>5, <1>7 DEF p

\* prune, on the members of the deque.
LEMMA PrunedFacts ==
  ASSUME cache \in Seq(Workers)
  PROVE  /\ Pruned \in Seq(Workers) /\ Members(Pruned) \subseteq Members(cache)
         /\ Members(cache) \cap live \subseteq Members(Pruned)
         /\ Distinct(cache) => Distinct(Pruned)
  <1>1. PICK f \in 1..(Len(cache) + 1) :
          /\ Pruned = SubSeq(cache, f, Len(cache))
          /\ \A i \in 1..Len(cache) : i < f => cache[i] \notin live
    BY PrunedIsSuffix
  <1> DEFINE p == SubSeq(cache, f, Len(cache))
  <1>2. /\ p \in Seq(Workers) /\ Members(p) \subseteq Members(cache)
        /\ \A i \in f..Len(cache) : cache[i] \in Members(p)
        /\ Distinct(cache) => Distinct(p)
    BY SuffixFacts
  <1>3. Pruned = p
    BY <1>1
  <1> HIDE DEF p
  <1>4. ASSUME NEW w \in Members(cache), w \in live PROVE w \in Members(p)
    <2>1. PICK i \in 1..Len(cache) : w = cache[i]
      BY <1>4 DEF Members
    <2>2. i \in f..Len(cache)
      BY <1>1, <1>4, <2>1
    <2> QED
      BY <1>2, <2>1, <2>2
  <1> QED
    BY <1>2, <1>3, <1>4

\* pop, on the members of the deque.
LEMMA PopFacts ==
  ASSUME NEW S, NEW q \in Seq(S), q # <<>>
  PROVE  LET p == SubSeq(q, 1, Len(q) - 1)
             e == q[Len(q)]
         IN  /\ p \in Seq(S) /\ e \in S /\ e \in Members(q)
             /\ Members(q) = Members(p) \cup {e}
             /\ Distinct(q) => Distinct(p) /\ e \notin Members(p)
  <1> DEFINE p == SubSeq(q, 1, Len(q) - 1)
             e == q[Len(q)]
  <1>1. /\ p \in Seq(S) /\ Len(q) \in Nat \ {0} /\ Len(p) = Len(q) - 1
        /\ \A i \in 1..Len(p) : p[i] = q[i]
        /\ e = q[Len(q)] /\ e \in S
    <2> DEFINE n == Len(q) - 1
    <2>1. /\ Len(q) \in Nat \ {0} /\ e \in S
          /\ n \in Nat /\ \A i \in 1..n : q[i] \in S
      OBVIOUS
    <2> HIDE DEF n
    <2>2. /\ SubSeq(q, 1, n) \in Seq(S)
          /\ Len(SubSeq(q, 1, n)) = IF 1 <= n THEN n - 1 + 1 ELSE 0
          /\ \A i \in 1..(n - 1 + 1) : SubSeq(q, 1, n)[i] = q[1 + i - 1]
      BY <2>1, SubSeqProperties
    <2>3. IF 1 <= n THEN n - 1 + 1 = n ELSE n = 0
      BY <2>1
    <2>4. Len(SubSeq(q, 1, n)) = n
      BY <2>2, <2>3
    <2>5. \A i \in 1..n : SubSeq(q, 1, n)[i] = q[i]
      BY <2>1, <2>2
    <2> QED
      BY <2>1, <2>2, <2>4, <2>5 DEF n
  <1> HIDE DEF p, e
  <1>2. \A i \in 1..Len(q) : i = Len(q) \/ i \in 1..Len(p)
    BY <1>1
  <1>3. /\ \A i \in 1..Len(p) : i \in 1..Len(q) /\ i # Len(q)
        /\ Len(q) \in 1..Len(q)
    BY <1>1
  <1>4. Members(q) = Members(p) \cup {e}
    BY <1>1, <1>2, <1>3 DEF Members
  <1>5. Distinct(q) => Distinct(p) /\ e \notin Members(p)
    BY <1>1, <1>3 DEF Members, Distinct
  <1> QED
    BY <1>1, <1>4, <1>5 DEF p, e

\* append, on the members of the deque.
LEMMA AppendFacts ==
  ASSUME NEW S, NEW q \in Seq(S), NEW e \in S
  PROVE  /\ Append(q, e) \in Seq(S)
         /\ Members(Append(q, e)) = Members(q) \cup {e}
         /\ Distinct(q) /\ e \notin Members(q) => Distinct(Append(q, e))
  <1> DEFINE p == Append(q, e)
  <1>1. /\ p \in Seq(S) /\ Len(q) \in Nat /\ Len(p) = Len(q) + 1
        /\ \A i \in 1..Len(q) : p[i] = q[i]
        /\ p[Len(q) + 1] = e
    OBVIOUS
  <1> HIDE DEF p
  <1>2. /\ \A i \in 1..Len(p) : i \in 1..Len(q) \/ i = Len(q) + 1
        /\ \A i \in 1..Len(q) : i \in 1..Len(p)
        /\ Len(q) + 1 \in 1..Len(p)
    BY <1>1
  <1>3. Members(p) = Members(q) \cup {e}
    BY <1>1, <1>2 DEF Members
  <1>4. Distinct(q) /\ e \notin Members(q) => Distinct(p)
    BY <1>1, <1>2 DEF Members, Distinct
  <1> QED
    BY <1>1, <1>3, <1>4 DEF p

\* appendleft, on the members of the deque.
LEMMA AppendLeftFacts ==
  ASSUME NEW S, NEW q \in Seq(S), NEW e \in S
  PROVE  /\ <<e>> \o q \in Seq(S)
         /\ Members(<<e>> \o q) = Members(q) \cup {e}
         /\ Distinct(q) /\ e \notin Members(q) => Distinct(<<e>> \o q)
  <1> DEFINE p == <<e>> \o q
  <1>1. /\ p \in Seq(S) /\ Len(q) \in Nat /\ Len(p) = Len(q) + 1
        /\ \A i \in 1..Len(q) : p[i + 1] = q[i]
        /\ p[1] = e
    OBVIOUS
  <1>2. \A i \in 1..Len(p) : i = 1 \/ (i - 1 \in 1..Len(q) /\ p[i] = q[i - 1])
    BY <1>1
  <1>3. \A i \in 1..Len(q) : i + 1 \in 1..Len(p)
    BY <1>1
  <1>4. 1 \in 1..Len(p)
    BY <1>1
  <1> HIDE DEF p
  <1>5. Members(p) = Members(q) \cup {e}
    <2>1. ASSUME NEW x \in Members(p) PROVE x \in Members(q) \cup {e}
      BY <1>1, <1>2, <2>1 DEF Members
    <2>2. ASSUME NEW x \in Members(q) PROVE x \in Members(p)
      BY <1>1, <1>3, <2>2 DEF Members
    <2>3. e \in Members(p)
      BY <1>1, <1>4 DEF Members
    <2> QED
      BY <2>1, <2>2, <2>3
  <1>6. ASSUME Distinct(q), e \notin Members(q) PROVE Distinct(p)
    <2>1. \A i \in 1..Len(q) : q[i] # e
      BY <1>6 DEF Members
    <2>2. ASSUME NEW i \in 1..Len(p), NEW k \in 1..Len(p), p[i] = p[k]
          PROVE  i = k
      <3>1. CASE i = 1
        BY <1>1, <1>2, <2>1, <2>2, <3>1
      <3>2. CASE k = 1
        BY <1>1, <1>2, <2>1, <2>2, <3>2
      <3>3. CASE i # 1 /\ k # 1
        <4>1. /\ i - 1 \in 1..Len(q) /\ k - 1 \in 1..Len(q)
              /\ q[i - 1] = q[k - 1]
          BY <1>2, <2>2, <3>3
        <4>2. i - 1 = k - 1
          BY <1>6, <4>1 DEF Distinct
        <4> QED
          BY <1>1, <4>2
      <3> QED
        BY <3>1, <3>2, <3>3
    <2> QED
      BY <2>2 DEF Distinct
  <1> QED
    BY <1>1, <1>5, <1>6 DEF p

\* popleft, on the members of the deque.
LEMMA PopLeftFacts ==
  ASSUME NEW S, NEW q \in Seq(S), q # <<>>
  PROVE  /\ Tail(q) \in Seq(S) /\ Head(q) \in S
         /\ Members(q) = Members(Tail(q)) \cup {Head(q)}
         /\ Distinct(q) => Distinct(Tail(q)) /\ Head(q) \notin Members(Tail(q))
  <1> DEFINE p == Tail(q)
  <1>1. /\ p \in Seq(S) /\ Len(p) \in Nat /\ Len(q) = Len(p) + 1
        /\ \A i \in 1..Len(p) : p[i] = q[i + 1]
        /\ Head(q) = q[1] /\ q[1] \in S
    OBVIOUS
  <1>2. \A i \in 1..Len(q) : i = 1 \/ (i - 1 \in 1..Len(p) /\ p[i - 1] = q[i])
    BY <1>1
  <1>3. \A i \in 1..Len(p) : i + 1 \in 1..Len(q) /\ i + 1 # 1
    BY <1>1
  <1>4. 1 \in 1..Len(q)
    BY <1>1
  <1> HIDE DEF p
  <1>5. Members(q) = Members(p) \cup {Head(q)}
    <2>1. ASSUME NEW x \in Members(q) PROVE x \in Members(p) \cup {Head(q)}
      BY <1>1, <1>2, <2>1 DEF Members
    <2>2. ASSUME NEW x \in Members(p) PROVE x \in Members(q)
      BY <1>1, <1>3, <2>2 DEF Members
    <2>3. Head(q) \in Members(q)
      BY <1>1, <1>4 DEF Members
    <2> QED
      BY <2>1, <2>2, <2>3
  <1>6. ASSUME Distinct(q) PROVE Distinct(p) /\ Head(q) \notin Members(p)
    <2>1. \A i, k \in 1..Len(p) : q[i + 1] = q[k + 1] => i = k
      BY <1>1, <1>3, <1>6 DEF Distinct
    <2>2. \A i \in 1..Len(p) : q[i + 1] # q[1]
      BY <1>3, <1>4, <1>6 DEF Distinct
    <2> QED
      BY <1>1, <2>1, <2>2 DEF Members, Distinct
  <1> QED
    BY <1>1, <1>5, <1>6 DEF p

-----------------------------------------------------------------------------
(***************************************************************************)
(* The initial state.                                                      *)
(***************************************************************************)

LEMMA InitInv == Init => IInv
  <1> SUFFICES ASSUME Init PROVE IInv
    OBVIOUS
  <1>1. TypeOK
    <2>1. killable \in [Tasks -> BOOLEAN] /\ cancelled \in [Tasks -> BOOLEAN]
      BY Zenon DEF Init
    <2>2. mutated \in BOOLEAN
      BY Zenon DEF Init
    <2>3. /\ task \in [Tasks -> TaskStates]
          /\ uses \in [Tasks -> Workers \cup {NoWorker}]
          /\ live \subseteq Workers /\ shut \subseteq Workers /\ killed \subseteq Workers
          /\ cache \in Seq(Workers)
          /\ entrances \in Nat /\ exits \in Nat /\ wakeups \in Nat /\ idx \in Nat \ {0}
          /\ closer \in CloserStates
          /\ current \in Workers \cup {NoWorker}
          /\ pruning \in {"out", "popleft", "is_alive", "appendleft"}
          /\ popped \in Workers \cup {NoWorker}
          /\ missed \in [{"signal", "join"} -> Workers \cup {NoWorker}]
      BY DEF Init, TaskStates, CloserStates
    <2> QED
      BY <2>1, <2>2, <2>3 DEF TypeOK
  <1>2. HoldInv
    BY DEF Init, HoldInv, UsesInv, UnbornInv, PoppedInv, WorkerHeldOnce, NoWorkerLost,
           Cached, Used
  <1>3. /\ Holders = {} /\ Inside = {} /\ Bearing = {}
    BY DEF Init, Holders, Inside, Bearing, Starting
  <1>4. BoundInv
    BY <1>3, FS_EmptySet, WorkerContextAssumption DEF BoundInv
  <1>5. CountInv
    BY <1>3, FS_EmptySet DEF Init, CountInv, RunningExact, running_workers,
                              calc_running, WokenOnce
  <1>6. StopInv
    BY DEF Init, StopInv, SignalInv, JoinInv, ClosedIsStopped
  <1> QED
    BY <1>1, <1>2, <1>4, <1>5, <1>6 DEF IInv

-----------------------------------------------------------------------------
(***************************************************************************)
(* Types.                                                                  *)
(***************************************************************************)

\* The variables of run_sync and of the counters.
LEMMA LeaveTypes ==
  ASSUME TypeOK, NEW t \in Tasks, Leave(t), live' \subseteq Workers,
         cache' \in Seq(Workers)
  PROVE  TypeOK'
  <1>1. /\ task' \in [Tasks -> TaskStates]
        /\ uses' \in [Tasks -> Workers \cup {NoWorker}]
        /\ exits' \in Nat /\ wakeups' \in Nat /\ closer' \in CloserStates
    BY DEF TypeOK, Leave, CallOver, TaskStates, CloserStates, closeVars
  <1> QED
    BY <1>1 DEF TypeOK, Leave, CallOver, pruneVars, stopVars

LEMMA TakeTypes ==
  ASSUME TypeOK, NEW t \in Tasks, NEW idle \in Seq(Workers), Take(t, idle),
         entrances' \in Nat,
         UNCHANGED <<killable, cancelled, live, pruneVars, exits, closeVars, stopVars>>
  PROVE  TypeOK'
  <1>1. cache' \in Seq(Workers)
    <2>1. idle # <<>> => SubSeq(idle, 1, Len(idle) - 1) \in Seq(Workers)
      BY PopFacts
    <2> QED
      BY <2>1 DEF Take
  <1>2. uses' \in [Tasks -> Workers \cup {NoWorker}]
    <2>1. idle # <<>> => idle[Len(idle)] \in Workers
      OBVIOUS
    <2>2. Unused # {} => (CHOOSE w \in Unused : TRUE) \in Workers
      BY DEF Unused
    <2> QED
      BY <2>1, <2>2 DEF TypeOK, Take
  <1>3. task' \in [Tasks -> TaskStates]
    BY DEF TypeOK, Take, TaskStates
  <1> QED
    BY <1>1, <1>2, <1>3 DEF TypeOK, pruneVars, closeVars, stopVars

LEMMA TypeStep ==
  ASSUME TypeOK, UsesInv, PoppedInv, Next
  PROVE  TypeOK'
  <1>1. ASSUME NEW t \in Tasks, NEW k \in BOOLEAN, Call(t, k) PROVE TypeOK'
    <2>1. killable' \in [Tasks -> BOOLEAN] /\ cancelled' \in [Tasks -> BOOLEAN]
      BY <1>1, Zenon DEF Call, TypeOK
    <2>2. task' \in [Tasks -> TaskStates]
      BY <1>1 DEF Call, TypeOK, TaskStates
    <2> QED
      BY <1>1, <2>1, <2>2 DEF Call, TypeOK, pruneVars, countVars, closeVars, stopVars
  <1>2. ASSUME NEW t \in Tasks,
               Acquire(t) \/ AcquireCancelled(t) \/ EnterRefused(t)
        PROVE  TypeOK'
    BY <1>2 DEF Acquire, AcquireCancelled, EnterRefused, CallOver, TypeOK, TaskStates,
                pruneVars, countVars, closeVars, stopVars
  <1>3. ASSUME NEW t \in Tasks, Enter(t) PROVE TypeOK'
    <2>1. Pruned \in Seq(Workers)
      BY PrunedFacts DEF TypeOK
    <2> QED
      BY <1>3, <2>1, TakeTypes DEF Enter, TypeOK
  <1>4. ASSUME NEW t \in Tasks, Retry(t) PROVE TypeOK'
    BY <1>4, TakeTypes DEF Retry, TypeOK, countVars
  <1>5. ASSUME NEW t \in Tasks, Started(t) PROVE TypeOK'
    <2>1. task[t] = "starting" /\ uses[t] \in Workers
      BY <1>5 DEF Started, TypeOK, UsesInv
    <2> QED
      BY <1>5, <2>1 DEF Started, TypeOK, TaskStates, pruneVars, countVars, closeVars, stopVars
  <1>6. ASSUME NEW t \in Tasks, Return(t) \/ ReturnDead(t) PROVE TypeOK'
    <2>1. uses[t] \in Workers
      BY <1>6 DEF Return, ReturnDead, TypeOK, UsesInv
    <2>2. Append(cache, uses[t]) \in Seq(Workers)
      BY <2>1 DEF TypeOK
    <2> QED
      BY <1>6, <2>2, LeaveTypes DEF Return, ReturnDead, TypeOK
  <1>7. ASSUME NEW t \in Tasks, ReturnNone(t) PROVE TypeOK'
    BY <1>7 DEF ReturnNone, TypeOK, TaskStates, pruneVars, countVars, closeVars, stopVars
  <1>8. ASSUME NEW t \in Tasks,
               StartAborted(t) \/ Raise(t) \/ RaiseUnloadable(t) \/ RetryCancelled(t)
        PROVE  TypeOK'
    BY <1>8, LeaveTypes DEF StartAborted, Raise, RaiseUnloadable, RetryCancelled,
                            TypeOK
  <1>9. ASSUME NEW t \in Tasks, Cancel(t) PROVE TypeOK'
    <2>1. cancelled' \in [Tasks -> BOOLEAN]
      BY <1>9, Zenon DEF Cancel, TypeOK
    <2> QED
      BY <1>9, <2>1 DEF Cancel, TypeOK, pruneVars, countVars, closeVars, stopVars
  <1>10. ASSUME NEW w \in Workers, Die(w) PROVE TypeOK'
    BY <1>10 DEF Die, TypeOK, taskVars, pruneVars, countVars, closeVars, stopVars
  <1>11. CASE StatisticsStep
    <2>1. cache # <<>> => Tail(cache) \in Seq(Workers) /\ Head(cache) \in Workers
      BY PopLeftFacts DEF TypeOK
    <2>2. popped \in Workers => <<popped>> \o cache \in Seq(Workers)
      BY AppendLeftFacts DEF TypeOK
    <2>3. StatisticsAppendLeft => popped \in Workers
      BY DEF StatisticsAppendLeft, PoppedInv, TypeOK
    <2>4. mutated' \in BOOLEAN
      BY <1>11, Zenon DEF StatisticsStep, StatisticsPopLeft, StatisticsIsAlive,
           StatisticsAppendLeft, Mutate, TypeOK, stopVars
    <2> QED
      BY <1>11, <2>1, <2>2, <2>3, <2>4
      DEF StatisticsStep, StatisticsPopLeft, StatisticsIsAlive, StatisticsAppendLeft,
          TypeOK, taskVars, countVars, closeVars, stopVars
  <1>12. CASE Aclose
    BY <1>12 DEF Aclose, TypeOK, CloserStates, taskVars, pruneVars, countVars, stopVars
  <1>13. CASE CloserStep
    <2>1. current # NoWorker => current \in Workers
      BY DEF TypeOK
    <2>2. mutated' \in BOOLEAN
      BY <1>13, Zenon DEF CloserStep, TypeOK, ShutdownBegin, NextWorker, NextRaises,
           NextStops, JoinBegin, SignalWorker, JoinWorker, KillWorker, ShutdownEnd,
           Iterate, stopVars
    <2>3. NextWorker => current' \in Workers /\ idx' \in Nat \ {0}
      BY DEF NextWorker, TypeOK
    <2>4. missed' \in [{"signal", "join"} -> Workers \cup {NoWorker}]
      BY <1>13 DEF CloserStep, TypeOK, ShutdownBegin, NextWorker, NextRaises,
           NextStops, JoinBegin, SignalWorker, JoinWorker, KillWorker, ShutdownEnd,
           Iterate, stopVars
    <2> QED
      BY <1>13, <2>1, <2>2, <2>3, <2>4
      DEF CloserStep, TypeOK, CloserStates, ShutdownBegin, NextWorker, NextRaises,
          NextStops, JoinBegin, SignalWorker, JoinWorker, KillWorker, ShutdownEnd,
          Iterate, taskVars, pruneVars, countVars, closeVars, stopVars
  <1> QED
    BY <1>1, <1>2, <1>3, <1>4, <1>5, <1>6, <1>7, <1>8, <1>9, <1>10, <1>11, <1>12,
       <1>13
    DEF Next, TaskStep

-----------------------------------------------------------------------------
(***************************************************************************)
(* Who has which worker.                                                   *)
(***************************************************************************)

\* WorkerHeldOnce and NoWorkerLost, on the members of the deque.
LEMMA HoldFacts ==
  /\ WorkerHeldOnce <=>
       /\ \A s, t \in Tasks : s # t /\ uses[s] = uses[t] => uses[t] = NoWorker
       /\ \A t \in Tasks : uses[t] \notin Members(cache)
       /\ Distinct(cache)
       /\ popped \notin Members(cache) \cup Used
  /\ Cached = Members(cache)
  BY DEF WorkerHeldOnce, Cached, Members, Distinct

\* No worker changes hands; some may die.
LEMMA QuietHold ==
  ASSUME HoldInv, UNCHANGED <<uses, cache, pruneVars>>, live' \subseteq live,
         \A t \in Tasks : \/ task'[t] = task[t]
                          \/ /\ task[t] \notin {"starting", "running"}
                             /\ task'[t] \notin {"starting", "running"}
  PROVE  HoldInv'
  BY DEF HoldInv, UsesInv, UnbornInv, PoppedInv, WorkerHeldOnce, NoWorkerLost, Cached,
         Used, pruneVars

\* prune, called by statistics: a worker changes hands or a dead one is dropped.
LEMMA StatisticsHold ==
  ASSUME TypeOK, HoldInv, StatisticsStep
  PROVE  HoldInv'
  <1>1. /\ \A s, t \in Tasks : s # t /\ uses[s] = uses[t] => uses[t] = NoWorker
        /\ \A t \in Tasks : uses[t] \notin Members(cache)
        /\ Distinct(cache)
        /\ popped \notin Members(cache) \cup Used
        /\ live \subseteq Members(cache) \cup Used \cup {popped}
        /\ NoWorker \notin live /\ NoWorker \notin Members(cache)
    BY HoldFacts, WorkerContextAssumption DEF HoldInv, NoWorkerLost, TypeOK, Members
  <1>2. UNCHANGED <<task, uses, live>>
    BY DEF StatisticsStep, StatisticsPopLeft, StatisticsIsAlive, StatisticsAppendLeft,
           taskVars
  <1>3. Used' = Used /\ NoWorker \notin Used
    BY <1>2 DEF Used
  <1>4. UsesInv' /\ UnbornInv'
    BY <1>2 DEF HoldInv, UsesInv, UnbornInv
  <1>5. CASE cache # <<>> /\ pruning \in {"out", "popleft"} /\ pruning' = "is_alive"
             /\ popped' = Head(cache) /\ cache' = Tail(cache)
    <2>1. popped = NoWorker
      BY <1>5 DEF HoldInv, PoppedInv
    <2>2. /\ popped' \in Workers
          /\ Members(cache) = Members(cache') \cup {popped'}
          /\ Distinct(cache') /\ popped' \notin Members(cache')
      BY <1>1, <1>5, PopLeftFacts DEF TypeOK
    <2>3. \A t \in Tasks : uses[t] # popped'
      BY <1>1, <2>2
    <2>4. WorkerHeldOnce'
      <3>1. popped' \notin Used'
        BY <1>3, <2>3 DEF Used
      <3> QED
        BY <1>1, <1>2, <2>2, <3>1 DEF WorkerHeldOnce, Cached, Members, Distinct
    <2>5. NoWorkerLost'
      BY <1>1, <1>2, <1>3, <2>1, <2>2 DEF NoWorkerLost, Cached, Members
    <2>6. PoppedInv'
      BY <1>5, <2>2, WorkerContextAssumption DEF PoppedInv
    <2> QED
      BY <1>4, <2>4, <2>5, <2>6 DEF HoldInv
  <1>6. CASE pruning = "popleft" /\ pruning' = "out" /\ UNCHANGED <<popped, cache>>
    BY <1>2, <1>3, <1>4, <1>6 DEF HoldInv, PoppedInv, WorkerHeldOnce, NoWorkerLost, Cached
  <1>7. CASE StatisticsIsAlive
    <2>1. PoppedInv' /\ popped' \in {popped, NoWorker} /\ cache' = cache
          /\ (popped \in live => popped' = popped)
      BY <1>7 DEF StatisticsIsAlive, HoldInv, PoppedInv
    <2>2. WorkerHeldOnce'
      BY <1>1, <1>2, <1>3, <2>1 DEF WorkerHeldOnce, Cached, Members, Distinct
    <2>3. NoWorkerLost'
      BY <1>1, <1>2, <1>3, <2>1 DEF NoWorkerLost, Cached, Members
    <2> QED
      BY <1>4, <2>1, <2>2, <2>3 DEF HoldInv
  <1>8. CASE StatisticsAppendLeft
    <2>1. /\ popped \in Workers /\ popped' = NoWorker /\ pruning' = "out"
          /\ cache' = <<popped>> \o cache
      BY <1>8 DEF StatisticsAppendLeft, HoldInv, PoppedInv, TypeOK
    <2>2. Members(cache') = Members(cache) \cup {popped} /\ Distinct(cache')
      BY <1>1, <2>1, AppendLeftFacts DEF TypeOK
    <2>3. \A t \in Tasks : uses[t] # popped
      BY <1>1, <2>1, WorkerContextAssumption DEF Used
    <2>4. WorkerHeldOnce'
      <3>1. \A t \in Tasks : uses'[t] \notin Members(cache')
        BY <1>1, <1>2, <2>2, <2>3
      <3>2. popped' \notin Members(cache') \cup Used'
        BY <1>1, <1>3, <2>1, <2>2, WorkerContextAssumption
      <3> QED
        BY <1>1, <1>2, <2>2, <3>1, <3>2 DEF WorkerHeldOnce, Cached, Members, Distinct
    <2>5. NoWorkerLost'
      BY <1>1, <1>2, <1>3, <2>2 DEF NoWorkerLost, Cached, Members
    <2>6. PoppedInv'
      BY <2>1 DEF PoppedInv
    <2> QED
      BY <1>4, <2>4, <2>5, <2>6 DEF HoldInv
  <1> QED
    BY <1>5, <1>6, <1>7, <1>8 DEF StatisticsStep, StatisticsPopLeft

\* A task lets go of its worker, if it has one, and does not cache it.
LEMMA DropHold ==
  ASSUME TypeOK, HoldInv, NEW t \in Tasks, NEW to \in {"out", "retry"},
         task' = [task EXCEPT ![t] = to], uses' = [uses EXCEPT ![t] = NoWorker],
         UNCHANGED <<cache, pruneVars>>, live' \subseteq live, uses[t] \notin live'
  PROVE  HoldInv'
  <1>1. UsesInv' /\ UnbornInv' /\ PoppedInv'
    BY DEF TypeOK, HoldInv, UsesInv, UnbornInv, PoppedInv, pruneVars
  <1>2. WorkerHeldOnce'
    <2>1. Used' \subseteq Used
      BY DEF TypeOK, Used
    <2> QED
      BY <2>1, WorkerContextAssumption
      DEF TypeOK, HoldInv, WorkerHeldOnce, Cached, pruneVars
  <1>3. NoWorkerLost'
    BY DEF TypeOK, HoldInv, NoWorkerLost, Cached, Used, pruneVars
  <1> QED
    BY <1>1, <1>2, <1>3 DEF HoldInv

\* A task caches its worker and lets go of it.
LEMMA CacheHold ==
  ASSUME TypeOK, HoldInv, NEW t \in Tasks, task[t] = "running",
         task' = [task EXCEPT ![t] = "out"], uses' = [uses EXCEPT ![t] = NoWorker],
         cache' = Append(cache, uses[t]), UNCHANGED <<live, pruneVars>>
  PROVE  HoldInv'
  <1>1. UsesInv' /\ UnbornInv' /\ PoppedInv'
    BY DEF TypeOK, HoldInv, UsesInv, UnbornInv, PoppedInv, pruneVars
  <1>2. uses[t] \in Workers
    BY DEF TypeOK, HoldInv, UsesInv
  <1>3. /\ \A r, s \in Tasks : r # s /\ uses[r] = uses[s] => uses[s] = NoWorker
        /\ \A s \in Tasks : uses[s] \notin Members(cache)
        /\ Distinct(cache)
    BY HoldFacts DEF HoldInv
  <1>4. cache' \in Seq(Workers)
        /\ Members(cache') = Members(cache) \cup {uses[t]} /\ Distinct(cache')
    BY <1>2, <1>3, AppendFacts DEF TypeOK
  <1>5. \A s \in Tasks : uses'[s] \notin Members(cache')
    <2>1. NoWorker \notin Members(cache')
      BY <1>4, WorkerContextAssumption DEF Members
    <2>2. \A s \in Tasks : s # t => uses[s] # uses[t]
      BY <1>2, <1>3, WorkerContextAssumption
    <2> QED
      BY <1>3, <1>4, <2>1, <2>2 DEF TypeOK
  <1>6. WorkerHeldOnce'
    <2>1. \A r, s \in Tasks : r # s /\ uses'[r] = uses'[s] => uses'[s] = NoWorker
      BY <1>3 DEF TypeOK
    <2>2. uses[t] \in Used /\ Used' \subseteq Used
      BY <1>2, WorkerContextAssumption DEF TypeOK, Used
    <2>3. popped \notin Members(cache) \cup Used /\ popped' = popped
      BY HoldFacts DEF HoldInv, pruneVars
    <2>4. popped' \notin Members(cache') \cup Used'
      BY <1>4, <2>2, <2>3
    <2> QED
      BY <1>4, <1>5, <2>1, <2>4 DEF WorkerHeldOnce, Cached, Members, Distinct
  <1>7. NoWorkerLost'
    <2>1. Used \subseteq Used' \cup {uses[t]}
      BY DEF TypeOK, Used
    <2>2. Cached' = Members(cache')
      BY DEF Cached, Members
    <2> QED
      BY <1>4, <2>1, <2>2, HoldFacts DEF HoldInv, NoWorkerLost, pruneVars
  <1> QED
    BY <1>1, <1>6, <1>7 DEF HoldInv

\* A task takes a worker from what is left of the deque, or makes a new one.
LEMMA TakeHold ==
  ASSUME TypeOK, HoldInv, NEW t \in Tasks, NEW idle \in Seq(Workers),
         EventLoopFree, Take(t, idle), task[t] \in {"acquired", "retry"},
         UNCHANGED <<live, pruneVars>>, Members(idle) \subseteq Members(cache),
         Members(cache) \cap live \subseteq Members(idle), Distinct(idle)
  PROVE  HoldInv'
  <1>1. uses[t] = NoWorker
    BY DEF HoldInv, UsesInv
  <1>2. /\ \A r, s \in Tasks : r # s /\ uses[r] = uses[s] => uses[s] = NoWorker
        /\ \A s \in Tasks : uses[s] \notin Members(cache)
        /\ Cached = Members(cache)
    BY HoldFacts DEF HoldInv
  <1>3. /\ live \subseteq Members(idle) \cup Used
        /\ NoWorker \notin Cached' \cup Used' => popped' \notin Cached' \cup Used'
        /\ PoppedInv'
    <2>1. popped = NoWorker /\ popped' = popped /\ pruning' = pruning
      BY DEF EventLoopFree, HoldInv, PoppedInv, pruneVars
    <2>2. NoWorker \notin live
      BY WorkerContextAssumption DEF TypeOK
    <2>3. PoppedInv'
      BY <2>1 DEF HoldInv, PoppedInv
    <2> QED
      BY <1>2, <2>1, <2>2, <2>3 DEF HoldInv, NoWorkerLost
  <1>4. CASE idle # <<>> /\ uses' = [uses EXCEPT ![t] = idle[Len(idle)]]
               /\ cache' = SubSeq(idle, 1, Len(idle) - 1)
               /\ task' = [task EXCEPT ![t] = "running"]
    <2> DEFINE e == idle[Len(idle)]
    <2>1. /\ e \in Workers /\ e \in Members(idle)
          /\ Members(idle) = Members(cache') \cup {e}
          /\ Distinct(cache') /\ e \notin Members(cache')
      BY <1>4, PopFacts
    <2>2. uses' = [uses EXCEPT ![t] = e]
      BY <1>4
    <2> HIDE DEF e
    <2>3. \A s \in Tasks : uses[s] # e
      BY <1>2, <2>1
    <2>4. e # NoWorker
      BY <2>1, WorkerContextAssumption
    <2>5. UsesInv' /\ UnbornInv'
      BY <1>4, <2>2, <2>4 DEF TypeOK, HoldInv, UsesInv, UnbornInv
    <2>6. /\ \A r, s \in Tasks : r # s /\ uses'[r] = uses'[s] => uses'[s] = NoWorker
          /\ \A s \in Tasks : uses'[s] \notin Members(cache')
      BY <1>2, <2>1, <2>2, <2>3 DEF TypeOK
    <2>7. WorkerHeldOnce'
      <3>1. cache' \in Seq(Workers)
        BY <1>4, PopFacts
      <3>2. NoWorker \notin Cached' \cup Used'
        BY <3>1, WorkerContextAssumption DEF Cached, Used
      <3> QED
        BY <1>3, <2>1, <2>6, <3>2 DEF WorkerHeldOnce, Cached, Members, Distinct
    <2>8. Used' = Used \cup {e}
      BY <1>1, <2>2, <2>4 DEF TypeOK, Used
    <2>9. NoWorkerLost'
      BY <1>3, <2>1, <2>8 DEF NoWorkerLost, Cached, Members
    <2> QED
      BY <1>3, <2>5, <2>7, <2>9 DEF HoldInv
  <1>5. CASE idle = <<>> /\ cache' = <<>> /\ task' = [task EXCEPT ![t] = "starting"]
               /\ Unused # {} /\ uses' = [uses EXCEPT ![t] = CHOOSE w \in Unused : TRUE]
    <2>1. PICK w \in Workers \ (live \cup Used) : uses' = [uses EXCEPT ![t] = w]
      BY <1>5 DEF Unused
    <2>2. w # NoWorker /\ \A s \in Tasks : uses[s] # w
      BY WorkerContextAssumption DEF Used
    <2>3. UsesInv' /\ UnbornInv'
      BY <1>5, <2>1, <2>2 DEF TypeOK, HoldInv, UsesInv, UnbornInv
    <2>4. WorkerHeldOnce'
      <3>1. Cached' = {} /\ NoWorker \notin Used'
        BY <1>5 DEF Cached, Used
      <3>2. popped' \notin Cached' \cup Used'
        BY <1>3, <3>1
      <3>3. \A r, s \in Tasks : r # s /\ uses'[r] = uses'[s] => uses'[s] = NoWorker
        BY <1>2, <2>1, <2>2 DEF TypeOK
      <3>4. \A i, k \in 1..Len(cache') : cache'[i] = cache'[k] => i = k
        BY <1>5
      <3> QED
        BY <3>1, <3>2, <3>3, <3>4 DEF WorkerHeldOnce
    <2>5. Members(idle) = {} /\ Used' = Used \cup {w}
      <3>1. Members(idle) = {}
        BY <1>5 DEF Members
      <3>2. Used' = Used \cup {w}
        BY <1>1, <2>1, <2>2 DEF TypeOK, Used
      <3> QED
        BY <3>1, <3>2
    <2>6. NoWorkerLost'
      <3>1. live \subseteq Used' /\ live' = live
        BY <1>3, <2>5
      <3> QED
        BY <3>1 DEF NoWorkerLost
    <2> QED
      BY <1>3, <2>3, <2>4, <2>6 DEF HoldInv
  <1> QED
    BY <1>4, <1>5 DEF Take

LEMMA HoldStep ==
  ASSUME TypeOK, HoldInv, Next
  PROVE  HoldInv'
  <1>1. ASSUME NEW t \in Tasks, NEW k \in BOOLEAN, Call(t, k) PROVE HoldInv'
    BY <1>1, QuietHold DEF Call, TypeOK
  <1>2. ASSUME NEW t \in Tasks,
               Acquire(t) \/ AcquireCancelled(t) \/ EnterRefused(t)
        PROVE  HoldInv'
    BY <1>2, QuietHold DEF Acquire, AcquireCancelled, EnterRefused, CallOver, TypeOK
  <1>3. ASSUME NEW t \in Tasks, EventLoopFree, Enter(t) PROVE HoldInv'
    <2>1. /\ Pruned \in Seq(Workers) /\ Members(Pruned) \subseteq Members(cache)
          /\ Members(cache) \cap live \subseteq Members(Pruned) /\ Distinct(Pruned)
      BY PrunedFacts, HoldFacts DEF TypeOK, HoldInv
    <2> QED
      BY <1>3, <2>1, TakeHold DEF Enter
  <1>4. ASSUME NEW t \in Tasks, EventLoopFree, Retry(t) PROVE HoldInv'
    <2>1. cache \in Seq(Workers) /\ Distinct(cache)
      BY HoldFacts DEF TypeOK, HoldInv
    <2> QED
      BY <1>4, <2>1, TakeHold DEF Retry
  <1>5. ASSUME NEW t \in Tasks, Started(t) PROVE HoldInv'
    <2>1. uses[t] \in Workers /\ \A s \in Tasks : s # t => uses[s] # uses[t]
      BY <1>5, WorkerContextAssumption
      DEF Started, TypeOK, HoldInv, UsesInv, WorkerHeldOnce
    <2>2. UsesInv' /\ UnbornInv' /\ PoppedInv'
      BY <1>5, <2>1
      DEF Started, TypeOK, HoldInv, UsesInv, UnbornInv, PoppedInv, pruneVars
    <2>3. WorkerHeldOnce'
      BY <1>5 DEF Started, HoldInv, WorkerHeldOnce, Cached, Used, pruneVars
    <2>4. NoWorkerLost'
      BY <1>5, <2>1, WorkerContextAssumption
      DEF Started, HoldInv, NoWorkerLost, Cached, Used, pruneVars
    <2> QED
      BY <2>2, <2>3, <2>4 DEF HoldInv
  <1>6. ASSUME NEW t \in Tasks, Return(t) \/ ReturnDead(t) PROVE HoldInv'
    BY <1>6, CacheHold DEF Return, ReturnDead, Leave, CallOver
  <1>7. ASSUME NEW t \in Tasks, ReturnNone(t) PROVE HoldInv'
    BY <1>7, DropHold DEF ReturnNone
  <1>8. ASSUME NEW t \in Tasks,
               StartAborted(t) \/ Raise(t) \/ RaiseUnloadable(t) \/ RetryCancelled(t)
        PROVE  HoldInv'
    <2>1. StartAborted(t) \/ RetryCancelled(t) => uses[t] \notin live
      BY WorkerContextAssumption
      DEF StartAborted, RetryCancelled, TypeOK, HoldInv, UsesInv, UnbornInv
    <2> QED
      BY <1>8, <2>1, DropHold DEF StartAborted, Raise, RaiseUnloadable,
                                  RetryCancelled, Leave, CallOver
  <1>9. CASE \/ \E t \in Tasks : Cancel(t)
             \/ \E w \in Workers : Die(w)
             \/ Aclose
    BY <1>9, QuietHold DEF Cancel, Die, Aclose, taskVars
  <1>10. CASE StatisticsStep
    BY <1>10, StatisticsHold
  <1>11. CASE CloserStep
    <2>1. UNCHANGED <<task, uses, live, cache, pruneVars>>
      BY <1>11 DEF CloserStep, ShutdownBegin, NextWorker, NextRaises, NextStops,
                   JoinBegin, SignalWorker, JoinWorker, KillWorker, ShutdownEnd, taskVars
    <2> QED
      BY <2>1, QuietHold
  <1> QED
    BY <1>1, <1>2, <1>3, <1>4, <1>5, <1>6, <1>7, <1>8, <1>9, <1>10, <1>11
    DEF Next, TaskStep

-----------------------------------------------------------------------------
(***************************************************************************)
(* How many tasks hold a token, and how many workers there are.            *)
(***************************************************************************)

\* A function has no more values than arguments.
LEMMA ValuesBounded ==
  ASSUME NEW S, IsFiniteSet(S), NEW f, NEW T \in SUBSET {f[x] : x \in S}
  PROVE  IsFiniteSet(T) /\ Cardinality(T) <= Cardinality(S)
  <1> DEFINE V == {f[x] : x \in S}
             g == [x \in S |-> f[x]]
  <1>1. g \in Surjection(S, V)
    BY DEF Surjection
  <1>2. IsFiniteSet(V) /\ Cardinality(V) <= Cardinality(S)
    BY <1>1, FS_Surjection
  <1>3. IsFiniteSet(T) /\ Cardinality(T) <= Cardinality(V)
    BY <1>2, FS_Subset
  <1>4. Cardinality(T) \in Nat /\ Cardinality(V) \in Nat /\ Cardinality(S) \in Nat
    BY <1>2, <1>3, FS_CardinalityType
  <1> QED
    BY <1>2, <1>3, <1>4

\* No more tokens are held, and no worker comes into being.
LEMMA QuietBound ==
  ASSUME BoundInv, Holders' \subseteq Holders, Bearing' \subseteq Bearing
  PROVE  BoundInv'
  <1>1. IsFiniteSet(Holders)
    BY WorkerContextAssumption, FS_Subset DEF Holders
  <1>2. /\ IsFiniteSet(Holders') /\ Cardinality(Holders') <= Cardinality(Holders)
        /\ IsFiniteSet(Bearing') /\ Cardinality(Bearing') <= Cardinality(Bearing)
    BY <1>1, FS_Subset DEF BoundInv
  <1>3. /\ Cardinality(Holders') \in Nat /\ Cardinality(Holders) \in Nat
        /\ Cardinality(Bearing') \in Nat /\ Cardinality(Bearing) \in Nat
    BY <1>1, <1>2, FS_CardinalityType DEF BoundInv
  <1> QED
    BY <1>2, <1>3, WorkerContextAssumption DEF BoundInv

\* A task takes a worker.  When it makes one, every worker that exists is used,
\* and by a task that holds a token.
LEMMA TakeBound ==
  ASSUME TypeOK, HoldInv, HoldInv', BoundInv, NEW t \in Tasks, NEW idle,
         EventLoopFree, Take(t, idle), task[t] \in {"acquired", "retry"},
         UNCHANGED <<live, pruneVars>>
  PROVE  BoundInv'
  <1>1. Holders' = Holders
    BY DEF Take, TypeOK, Holders
  <1>2. CASE task' = [task EXCEPT ![t] = "running"]
    <2>1. Starting' = Starting /\ \A s \in Starting : uses'[s] = uses[s]
      BY <1>2 DEF Take, TypeOK, Starting
    <2>2. Bearing' = Bearing
      BY <2>1 DEF Bearing
    <2> QED
      BY <1>1, <2>2, QuietBound
  <1>3. CASE cache' = <<>>
    <2>1. Cached' = {}
      BY <1>3 DEF Cached
    <2>2. Bearing' \subseteq Used'
      <3>1. popped' = NoWorker /\ NoWorker \notin live'
        BY WorkerContextAssumption
        DEF EventLoopFree, HoldInv, PoppedInv, pruneVars, TypeOK
      <3> QED
        BY <2>1, <3>1, WorkerContextAssumption
        DEF HoldInv, UsesInv, NoWorkerLost, Bearing, Starting, Used
    <2>3. Used' \subseteq {uses'[s] : s \in Holders'}
      BY DEF HoldInv, UsesInv, Used, Holders
    <2>4. IsFiniteSet(Holders')
      BY WorkerContextAssumption, FS_Subset DEF Holders
    <2>5. IsFiniteSet(Bearing') /\ Cardinality(Bearing') <= Cardinality(Holders')
      BY <2>2, <2>3, <2>4, ValuesBounded
    <2>6. /\ Cardinality(Bearing') \in Nat /\ Cardinality(Holders') \in Nat
      BY <2>4, <2>5, FS_CardinalityType
    <2> QED
      BY <1>1, <2>5, <2>6, WorkerContextAssumption DEF BoundInv
  <1> QED
    BY <1>2, <1>3 DEF Take

LEMMA BoundStep ==
  ASSUME TypeOK, HoldInv, HoldInv', BoundInv, Next
  PROVE  BoundInv'
  <1>1. ASSUME NEW t \in Tasks, Acquire(t) PROVE BoundInv'
    <2>1. IsFiniteSet(Holders) /\ Cardinality(Holders) \in Nat
      BY WorkerContextAssumption, FS_Subset, FS_CardinalityType DEF Holders
    <2>2. Holders' = Holders \cup {t}
      BY <1>1 DEF Acquire, TypeOK, Holders
    <2>3. /\ Cardinality(Holders) < TotalTokens
          /\ Cardinality(Holders') <= Cardinality(Holders) + 1
      BY <1>1, <2>1, <2>2, FS_AddElement DEF Acquire
    <2>4. Cardinality(Holders') \in Nat
      BY <2>1, <2>2, FS_AddElement, FS_CardinalityType
    <2>5. Cardinality(Holders') <= TotalTokens
      BY <2>1, <2>3, <2>4, WorkerContextAssumption
    <2>6. Starting' = Starting
      BY <1>1 DEF Acquire, TypeOK, Starting
    <2>7. Bearing' = Bearing
      BY <1>1, <2>6 DEF Acquire, Bearing
    <2> QED
      BY <2>5, <2>7 DEF BoundInv
  <1>2. ASSUME NEW t \in Tasks, EventLoopFree, Enter(t) \/ Retry(t) PROVE BoundInv'
    BY <1>2, TakeBound DEF Enter, Retry
  <1>3. ASSUME NEW t \in Tasks, NEW k \in BOOLEAN,
               Call(t, k) \/ AcquireCancelled(t) \/ EnterRefused(t)
        PROVE  BoundInv'
    <2>1. Holders' \subseteq Holders /\ Starting' = Starting
      BY <1>3 DEF Call, AcquireCancelled, EnterRefused, CallOver, TypeOK, Holders, Starting
    <2>2. Bearing' = Bearing
      BY <1>3, <2>1 DEF Call, AcquireCancelled, EnterRefused, CallOver, Bearing
    <2> QED
      BY <2>1, <2>2, QuietBound
  <1>4. ASSUME NEW t \in Tasks, Started(t) PROVE BoundInv'
    <2>1. Holders' = Holders /\ Starting' = Starting \ {t} /\ t \in Starting
      BY <1>4 DEF Started, TypeOK, Holders, Starting
    <2>2. Bearing' = Bearing
      BY <1>4, <2>1 DEF Started, Bearing
    <2> QED
      BY <2>1, <2>2, QuietBound
  <1>5. ASSUME NEW t \in Tasks, Leave(t), task[t] # "out", live' \subseteq live
        PROVE  BoundInv'
    <2>1. /\ Holders' \subseteq Holders /\ Starting' \subseteq Starting \ {t}
          /\ \A s \in Starting' : uses'[s] = uses[s]
      BY <1>5 DEF Leave, CallOver, TypeOK, Holders, Starting
    <2>2. Bearing' \subseteq Bearing
      BY <1>5, <2>1 DEF Bearing
    <2> QED
      BY <2>1, <2>2, QuietBound
  <1>6. ASSUME NEW t \in Tasks,
               \/ StartAborted(t) \/ Return(t) \/ ReturnDead(t) \/ Raise(t)
               \/ RaiseUnloadable(t) \/ RetryCancelled(t)
        PROVE  BoundInv'
    BY <1>5, <1>6 DEF StartAborted, Return, ReturnDead, Raise, RaiseUnloadable,
                      RetryCancelled
  <1>7. ASSUME NEW t \in Tasks, ReturnNone(t) PROVE BoundInv'
    <2>1. /\ Holders' = Holders /\ Starting' = Starting
          /\ \A s \in Starting : uses'[s] = uses[s]
      BY <1>7 DEF ReturnNone, TypeOK, Holders, Starting
    <2>2. Bearing' = Bearing
      BY <1>7, <2>1 DEF ReturnNone, Bearing
    <2> QED
      BY <2>1, <2>2, QuietBound
  <1>8. ASSUME UNCHANGED <<task, uses>>, live' \subseteq live PROVE BoundInv'
    BY <1>8, QuietBound DEF Holders, Bearing, Starting
  <1>9. CASE \/ \E t \in Tasks : Cancel(t)
             \/ \E w \in Workers : Die(w)
             \/ StatisticsStep \/ Aclose
    BY <1>8, <1>9 DEF Cancel, Die, StatisticsStep, StatisticsPopLeft, StatisticsIsAlive,
                      StatisticsAppendLeft, Aclose, taskVars
  <1>10. CASE CloserStep
    BY <1>8, <1>10 DEF CloserStep, ShutdownBegin, NextWorker, NextRaises, NextStops,
                       JoinBegin, SignalWorker, JoinWorker, KillWorker, ShutdownEnd, taskVars
  <1> QED
    BY <1>1, <1>2, <1>3, <1>4, <1>6, <1>7, <1>9, <1>10 DEF Next, TaskStep

-----------------------------------------------------------------------------
(***************************************************************************)
(* The lifetime manager.                                                   *)
(***************************************************************************)

LEMMA InsideFinite ==
  IsFiniteSet(Inside) /\ Cardinality(Inside) \in Nat
  BY WorkerContextAssumption, FS_Subset, FS_CardinalityType DEF Inside

\* Nobody enters or leaves, and the closing task sleeps on.
LEMMA QuietCount ==
  ASSUME CountInv, Inside' = Inside,
         UNCHANGED <<entrances, exits, closer, wakeups>>
  PROVE  CountInv'
  BY DEF CountInv, RunningExact, running_workers, calc_running, WokenOnce

\* A task leaves.  If it is the last one and the context is closing, the closing
\* task must have been parked.
LEMMA LeaveCount ==
  ASSUME TypeOK, CountInv, NEW t \in Tasks, t \in Inside, Leave(t)
  PROVE  CountInv'
  <1>1. Inside' = Inside \ {t}
    BY DEF Leave, CallOver, TypeOK, Inside
  <1>2. /\ Cardinality(Inside') = Cardinality(Inside) - 1
        /\ Cardinality(Inside') \in Nat /\ Cardinality(Inside) \in Nat
        /\ Cardinality(Inside') = 0 <=> Inside' = {}
    <2>1. IsFiniteSet(Inside) /\ Cardinality(Inside) \in Nat
      BY InsideFinite
    <2>2. IsFiniteSet(Inside') /\ Cardinality(Inside') = Cardinality(Inside) - 1
      BY <1>1, <2>1, FS_RemoveElement
    <2>3. Cardinality(Inside') \in Nat
      BY <2>2, FS_CardinalityType
    <2>4. Cardinality(Inside') = 0 <=> Inside' = {}
      BY <2>2, FS_EmptySet
    <2> QED
      BY <2>1, <2>2, <2>3, <2>4
  <1>3. /\ entrances \in Nat /\ exits \in Nat
        /\ entrances' = entrances /\ exits' = exits + 1
        /\ entrances - exits = Cardinality(Inside)
    BY DEF TypeOK, Leave, CallOver, CountInv, RunningExact, running_workers, calc_running
  <1>4. entrances' - exits' = Cardinality(Inside')
    BY <1>2, <1>3
  <1>5. closer \in {"open", "parked"}
    BY DEF CountInv
  <1>6. CASE closer = "parked" /\ entrances = exits'
    <2>1. closer' = "woken" /\ wakeups' = 1 /\ wakeups = 0
      BY <1>6 DEF Leave, CallOver, Closing, CountInv, WokenOnce
    <2>2. Inside' = {}
      BY <1>2, <1>3, <1>4, <1>6
    <2> QED
      BY <1>4, <2>1, <2>2
      DEF CountInv, RunningExact, running_workers, calc_running, WokenOnce
  <1>7. CASE closer = "open" \/ entrances # exits'
    <2>1. closer' = closer /\ wakeups' = wakeups
      BY <1>7 DEF Leave, CallOver, Closing, closeVars
    <2>2. closer = "parked" => entrances' - exits' > 0
      BY <1>2, <1>3, <1>4, <1>7
    <2> QED
      BY <1>4, <1>5, <2>1, <2>2
      DEF CountInv, RunningExact, running_workers, calc_running, WokenOnce
  <1> QED
    BY <1>5, <1>6, <1>7

\* A task enters, which an open context only allows.
LEMMA EnterCount ==
  ASSUME TypeOK, CountInv, NEW t \in Tasks, Enter(t)
  PROVE  CountInv'
  <1>1. Inside' = Inside \cup {t} /\ t \notin Inside
    BY DEF Enter, Take, TypeOK, Inside
  <1>2. /\ Cardinality(Inside') = Cardinality(Inside) + 1
        /\ Cardinality(Inside) \in Nat
    BY <1>1, InsideFinite, FS_AddElement
  <1>3. /\ entrances \in Nat /\ exits \in Nat
        /\ entrances' = entrances + 1 /\ exits' = exits
        /\ closer = "open" /\ closer' = closer /\ wakeups' = wakeups
        /\ entrances - exits = Cardinality(Inside)
    BY DEF TypeOK, Enter, Closing, closeVars, CountInv, RunningExact,
           running_workers, calc_running
  <1>4. entrances' - exits' = Cardinality(Inside')
    BY <1>2, <1>3
  <1> QED
    BY <1>3, <1>4 DEF CountInv, RunningExact, running_workers, calc_running, WokenOnce

LEMMA CountStep ==
  ASSUME TypeOK, CountInv, Next
  PROVE  CountInv'
  <1>1. ASSUME NEW t \in Tasks, NEW k \in BOOLEAN,
               \/ Call(t, k) \/ Acquire(t) \/ AcquireCancelled(t)
               \/ EnterRefused(t) \/ Started(t) \/ ReturnNone(t) \/ Retry(t)
        PROVE  CountInv'
    <2>1. Inside' = Inside
      BY <1>1 DEF Call, Acquire, AcquireCancelled, EnterRefused, CallOver, Started, ReturnNone,
                  Retry, Take, TypeOK, Inside
    <2> QED
      BY <1>1, <2>1, QuietCount
      DEF Call, Acquire, AcquireCancelled, EnterRefused, CallOver, Started, ReturnNone, Retry,
          countVars, closeVars
  <1>2. ASSUME NEW t \in Tasks, Enter(t) PROVE CountInv'
    BY <1>2, EnterCount
  <1>3. ASSUME NEW t \in Tasks,
               \/ StartAborted(t) \/ Return(t) \/ ReturnDead(t) \/ Raise(t)
               \/ RaiseUnloadable(t) \/ RetryCancelled(t)
        PROVE  CountInv'
    <2>1. t \in Inside /\ Leave(t)
      BY <1>3 DEF StartAborted, Return, ReturnDead, Raise, RaiseUnloadable,
                  RetryCancelled, Inside
    <2> QED
      BY <2>1, LeaveCount
  <1>4. CASE \/ \E t \in Tasks : Cancel(t)
             \/ \E w \in Workers : Die(w)
             \/ StatisticsStep
    <2>1. Inside' = Inside
      BY <1>4 DEF Cancel, Die, StatisticsStep, StatisticsPopLeft, StatisticsIsAlive,
                  StatisticsAppendLeft, taskVars, Inside
    <2> QED
      BY <1>4, <2>1, QuietCount
      DEF Cancel, Die, StatisticsStep, StatisticsPopLeft, StatisticsIsAlive,
          StatisticsAppendLeft, countVars, closeVars
  <1>5. CASE Aclose
    <2>1. Inside' = Inside /\ calc_running' = calc_running /\ wakeups' = wakeups
      BY <1>5 DEF Aclose, taskVars, countVars, Inside, calc_running
    <2>2. /\ calc_running = Cardinality(Inside) /\ Cardinality(Inside) \in Nat
          /\ Cardinality(Inside) = 0 => Inside = {}
      BY InsideFinite, FS_EmptySet DEF CountInv, RunningExact, running_workers
    <2>3. closer = "open" /\ wakeups = 0
      BY <1>5 DEF Aclose, Closing, CountInv
    <2>4. CASE calc_running # 0
      BY <1>5, <2>1, <2>2, <2>3, <2>4
      DEF Aclose, CountInv, RunningExact, running_workers, WokenOnce
    <2>5. CASE calc_running = 0
      BY <1>5, <2>1, <2>2, <2>3, <2>5
      DEF Aclose, CountInv, RunningExact, running_workers, WokenOnce
    <2> QED
      BY <2>4, <2>5
  <1>6. CASE CloserStep
    <2>1. /\ Inside' = Inside /\ UNCHANGED <<entrances, exits, wakeups>>
          /\ closer \notin {"open", "parked"} /\ closer' \notin {"open", "parked"}
      BY <1>6 DEF CloserStep, ShutdownBegin, NextWorker, NextRaises, NextStops, Iterate,
                  JoinBegin, SignalWorker, JoinWorker, KillWorker, ShutdownEnd, taskVars,
                  countVars, closeVars, Inside
    <2> QED
      BY <2>1 DEF CountInv, RunningExact, running_workers, calc_running, WokenOnce
  <1> QED
    BY <1>1, <1>2, <1>3, <1>4, <1>5, <1>6 DEF Next, TaskStep

-----------------------------------------------------------------------------
(***************************************************************************)
(* Shutting down.                                                          *)
(***************************************************************************)

\* Workers may die and statistics may forget a dead one; otherwise nothing that
\* shutdown is about changes.
LEMMA QuietStop ==
  ASSUME StopInv, live' \subseteq live, popped' \in {popped, NoWorker},
         UNCHANGED <<cache, closer, idx, current, mutated, missed, shut, killed>>
  PROVE  StopInv'
  <1>1. SignalInv'
    BY DEF StopInv, SignalInv
  <1>2. JoinInv'
    BY DEF StopInv, JoinInv
  <1> QED
    BY <1>1, <1>2 DEF StopInv, ClosedIsStopped

\* The deque changes, and an iterator over it will raise.
LEMMA MutateStop ==
  ASSUME StopInv, UNCHANGED <<live, closer, missed, shut, killed>>, Mutate
  PROVE  StopInv'
  BY DEF StopInv, SignalInv, JoinInv, ClosedIsStopped, Mutate

\* A step of a task that is inside or enters: the thread does not run yet.
LEMMA InsideStop ==
  ASSUME StopInv, closer \in {"open", "parked"},
         closer' \in {"open", "parked", "woken"}, UNCHANGED shut
  PROVE  StopInv'
  BY DEF StopInv, SignalInv, JoinInv, ClosedIsStopped

\* When no task is inside, the cache or statistics has every living worker.
LEMMA CachedAreAll ==
  ASSUME HoldInv, CountInv, closer \notin {"open", "parked"}
  PROVE  live \subseteq Cached \cup {popped}
  <1>1. Inside = {}
    BY DEF CountInv
  <1>2. Used = {}
    BY <1>1 DEF HoldInv, UsesInv, Used, Inside
  <1> QED
    BY <1>2 DEF HoldInv, NoWorkerLost

\* A loop begins.
LEMMA IterateStop ==
  ASSUME TypeOK, StopInv,
         \/ closer = "woken" /\ Iterate("signal")
         \/ closer = "signaled" /\ Iterate("join"),
         UNCHANGED <<live, cache, popped, shut, killed>>
  PROVE  StopInv'
  <1>1. \A i \in 1..Len(cache') : ~ (i < idx')
    BY DEF Iterate, TypeOK
  <1>2. CASE closer = "woken" /\ Iterate("signal")
    <2>1. closer' = "signal" /\ missed'["signal"] = popped
      BY <1>2 DEF Iterate, TypeOK
    <2> QED
      BY <1>1, <2>1 DEF StopInv, SignalInv, JoinInv, ClosedIsStopped
  <1>3. CASE closer = "signaled" /\ Iterate("join")
    <2>1. /\ closer' = "join" /\ missed'["join"] = popped
          /\ missed'["signal"] = missed["signal"]
      BY <1>3 DEF Iterate, TypeOK
    <2> QED
      BY <1>1, <1>3, <2>1 DEF StopInv, SignalInv, JoinInv, ClosedIsStopped
  <1> QED
    BY <1>2, <1>3

\* A loop takes the next worker.
LEMMA NextWorkerStop ==
  ASSUME TypeOK, StopInv, NextWorker
  PROVE  StopInv'
  <1>1. /\ closer \in {"signal", "join"} /\ closer' = closer
        /\ ~mutated /\ mutated' = mutated /\ current = NoWorker
        /\ UNCHANGED <<cache, live, popped, missed, shut, killed>>
        /\ idx' = idx + 1 /\ current' = cache[idx]
    BY DEF NextWorker, closeVars, pruneVars
  <1>2. /\ \A i \in 1..Len(cache) : i < idx' => i = idx \/ i < idx
        /\ \A i \in 1..Len(cache) : cache[i] # NoWorker
    BY <1>1, WorkerContextAssumption DEF TypeOK
  <1>3. SignalInv'
    BY <1>1, <1>2 DEF StopInv, SignalInv
  <1>4. JoinInv'
    BY <1>1, <1>2 DEF StopInv, JoinInv
  <1> QED
    BY <1>1, <1>3, <1>4 DEF StopInv, ClosedIsStopped

\* A loop comes to its end, having passed every worker in the deque.
LEMMA NextStopsStop ==
  ASSUME TypeOK, HoldInv, CountInv, StopInv, NextStops
  PROVE  StopInv'
  <1>1. /\ current = NoWorker /\ ~mutated
        /\ \A i \in 1..Len(cache) : i < idx /\ cache[i] # NoWorker
        /\ UNCHANGED <<live, missed, shut, killed>>
    BY WorkerContextAssumption DEF NextStops, TypeOK, stopVars
  <1>2. NoWorker \notin live
    BY WorkerContextAssumption DEF TypeOK
  <1>3. CASE closer = "signal" /\ closer' = "signaled"
    <2>1. Cached \subseteq shut /\ popped \in {NoWorker, missed["signal"]}
      BY <1>1, <1>3 DEF StopInv, SignalInv, Cached
    <2>2. live \subseteq shut \cup {missed["signal"]}
      BY <1>2, <1>3, <2>1, CachedAreAll
    <2> QED
      BY <1>1, <1>3, <2>2 DEF StopInv, SignalInv, JoinInv, ClosedIsStopped
  <1>4. CASE closer = "join" /\ closer' = "reap"
    <2>1. Cached \cap live \subseteq killed /\ popped \in {NoWorker, missed["join"]}
      BY <1>1, <1>4 DEF StopInv, JoinInv, Cached
    <2>2. live \subseteq killed \cup {missed["join"]}
      BY <1>2, <1>4, <2>1, CachedAreAll
    <2> QED
      BY <1>1, <1>4, <2>2 DEF StopInv, SignalInv, JoinInv, ClosedIsStopped
  <1> QED
    BY <1>3, <1>4 DEF NextStops

LEMMA StopStep ==
  ASSUME TypeOK, HoldInv, CountInv, StopInv, Next
  PROVE  StopInv'
  <1>1. ASSUME NEW t \in Tasks, NEW k \in BOOLEAN,
               Call(t, k) \/ Acquire(t) \/ AcquireCancelled(t) \/ EnterRefused(t)
        PROVE  StopInv'
    BY <1>1, QuietStop DEF Call, Acquire, AcquireCancelled, EnterRefused, CallOver,
                           pruneVars, closeVars, stopVars
  <1>2. ASSUME NEW t \in Tasks,
               \/ Enter(t) \/ Started(t) \/ ReturnNone(t) \/ Retry(t)
               \/ StartAborted(t) \/ Return(t) \/ ReturnDead(t) \/ Raise(t)
               \/ RaiseUnloadable(t) \/ RetryCancelled(t)
        PROVE  StopInv'
    <2>1. closer \in {"open", "parked"}
      <3>1. CASE Enter(t)
        BY <3>1 DEF Enter, Closing
      <3>2. CASE ~Enter(t)
        <4>1. t \in Inside
          BY <1>2, <3>2 DEF Started, ReturnNone, Retry, StartAborted, Return, ReturnDead,
                      Raise, RaiseUnloadable, RetryCancelled, Inside
        <4> QED
          BY <4>1 DEF CountInv
      <3> QED
        BY <3>1, <3>2
    <2>2. closer' \in {"open", "parked", "woken"} /\ UNCHANGED shut
      BY <1>2, <2>1 DEF Enter, Started, ReturnNone, Retry, StartAborted, Return,
           ReturnDead, Raise, RaiseUnloadable, RetryCancelled, Leave, CallOver, closeVars,
           stopVars
    <2> QED
      BY <2>1, <2>2, InsideStop
  <1>3. CASE \/ \E t \in Tasks : Cancel(t)
             \/ \E w \in Workers : Die(w)
    BY <1>3, QuietStop DEF Cancel, Die, pruneVars, closeVars, stopVars
  <1>4. CASE StatisticsStep
    <2>1. CASE Mutate
      <3>1. UNCHANGED <<live, closer, missed, shut, killed>>
        BY <1>4 DEF StatisticsStep, StatisticsPopLeft, StatisticsIsAlive,
                    StatisticsAppendLeft, closeVars, stopVars
      <3> QED
        BY <2>1, <3>1, MutateStop
    <2>2. CASE ~Mutate
      <3>1. /\ live' = live /\ popped' \in {popped, NoWorker}
            /\ UNCHANGED <<cache, closer, idx, current, mutated, missed, shut, killed>>
        BY <1>4, <2>2 DEF StatisticsStep, StatisticsPopLeft, StatisticsIsAlive,
                          StatisticsAppendLeft, closeVars, stopVars
      <3> QED
        BY <3>1, QuietStop
    <2> QED
      BY <2>1, <2>2
  <1>5. CASE Aclose
    BY <1>5 DEF Aclose, Closing, stopVars, StopInv, SignalInv, JoinInv, ClosedIsStopped
  <1>6. CASE ShutdownBegin
    BY <1>6, IterateStop DEF ShutdownBegin, pruneVars
  <1>7. CASE NextWorker
    BY <1>7, NextWorkerStop
  <1>8. CASE NextRaises
    BY <1>8 DEF NextRaises, StopInv, SignalInv, JoinInv, ClosedIsStopped
  <1>9. CASE NextStops
    BY <1>9, NextStopsStop
  <1>10. CASE JoinBegin
    BY <1>10, IterateStop DEF JoinBegin, pruneVars
  <1>11. CASE SignalWorker
    <2>1. /\ closer = "signal" /\ closer' = closer /\ shut' = shut \cup {current}
          /\ UNCHANGED <<live, cache, popped, idx, mutated, missed, killed>>
      BY <1>11 DEF SignalWorker, pruneVars, closeVars
    <2> QED
      BY <2>1 DEF StopInv, SignalInv, JoinInv, ClosedIsStopped
  <1>12. CASE JoinWorker \/ KillWorker
    <2>1. /\ closer = "join" /\ closer' = closer
          /\ current \notin live' \/ current \in killed'
          /\ UNCHANGED <<live, cache, popped, idx, mutated, missed, shut>>
          /\ killed \subseteq killed'
      BY <1>12 DEF JoinWorker, KillWorker, pruneVars, closeVars
    <2> QED
      BY <2>1 DEF StopInv, SignalInv, JoinInv, ClosedIsStopped
  <1>13. CASE ShutdownEnd
    <2>1. /\ closer = "reap" /\ closer' = "closed" /\ killed \cap live = {}
          /\ UNCHANGED <<live, missed, shut, killed>>
      BY <1>13 DEF ShutdownEnd, stopVars
    <2> QED
      BY <2>1 DEF StopInv, SignalInv, JoinInv, ClosedIsStopped
  <1> QED
    BY <1>1, <1>2, <1>3, <1>4, <1>5, <1>6, <1>7, <1>8, <1>9, <1>10, <1>11, <1>12,
       <1>13
    DEF Next, TaskStep, CloserStep

-----------------------------------------------------------------------------
(***************************************************************************)
(* The theorems.                                                           *)
(***************************************************************************)

LEMMA StutterInv ==
  ASSUME IInv, UNCHANGED vars
  PROVE  IInv'
  <1>1. /\ UNCHANGED <<task, uses, killable, cancelled, live, cache, entrances, exits>>
        /\ UNCHANGED <<closer, wakeups, idx, current, mutated, missed, shut, killed>>
        /\ UNCHANGED <<pruning, popped, pruneVars>>
    BY DEF vars, taskVars, pruneVars, countVars, closeVars, stopVars
  <1>2. TypeOK'
    BY <1>1 DEF IInv, TypeOK
  <1>3. HoldInv'
    BY <1>1, QuietHold DEF IInv
  <1>4. BoundInv'
    BY <1>1, QuietBound DEF IInv, Holders, Bearing, Starting
  <1>5. CountInv'
    BY <1>1, QuietCount DEF IInv, Inside
  <1>6. StopInv'
    BY <1>1, QuietStop DEF IInv
  <1> QED
    BY <1>2, <1>3, <1>4, <1>5, <1>6 DEF IInv

LEMMA StepInv ==
  ASSUME IInv, [Next]_vars
  PROVE  IInv'
  <1>1. CASE Next
    <2>1. TypeOK'
      BY <1>1, TypeStep DEF IInv, HoldInv
    <2>2. HoldInv'
      BY <1>1, HoldStep DEF IInv
    <2>3. BoundInv'
      BY <1>1, <2>2, BoundStep DEF IInv
    <2>4. CountInv'
      BY <1>1, CountStep DEF IInv
    <2>5. StopInv'
      BY <1>1, StopStep DEF IInv
    <2> QED
      BY <2>1, <2>2, <2>3, <2>4, <2>5 DEF IInv
  <1>2. CASE UNCHANGED vars
    BY <1>2, StutterInv
  <1> QED
    BY <1>1, <1>2

\* The invariant holds whatever the limiter, the number of tasks and the order
\* of their steps.
THEOREM Invariant == SafeSpec => []IInv
  <1>1. Init => IInv
    BY InitInv
  <1>2. IInv /\ [Next]_vars => IInv'
    BY StepInv
  <1> QED
    BY <1>1, <1>2, PTL DEF SafeSpec

\* run_sync, _aclose and the shutdown thread keep every variable in its range.
THEOREM TypeCorrect == SafeSpec => []TypeOK
  <1>1. IInv => TypeOK
    BY DEF IInv
  <1> QED
    BY <1>1, Invariant, PTL

\* The deque and run_sync's local variables: a worker is never given to two
\* tasks, and never cached while a task uses it.
THEOREM HeldOnce == SafeSpec => []WorkerHeldOnce
  <1>1. IInv => WorkerHeldOnce
    BY DEF IInv, HoldInv
  <1> QED
    BY <1>1, Invariant, PTL

\* prune, pop, append and appendleft forget no living process.
THEOREM NothingLost == SafeSpec => []NoWorkerLost
  <1>1. IInv => NoWorkerLost
    BY DEF IInv, HoldInv
  <1> QED
    BY <1>1, Invariant, PTL

\* The limiter around run_sync bounds the number of worker processes.
THEOREM Bounded == SafeSpec => []WorkersBounded
  <1>1. ASSUME IInv PROVE WorkersBounded
    <2>1. IsFiniteSet(Bearing) /\ Cardinality(Bearing) <= TotalTokens
      BY <1>1 DEF IInv, BoundInv
    <2>2. live \in SUBSET Bearing
      BY DEF Bearing
    <2>3. IsFiniteSet(live) /\ Cardinality(live) <= Cardinality(Bearing)
      BY <2>1, <2>2, FS_Subset
    <2>4. Cardinality(live) \in Nat /\ Cardinality(Bearing) \in Nat
      BY <2>1, <2>3, FS_CardinalityType
    <2> QED
      BY <2>1, <2>3, <2>4, WorkerContextAssumption DEF WorkersBounded
  <1> QED
    BY <1>1, Invariant, PTL

\* ContextLifetimeManager counts exactly the tasks that are inside.
THEOREM CountsExactly == SafeSpec => []RunningExact
  <1>1. IInv => RunningExact
    BY DEF IInv, CountInv
  <1> QED
    BY <1>1, Invariant, PTL

\* The cache is shut down when nobody uses a worker any more, and nobody gets
\* one that was shut down.
THEOREM Exclusive == SafeSpec => []ShutdownIsExclusive
  <1>1. ASSUME IInv PROVE ShutdownIsExclusive
    <2>1. closer \notin {"open", "parked"} => Inside = {}
      BY <1>1 DEF IInv, CountInv
    <2>2. Inside = {} => Used = {}
      BY <1>1 DEF IInv, HoldInv, UsesInv, Used, Inside
    <2>3. closer \in {"open", "parked"} => shut = {}
      BY <1>1 DEF IInv, StopInv
    <2> QED
      BY <2>1, <2>2, <2>3 DEF ShutdownIsExclusive
  <1> QED
    BY <1>1, Invariant, PTL

\* The closing task sleeps only while a task is inside that will wake it, and
\* is woken once.
THEOREM WakesOnce == SafeSpec => []WokenOnce
  <1>1. IInv => WokenOnce
    BY DEF IInv, CountInv
  <1> QED
    BY <1>1, Invariant, PTL

\* When shutdown's two loops and the final joins have gone through, the only
\* process that can be left, whichever workers died or were killed meanwhile, is
\* one that prune, called by statistics, had in its hands when the second loop
\* began, and it was told to shut down unless prune had it already when the first
\* loop began.
THEOREM ClosedStops == SafeSpec => []ClosedIsStopped
  <1>1. IInv => ClosedIsStopped
    BY DEF IInv, StopInv
  <1> QED
    BY <1>1, Invariant, PTL
=============================================================================

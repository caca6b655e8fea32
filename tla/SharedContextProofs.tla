------------------------ MODULE SharedContextProofs ------------------------
(***************************************************************************)
(* Theorems about SharedContext, for every number of threads, workers and  *)
(* calls: the unlocked deque neither shares nor loses a worker.            *)
(***************************************************************************)
EXTENDS SharedContext, SequenceTheorems, TLAPS

\* Where a thread has a worker in a local variable.
Holding == {"check", "stats check", "running"}

\* A thread has a worker exactly at those places.
HoldsInv == \A t \in Threads : holds[t] # NoWorker <=> at[t] \in Holding

\* The inductive invariant.  HoldsInv is what tells that a thread that is
\* about to take a worker does not drop one it has.
IInv == TypeOK /\ HoldsInv /\ WorkerHeldOnce /\ NoWorkerLost

-----------------------------------------------------------------------------
(***************************************************************************)
(* The four deque operations, on the members of a sequence.                *)
(***************************************************************************)

Members(q) == {q[i] : i \in 1..Len(q)}
Distinct(q) == \A i, k \in 1..Len(q) : q[i] = q[k] => i = k

\* append
LEMMA PushRight ==
  ASSUME NEW S, NEW q \in Seq(S), NEW e \in S
  PROVE  /\ Append(q, e) \in Seq(S)
         /\ Members(Append(q, e)) = Members(q) \cup {e}
         /\ Distinct(q) /\ e \notin Members(q) => Distinct(Append(q, e))
  <1> DEFINE p == Append(q, e)
  <1>1. /\ p \in Seq(S) /\ Len(q) \in Nat /\ Len(p) = Len(q) + 1
        /\ \A i \in 1..Len(q) : p[i] = q[i]
        /\ p[Len(q) + 1] = e
    OBVIOUS
  <1>2. \A i \in 1..Len(p) : i \in 1..Len(q) \/ i = Len(q) + 1
    BY <1>1
  <1>3. \A i \in 1..Len(q) : i \in 1..Len(p)
    BY <1>1
  <1>4. Len(q) + 1 \in 1..Len(p)
    BY <1>1
  <1> HIDE DEF p
  <1>5. Members(p) = Members(q) \cup {e}
    BY <1>1, <1>2, <1>3, <1>4 DEF Members
  <1>6. Distinct(q) /\ e \notin Members(q) => Distinct(p)
    BY <1>1, <1>2 DEF Members, Distinct
  <1> QED
    BY <1>1, <1>5, <1>6 DEF p

\* appendleft
LEMMA PushLeft ==
  ASSUME NEW S, NEW q \in Seq(S), NEW e \in S
  PROVE  /\ <<e>> \o q \in Seq(S)
         /\ Members(<<e>> \o q) = Members(q) \cup {e}
         /\ Distinct(q) /\ e \notin Members(q) => Distinct(<<e>> \o q)
  <1> DEFINE p == <<e>> \o q
  <1>1. /\ p \in Seq(S) /\ Len(q) \in Nat /\ Len(p) = Len(q) + 1
        /\ \A i \in 1..Len(q) : p[i + 1] = q[i]
        /\ p[1] = e
    OBVIOUS
  <1>2. \A i \in 1..Len(p) : i = 1 \/ (i - 1 \in 1..Len(q) /\ p[i] = q[i - 1])
    BY <1>1
  <1>3. \A i \in 1..Len(q) : i + 1 \in 1..Len(p)
    BY <1>1
  <1>4. 1 \in 1..Len(p)
    BY <1>1
  <1> HIDE DEF p
  <1>5. Members(p) = Members(q) \cup {e}
    <2>1. ASSUME NEW x \in Members(p) PROVE x \in Members(q) \cup {e}
      BY <1>1, <1>2, <2>1 DEF Members
    <2>2. ASSUME NEW x \in Members(q) PROVE x \in Members(p)
      BY <1>1, <1>3, <2>2 DEF Members
    <2>3. e \in Members(p)
      BY <1>1, <1>4 DEF Members
    <2> QED
      BY <2>1, <2>2, <2>3
  <1>6. ASSUME Distinct(q), e \notin Members(q) PROVE Distinct(p)
    <2>1. \A i \in 1..Len(q) : q[i] # e
      BY <1>6 DEF Members
    <2>2. ASSUME NEW i \in 1..Len(p), NEW k \in 1..Len(p), p[i] = p[k]
          PROVE  i = k
      <3>1. CASE i = 1
        BY <1>1, <1>2, <2>1, <2>2, <3>1
      <3>2. CASE k = 1
        BY <1>1, <1>2, <2>1, <2>2, <3>2
      <3>3. CASE i # 1 /\ k # 1
        <4>1. /\ i - 1 \in 1..Len(q) /\ k - 1 \in 1..Len(q)
              /\ q[i - 1] = q[k - 1]
          BY <1>2, <2>2, <3>3
        <4>2. i - 1 = k - 1
          BY <1>6, <4>1 DEF Distinct
        <4> QED
          BY <1>1, <4>2
      <3> QED
        BY <3>1, <3>2, <3>3
    <2> QED
      BY <2>2 DEF Distinct
  <1> QED
    BY <1>1, <1>5, <1>6 DEF p

\* popleft
LEMMA PopLeftFacts ==
  ASSUME NEW S, NEW q \in Seq(S), q # <<>>
  PROVE  /\ Tail(q) \in Seq(S) /\ Head(q) \in S
         /\ Members(q) = Members(Tail(q)) \cup {Head(q)}
         /\ Distinct(q) => Distinct(Tail(q)) /\ Head(q) \notin Members(Tail(q))
  <1> DEFINE p == Tail(q)
  <1>1. /\ p \in Seq(S) /\ Len(p) \in Nat /\ Len(q) = Len(p) + 1
        /\ \A i \in 1..Len(p) : p[i] = q[i + 1]
        /\ Head(q) = q[1] /\ q[1] \in S
    OBVIOUS
  <1>2. \A i \in 1..Len(q) : i = 1 \/ (i - 1 \in 1..Len(p) /\ p[i - 1] = q[i])
    BY <1>1
  <1>3. \A i \in 1..Len(p) : i + 1 \in 1..Len(q) /\ i + 1 # 1
    BY <1>1
  <1>4. 1 \in 1..Len(q)
    BY <1>1
  <1> HIDE DEF p
  <1>5. Members(q) = Members(p) \cup {Head(q)}
    <2>1. ASSUME NEW x \in Members(q) PROVE x \in Members(p) \cup {Head(q)}
      BY <1>1, <1>2, <2>1 DEF Members
    <2>2. ASSUME NEW x \in Members(p) PROVE x \in Members(q)
      BY <1>1, <1>3, <2>2 DEF Members
    <2>3. Head(q) \in Members(q)
      BY <1>1, <1>4 DEF Members
    <2> QED
      BY <2>1, <2>2, <2>3
  <1>6. ASSUME Distinct(q) PROVE Distinct(p) /\ Head(q) \notin Members(p)
    <2>1. \A i, k \in 1..Len(p) : q[i + 1] = q[k + 1] => i = k
      BY <1>1, <1>3, <1>6 DEF Distinct
    <2>2. \A i \in 1..Len(p) : q[i + 1] # q[1]
      BY <1>3, <1>4, <1>6 DEF Distinct
    <2> QED
      BY <1>1, <2>1, <2>2 DEF Members, Distinct
  <1> QED
    BY <1>1, <1>5, <1>6 DEF p

\* pop
LEMMA PopRightFacts ==
  ASSUME NEW S, NEW q \in Seq(S), q # <<>>
  PROVE  LET p == SubSeq(q, 1, Len(q) - 1)
             last == q[Len(q)]
         IN  /\ p \in Seq(S) /\ last \in S
             /\ Members(q) = Members(p) \cup {last}
             /\ Distinct(q) => Distinct(p) /\ last \notin Members(p)
  <1> DEFINE p == SubSeq(q, 1, Len(q) - 1)
             last == q[Len(q)]
  <1>1. Len(q) \in Nat \ {0} /\ last \in S
    OBVIOUS
  <1>2. /\ p \in Seq(S) /\ Len(p) = Len(q) - 1
        /\ \A i \in 1..Len(p) : p[i] = q[i]
    <2> DEFINE n == Len(q) - 1
    <2>1. /\ n \in Nat /\ n \in Int /\ 1 \in Int
          /\ \A i \in 1..n : q[i] \in S
      BY <1>1
    <2> HIDE DEF n
    <2>2. /\ SubSeq(q, 1, n) \in Seq(S)
          /\ Len(SubSeq(q, 1, n)) = IF 1 <= n THEN n - 1 + 1 ELSE 0
          /\ \A i \in 1..(n - 1 + 1) : SubSeq(q, 1, n)[i] = q[1 + i - 1]
      BY <2>1, SubSeqProperties
    <2>3. IF 1 <= n THEN n - 1 + 1 = n ELSE n = 0
      BY <2>1
    <2>4. Len(SubSeq(q, 1, n)) = n
      BY <2>2, <2>3
    <2>5. \A i \in 1..n : SubSeq(q, 1, n)[i] = q[i]
      BY <2>1, <2>2
    <2> QED
      BY <2>2, <2>4, <2>5 DEF n
  <1>3. /\ \A i \in 1..Len(q) : i \in 1..Len(p) \/ i = Len(q)
        /\ \A i \in 1..Len(p) : i \in 1..Len(q) /\ i # Len(q)
        /\ Len(q) \in 1..Len(q)
    BY <1>1, <1>2
  <1> HIDE DEF p
  <1>4. Members(q) = Members(p) \cup {last}
    BY <1>2, <1>3 DEF Members
  <1>5. Distinct(q) => Distinct(p) /\ last \notin Members(p)
    BY <1>2, <1>3 DEF Members, Distinct
  <1> QED
    BY <1>1, <1>2, <1>4, <1>5 DEF p

-----------------------------------------------------------------------------
(***************************************************************************)
(* The invariant, in terms of what each thread holds and of the members of *)
(* the deque.                                                              *)
(***************************************************************************)

\* The members of a deque of workers are workers, and NoWorker is none.
LEMMA MembersAreWorkers ==
  ASSUME NEW q \in Seq(Workers)
  PROVE  Members(q) \subseteq Workers /\ NoWorker \notin Members(q)
  <1>1. \A i \in 1..Len(q) : q[i] \in Workers
    OBVIOUS
  <1> QED
    BY <1>1, SharedContextAssumption DEF Members

\* The cache as a set, before and after a step.
LEMMA CachedIsMembers == Cached = Members(cache) /\ Cached' = Members(cache')
  BY DEF Cached, Members

\* What WorkerHeldOnce says of the deque itself.
LEMMA CacheIsDistinct ==
  ASSUME WorkerHeldOnce
  PROVE  Distinct(cache) /\ \A t \in Threads : holds[t] \notin Members(cache)
  BY CachedIsMembers DEF WorkerHeldOnce, Distinct

\* Nobody holds a worker, or caches one, at first.
LEMMA InitInv == Init => IInv
  <1> SUFFICES ASSUME Init PROVE IInv
    OBVIOUS
  <1>1. TypeOK
    BY DEF Init, TypeOK, Places
  <1>2. HoldsInv
    BY DEF Init, HoldsInv, Holding
  <1>3. Len(cache) = 0
    BY DEF Init
  <1>4. WorkerHeldOnce /\ NoWorkerLost
    BY <1>3 DEF Init, WorkerHeldOnce, NoWorkerLost, Cached
  <1> QED
    BY <1>1, <1>2, <1>4 DEF IInv

\* The counters do not concern the deque.
LEMMA CounterSteps ==
  ASSUME IInv, NEW t \in Threads,
         DrawEntrance(t) \/ StoreEntrance(t) \/ BeginStatistics(t)
           \/ DrawExit(t) \/ StoreExit(t)
  PROVE  IInv'
  <1>1. TypeOK'
    <2>1. at' \in [Threads -> Places]
      BY DEF IInv, TypeOK, DrawEntrance, StoreEntrance, BeginStatistics, DrawExit,
             StoreExit, Goto, Places
    <2>2. /\ drawn' \in [Threads -> Nat]
          /\ enter_counter' \in Nat /\ exit_counter' \in Nat
          /\ entrances' \in Nat /\ exits' \in Nat
      <3>1. /\ drawn \in [Threads -> Nat]
            /\ enter_counter \in Nat /\ exit_counter \in Nat
            /\ entrances \in Nat /\ exits \in Nat
        BY DEF IInv, TypeOK
      <3>2. CASE DrawEntrance(t)
        BY <3>1, <3>2 DEF DrawEntrance
      <3>3. CASE StoreEntrance(t) \/ BeginStatistics(t)
        BY <3>1, <3>3 DEF StoreEntrance, BeginStatistics, counterVars
      <3>4. CASE DrawExit(t)
        BY <3>1, <3>4 DEF DrawExit
      <3>5. CASE StoreExit(t)
        BY <3>1, <3>5 DEF StoreExit
      <3> QED
        BY <3>2, <3>3, <3>4, <3>5
    <2>3. UNCHANGED <<holds, live, cache>>
      BY DEF DrawEntrance, StoreEntrance, BeginStatistics, DrawExit, StoreExit
    <2> QED
      BY <2>1, <2>2, <2>3 DEF IInv, TypeOK
  <1>2. HoldsInv'
    BY DEF IInv, TypeOK, HoldsInv, DrawEntrance, StoreEntrance, BeginStatistics,
           DrawExit, StoreExit, Goto, Holding
  <1>3. UNCHANGED <<holds, live, cache>>
    BY DEF DrawEntrance, StoreEntrance, BeginStatistics, DrawExit, StoreExit
  <1>4. WorkerHeldOnce' /\ NoWorkerLost'
    BY <1>3 DEF IInv, WorkerHeldOnce, NoWorkerLost, Cached, Held
  <1> QED
    BY <1>1, <1>2, <1>4 DEF IInv

\* popleft: the thread has what the deque has lost.
LEMMA PopLeftStep == ASSUME IInv, NEW t \in Threads, PopLeft(t) PROVE IInv'
  <1>1. /\ at[t] \in {"prune", "stats prune"} /\ holds[t] = NoWorker
        /\ cache \in Seq(Workers)
        /\ UNCHANGED <<drawn, live, counterVars>>
    BY DEF IInv, TypeOK, HoldsInv, Holding, PopLeft
  <1>2. CASE cache = <<>>
    <2>1. UNCHANGED <<holds, cache>> /\ at' = [at EXCEPT ![t] = AfterPrune(t)]
      BY <1>2 DEF PopLeft, Goto
    <2>2. AfterPrune(t) \in Places \ Holding
      BY DEF AfterPrune, Places, Holding
    <2>3. TypeOK' /\ HoldsInv'
      BY <1>1, <2>1, <2>2 DEF IInv, TypeOK, HoldsInv, counterVars, Holding
    <2>4. UNCHANGED <<holds, live, cache>>
      BY <1>1, <2>1
    <2>5. WorkerHeldOnce' /\ NoWorkerLost'
      BY <2>4 DEF IInv, WorkerHeldOnce, NoWorkerLost, Cached, Held
    <2> QED
      BY <2>3, <2>5 DEF IInv
  <1>3. CASE cache # <<>>
    <2> DEFINE w == Head(cache)
    <2>1. /\ cache' = Tail(cache) /\ holds' = [holds EXCEPT ![t] = w]
          /\ at' = [at EXCEPT ![t] = IF at[t] = "prune" THEN "check"
                                                        ELSE "stats check"]
      BY <1>3 DEF PopLeft, Goto, Hold
    <2>2. /\ cache' \in Seq(Workers) /\ w \in Workers /\ w # NoWorker
          /\ Members(cache) = Members(cache') \cup {w}
          /\ Distinct(cache') /\ w \notin Members(cache')
      BY <1>1, <1>3, <2>1, PopLeftFacts, CacheIsDistinct,
         SharedContextAssumption DEF IInv
    <2> HIDE DEF w
    <2>3. TypeOK' /\ HoldsInv'
      BY <1>1, <2>1, <2>2 DEF IInv, TypeOK, HoldsInv, counterVars, Holding, Places
    <2>4. holds' \in [Threads -> Workers \cup {NoWorker}]
          /\ holds \in [Threads -> Workers \cup {NoWorker}]
      BY <2>3 DEF IInv, TypeOK
    <2>5. WorkerHeldOnce'
      <3>1. /\ \A r, s \in Threads : r # s /\ holds[r] = holds[s] => holds[s] = NoWorker
            /\ \A s \in Threads : holds[s] \notin Members(cache)
        BY CachedIsMembers DEF IInv, WorkerHeldOnce
      <3>2. \A s \in Threads \ {t} : holds'[s] = holds[s] /\ holds[s] # w
        BY <2>1, <2>2, <2>4, <3>1
      <3>3. holds'[t] = w
        BY <2>1, <2>4
      <3> QED
        BY <2>2, <3>1, <3>2, <3>3, CachedIsMembers DEF WorkerHeldOnce, Distinct
    <2>6. NoWorkerLost'
      <3>1. /\ live' = live /\ live \subseteq Members(cache) \cup Held
            /\ Members(cache) = Cached' \cup {w}
        BY <1>1, <2>2, CachedIsMembers DEF IInv, NoWorkerLost
      <3>2. Held \cup {w} \subseteq Held'
        BY <1>1, <2>1, <2>2, <2>4 DEF Held
      <3> QED
        BY <3>1, <3>2 DEF NoWorkerLost
    <2> QED
      BY <2>3, <2>5, <2>6 DEF IInv
  <1> QED
    BY <1>2, <1>3

\* A dead worker is forgotten by the one thread that had it.
LEMMA DropSteps ==
  ASSUME IInv, NEW t \in Threads, PruneDead(t) \/ WorkerGone(t)
  PROVE  IInv'
  <1>1. /\ holds[t] \notin live /\ holds' = [holds EXCEPT ![t] = NoWorker]
        /\ UNCHANGED <<drawn, live, cache, counterVars>>
        /\ \E p \in Places \ Holding : at' = [at EXCEPT ![t] = p]
    BY DEF PruneDead, WorkerGone, Goto, Hold, Places, Holding
  <1>2. TypeOK' /\ HoldsInv'
    BY <1>1 DEF IInv, TypeOK, HoldsInv, counterVars
  <1>3. /\ holds \in [Threads -> Workers \cup {NoWorker}]
        /\ NoWorker \notin Members(cache)
    BY MembersAreWorkers DEF IInv, TypeOK
  <1>4. WorkerHeldOnce'
    BY <1>1, <1>3, CachedIsMembers DEF IInv, WorkerHeldOnce, Distinct
  <1>5. NoWorkerLost'
    BY <1>1, <1>3, CachedIsMembers DEF IInv, NoWorkerLost, Held
  <1> QED
    BY <1>2, <1>4, <1>5 DEF IInv

\* appendleft and append: the deque has what the thread had.
LEMMA PutSteps ==
  ASSUME IInv, NEW t \in Threads, AppendLeft(t) \/ AppendWorker(t)
  PROVE  IInv'
  <1>1. /\ at[t] \in Holding /\ holds' = [holds EXCEPT ![t] = NoWorker]
        /\ cache' = <<holds[t]>> \o cache \/ cache' = Append(cache, holds[t])
        /\ UNCHANGED <<drawn, live, counterVars>>
        /\ \E p \in Places \ Holding : at' = [at EXCEPT ![t] = p]
    BY DEF AppendLeft, AppendWorker, AfterPrune, Goto, Hold, Places, Holding
  <1>2. /\ holds[t] \in Workers /\ cache \in Seq(Workers)
        /\ holds \in [Threads -> Workers \cup {NoWorker}]
    BY <1>1 DEF IInv, TypeOK, HoldsInv
  <1>3. Distinct(cache) /\ holds[t] \notin Members(cache)
    BY <1>2, CacheIsDistinct DEF IInv
  <1>4. /\ cache' \in Seq(Workers)
        /\ Members(cache') = Members(cache) \cup {holds[t]}
        /\ Distinct(cache')
    <2>1. CASE cache' = <<holds[t]>> \o cache
      BY <1>2, <1>3, <2>1, PushLeft
    <2>2. CASE cache' = Append(cache, holds[t])
      BY <1>2, <1>3, <2>2, PushRight
    <2> QED
      BY <1>1, <2>1, <2>2
  <1>5. TypeOK' /\ HoldsInv'
    BY <1>1, <1>4 DEF IInv, TypeOK, HoldsInv, counterVars
  <1>6. NoWorker \notin Members(cache')
    BY <1>4, MembersAreWorkers
  <1>7. WorkerHeldOnce'
    BY <1>1, <1>2, <1>4, <1>6, CachedIsMembers DEF IInv, WorkerHeldOnce, Distinct
  <1>8. NoWorkerLost'
    BY <1>1, <1>2, <1>4, CachedIsMembers, SharedContextAssumption DEF IInv, NoWorkerLost, Held
  <1> QED
    BY <1>5, <1>7, <1>8 DEF IInv

\* pop, or a new worker that nobody knows yet.
LEMMA PopStep == ASSUME IInv, NEW t \in Threads, Pop(t) PROVE IInv'
  <1>1. /\ at[t] = "pop" /\ holds[t] = NoWorker /\ cache \in Seq(Workers)
        /\ at' = [at EXCEPT ![t] = "running"]
        /\ UNCHANGED <<drawn, counterVars>>
    BY DEF IInv, TypeOK, HoldsInv, Holding, Pop, Goto
  <1>2. CASE cache # <<>>
    <2> DEFINE w == cache[Len(cache)]
    <2>1. /\ cache' = SubSeq(cache, 1, Len(cache) - 1)
          /\ holds' = [holds EXCEPT ![t] = w] /\ UNCHANGED live
      BY <1>2 DEF Pop, Hold
    <2>2. /\ cache' \in Seq(Workers) /\ w \in Workers /\ w # NoWorker
          /\ Members(cache) = Members(cache') \cup {w}
          /\ Distinct(cache') /\ w \notin Members(cache')
      BY <1>1, <1>2, <2>1, PopRightFacts, CacheIsDistinct,
         SharedContextAssumption DEF IInv
    <2> HIDE DEF w
    <2>3. TypeOK' /\ HoldsInv'
      BY <1>1, <2>1, <2>2 DEF IInv, TypeOK, HoldsInv, counterVars, Holding, Places
    <2>4. holds \in [Threads -> Workers \cup {NoWorker}]
      BY DEF IInv, TypeOK
    <2>5. WorkerHeldOnce'
      BY <1>1, <2>1, <2>2, <2>4, CachedIsMembers DEF IInv, WorkerHeldOnce, Distinct
    <2>6. NoWorkerLost'
      BY <1>1, <2>1, <2>2, <2>4, CachedIsMembers DEF IInv, NoWorkerLost, Held
    <2> QED
      BY <2>3, <2>5, <2>6 DEF IInv
  <1>3. CASE cache = <<>>
    <2>1. PICK w \in Workers \ (live \cup Held \cup Cached) :
            /\ holds' = [holds EXCEPT ![t] = w] /\ live' = live \cup {w}
            /\ UNCHANGED cache
      BY <1>3 DEF Pop, Hold
    <2>2. /\ w # NoWorker /\ w \notin Members(cache)
          /\ \A s \in Threads : holds[s] # w
      BY <2>1, SharedContextAssumption DEF Held, Cached, Members
    <2>3. TypeOK' /\ HoldsInv'
      BY <1>1, <2>1, <2>2 DEF IInv, TypeOK, HoldsInv, counterVars, Holding, Places
    <2>4. holds \in [Threads -> Workers \cup {NoWorker}]
      BY DEF IInv, TypeOK
    <2>5. WorkerHeldOnce'
      BY <1>1, <2>1, <2>2, <2>4, CachedIsMembers DEF IInv, WorkerHeldOnce, Distinct
    <2>6. NoWorkerLost'
      BY <1>1, <2>1, <2>2, <2>4, CachedIsMembers DEF IInv, NoWorkerLost, Held
    <2> QED
      BY <2>3, <2>5, <2>6 DEF IInv
  <1> QED
    BY <1>2, <1>3

\* A process that ends leaves its worker where it is.
LEMMA DieStep == ASSUME IInv, NEW w \in Workers, Die(w) PROVE IInv'
  <1>1. TypeOK' /\ HoldsInv'
    BY DEF IInv, TypeOK, HoldsInv, Die, counterVars
  <1>2. WorkerHeldOnce' /\ NoWorkerLost'
    BY DEF IInv, WorkerHeldOnce, NoWorkerLost, Cached, Held, Die
  <1> QED
    BY <1>1, <1>2 DEF IInv

-----------------------------------------------------------------------------
(***************************************************************************)
(* The theorems.                                                           *)
(***************************************************************************)

\* Every step of a thread, or of a process, preserves the invariant.
LEMMA NextInv == IInv /\ [Next]_vars => IInv'
  <1> SUFFICES ASSUME IInv, [Next]_vars PROVE IInv'
    OBVIOUS
  <1>1. ASSUME NEW t \in Threads, DrawEntrance(t) \/ BeginStatistics(t) \/ Step(t)
        PROVE  IInv'
    BY <1>1, CounterSteps, PopLeftStep, DropSteps, PutSteps, PopStep DEF Step
  <1>2. ASSUME NEW w \in Workers, Die(w) PROVE IInv'
    BY <1>2, DieStep
  <1>3. CASE UNCHANGED vars
    <2>1. TypeOK' /\ HoldsInv'
      BY <1>3 DEF vars, counterVars, IInv, TypeOK, HoldsInv
    <2>2. UNCHANGED <<holds, live, cache>>
      BY <1>3 DEF vars
    <2>3. WorkerHeldOnce' /\ NoWorkerLost'
      BY <2>2 DEF IInv, WorkerHeldOnce, NoWorkerLost, Cached, Held
    <2> QED
      BY <2>1, <2>3 DEF IInv
  <1> QED
    BY <1>1, <1>2, <1>3 DEF Next

\* The invariant holds in every reachable state.
THEOREM InvariantHolds == SafeSpec => []IInv
  BY InitInv, NextInv, PTL DEF SafeSpec

\* Every variable of the shared context stays in its range.
THEOREM TypeCorrect == SafeSpec => []TypeOK
  BY InvariantHolds, PTL DEF IInv

\* However many threads use the default context, no worker is in the hands of
\* two of them, or in the deque while one has it.
THEOREM WorkersAreHeldOnce == SafeSpec => []WorkerHeldOnce
  BY InvariantHolds, PTL DEF IInv

\* However many threads use the default context, every living process is in
\* the deque or in the hands of a thread.
THEOREM NoWorkerIsLost == SafeSpec => []NoWorkerLost
  BY InvariantHolds, PTL DEF IInv
=============================================================================

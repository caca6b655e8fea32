---------------------------- MODULE PipelineProofs ----------------------------
(***************************************************************************)
(* Theorems about Pipeline, for every number of stages, items and tokens.   *)
(***************************************************************************)
EXTENDS Pipeline, Integers, SequenceTheorems, WellFoundedInduction, TLAPS

\* The tokens of the stages, and the items in them: one that its loop has
\* received and not given to a worker task yet, and those of the worker tasks
\* whose result was not taken yet.
Tokens == [s \in Stages |-> StageTokens(s)]
InLoop == {"woken", "spawned", "queued", "granted", "started"}
Items ==
  [s \in Stages |-> computing[s] + sending[s] + (IF loop[s] \in InLoop THEN 1 ELSE 0)]
InPipe == Sums(Items)[NumStages]

\* The item that the consumer has been woken for.
AtConsumer == IF consumer = "woken" THEN 1 ELSE 0

\* Nothing has been cancelled.
Normal == ~cancelled /\ failed = {}

LoopPlaces == {"receive", "woken", "spawned", "queued", "granted", "started", "drain", "closed"}

\* Types.
VarTypes ==
  /\ gen \in {"queued", "granted", "send", "sent", "done"}
  /\ produced \in Nat /\ delivered \in Nat
  /\ loop \in [Stages -> LoopPlaces]
  /\ computing \in [Stages -> Nat] /\ sending \in [Stages -> Nat] /\ sent \in [Stages -> Nat]
  /\ queue \in Seq({Generator} \cup Stages)
  /\ consumer \in {"receive", "woken", "done"}
  /\ failed \subseteq Stages /\ cancelled \in BOOLEAN
  /\ due \subseteq {"gen", "consumer", "loop", "leave"} \X ({0} \cup Stages)

\* The limiter lends no more than it has.
TokenInv == Borrowed <= TotalTokens

\* Those who wait for the limiter are in its queue, and once.
QueueInv ==
  /\ IsInjective(queue)
  /\ gen = "queued" <=> Generator \in Range(queue)
  /\ \A s \in Stages : loop[s] = "queued" <=> s \in Range(queue)

\* The generator has an item until it is handed over.
ProducedInv ==
  /\ produced <= NumItems
  /\ gen \in {"queued", "granted", "send"} => produced < NumItems
  /\ gen = "done" /\ ~cancelled => produced = NumItems

\* No item is made up, and none is lost while nothing is cancelled.
ItemsInv ==
  /\ delivered + AtConsumer + InPipe <= produced
  /\ Normal => produced = delivered + AtConsumer + InPipe

\* A stage ends after those before it, and closes when it is empty.
EndInv ==
  /\ \A s \in Stages : loop[s] = "closed" => Busy(s) = 0
  /\ \A s \in Stages : Normal /\ loop[s] \in {"drain", "closed"} =>
       gen = "done" /\ \A r \in Stages : r < s => loop[r] = "closed"
  /\ consumer = "done" /\ ~cancelled => loop[NumStages] = "closed"

\* Who may still run in this batch.
DueInv ==
  /\ gen = "queued" => <<"gen", 0>> \notin due
  /\ \A s \in Stages : loop[s] = "queued" => <<"loop", s>> \notin due
  /\ \A s \in Stages : <<"leave", s>> \in due => sent[s] > 0
  /\ consumer = "receive" => <<"consumer", 0>> \notin due

\* The consumer has a result whose worker task holds a token until the next
\* batch; in that batch either it does still, or the token is free, or somebody
\* got it who cannot use it before the next one.
WokenInv ==
  consumer = "woken" /\ Normal =>
    IF <<"consumer", 0>> \notin due
      THEN sent[NumStages] > (IF <<"leave", NumStages>> \in due THEN 1 ELSE 0)
      ELSE \/ sent[NumStages] > 0
           \/ Borrowed < TotalTokens
           \/ gen = "granted" /\ <<"gen", 0>> \notin due
           \/ \E s \in Stages : \/ loop[s] = "granted"
                                \/ loop[s] = "started" /\ <<"loop", s>> \notin due

IInv ==
  /\ VarTypes /\ TokenInv /\ QueueInv /\ ProducedInv /\ ItemsInv /\ EndInv
  /\ DueInv /\ WokenInv
-----------------------------------------------------------------------------
(***************************************************************************)
(* Sums over the stages.                                                   *)
(***************************************************************************)

\* A set of natural numbers has a least element.
LEMMA LeastNatural ==
  ASSUME NEW S \in SUBSET Nat, S # {}
  PROVE  \E n \in S : \A m \in S : n <= m
  <1>1. PICK n \in S : \A m \in S : <<m, n>> \notin {ss \in Nat \X Nat : ss[1] < ss[2]}
    BY NatLessThanWellFounded, WFMin, Zenon DEF OpToRel
  <1>2. \A m \in S : ~(m < n)
    BY <1>1
  <1> QED
    BY <1>2

\* Induction over the stages, for the members of a set.
LEMMA StageInduction ==
  ASSUME NEW S, 0 \in S, \A n \in 0..(NumStages - 1) : n \in S => n + 1 \in S
  PROVE  \A n \in 0..NumStages : n \in S
  <1> DEFINE Out == {n \in 0..NumStages : n \notin S}
  <1> SUFFICES ASSUME Out # {}
               PROVE  FALSE
    OBVIOUS
  <1>1. Out \in SUBSET Nat
    BY PipelineAssumption
  <1>2. PICK n \in Out : \A m \in Out : n <= m
    BY <1>1, LeastNatural
  <1>3. n \in 0..NumStages /\ n # 0 /\ NumStages \in Nat
    BY <1>2, PipelineAssumption
  <1>4. n - 1 \in 0..(NumStages - 1) /\ n - 1 \in 0..NumStages /\ ~(n <= n - 1) /\ (n - 1) + 1 = n
    BY <1>3
  <1>5. n - 1 \in S
    BY <1>2, <1>4
  <1> QED
    BY <1>2, <1>4, <1>5

\* f is the function of the sums of w up to n.
SumsUpTo(f, w, n) == f = [s \in 0..n |-> IF s = 0 THEN 0 ELSE f[s - 1] + w[s]]

\* The definition of the sums by recursion is one.
LEMMA SumsExist ==
  ASSUME NEW w
  PROVE  SumsUpTo(Sums(w), w, NumStages)
  <1> DEFINE S == {n \in 0..NumStages : \E f : SumsUpTo(f, w, n)}
  <1>1. 0 \in S
    <2>1. SumsUpTo([s \in 0..0 |-> 0], w, 0)
      BY DEF SumsUpTo
    <2> QED
      BY <2>1, PipelineAssumption
  <1>2. ASSUME NEW n \in 0..(NumStages - 1), n \in S
        PROVE  n + 1 \in S
    <2>1. PICK f : SumsUpTo(f, w, n)
      BY <1>2
    <2> DEFINE g == [s \in 0..(n + 1) |-> IF s = n + 1 THEN f[n] + w[n + 1] ELSE f[s]]
    <2>2. n \in Nat /\ n + 1 \in 0..NumStages
      BY PipelineAssumption
    <2>3. ASSUME NEW s \in 0..(n + 1)
          PROVE  g[s] = IF s = 0 THEN 0 ELSE g[s - 1] + w[s]
      <3>1. CASE s = n + 1
        <4>1. g[s] = f[n] + w[n + 1] /\ g[n] = f[n] /\ s # 0 /\ s - 1 = n
          BY <2>2, <3>1
        <4> QED
          BY <3>1, <4>1
      <3>2. CASE s # n + 1 /\ s # 0
        <4>1. s \in 0..n /\ s - 1 \in 0..(n + 1) /\ s - 1 # n + 1
          BY <2>2, <3>2
        <4>2. f[s] = f[s - 1] + w[s]
          BY <2>1, <3>2, <4>1 DEF SumsUpTo
        <4> QED
          BY <3>2, <4>1, <4>2
      <3>3. CASE s = 0
        <4>1. s \in 0..n /\ s # n + 1
          BY <2>2, <3>3
        <4>2. f[s] = 0
          BY <2>1, <3>3, <4>1 DEF SumsUpTo
        <4> QED
          BY <3>3, <4>1, <4>2
      <3> QED
        BY <3>1, <3>2, <3>3
    <2>4. SumsUpTo(g, w, n + 1)
      BY <2>3 DEF SumsUpTo
    <2> QED
      BY <2>2, <2>4
  <1>3. NumStages \in S
    <2> HIDE DEF S
    <2> QED
      BY <1>1, <1>2, StageInduction, PipelineAssumption
  <1>4. Sums(w) = CHOOSE f : SumsUpTo(f, w, NumStages)
    BY DEF Sums, SumsUpTo
  <1> QED
    BY <1>3, <1>4

LEMMA SumsRecursion ==
  ASSUME NEW w
  PROVE  /\ Sums(w)[0] = 0
         /\ \A n \in 0..(NumStages - 1) : Sums(w)[n + 1] = Sums(w)[n] + w[n + 1]
  <1>1. \A s \in 0..NumStages : Sums(w)[s] = IF s = 0 THEN 0 ELSE Sums(w)[s - 1] + w[s]
    <2> DEFINE F == Sums(w)
    <2>1. F = [s \in 0..NumStages |-> IF s = 0 THEN 0 ELSE F[s - 1] + w[s]]
      BY SumsExist DEF SumsUpTo
    <2> HIDE DEF F
    <2>2. \A s \in 0..NumStages : F[s] = IF s = 0 THEN 0 ELSE F[s - 1] + w[s]
      BY <2>1
    <2> QED
      BY <2>2 DEF F
  <1>2. ASSUME NEW n \in 0..(NumStages - 1)
        PROVE  n + 1 \in 0..NumStages /\ n + 1 # 0 /\ (n + 1) - 1 = n
    BY PipelineAssumption
  <1> QED
    BY <1>1, <1>2, PipelineAssumption

\* The whole sum.
Total(w) == Sums(w)[NumStages]

LEMMA SumFacts ==
  ASSUME NEW w \in [Stages -> Nat]
  PROVE  Total(w) \in Nat /\ \A s \in Stages : w[s] <= Total(w)
  <1> DEFINE F == Sums(w)
             S == {n \in Nat : F[n] \in Nat /\ \A s \in Stages : s <= n => w[s] <= F[n]}
  <1>1. 0 \in S
    BY SumsRecursion DEF Stages
  <1>2. ASSUME NEW n \in 0..(NumStages - 1), n \in S
        PROVE  n + 1 \in S
    <2>1. n \in Nat /\ n + 1 \in Stages /\ w[n + 1] \in Nat
      BY PipelineAssumption DEF Stages
    <2>2. F[n + 1] = F[n] + w[n + 1]
      BY SumsRecursion
    <2>3. F[n] \in Nat /\ \A s \in Stages : s <= n => w[s] <= F[n]
      BY <1>2
    <2> HIDE DEF F
    <2>4. ASSUME NEW s \in Stages, s <= n + 1
          PROVE  w[s] <= F[n + 1]
      <3>1. w[s] \in Nat /\ (s <= n \/ s = n + 1)
        BY <2>1, <2>4, PipelineAssumption DEF Stages
      <3> QED
        BY <2>1, <2>2, <2>3, <3>1
    <2> QED
      BY <2>1, <2>2, <2>3, <2>4
  <1>3. NumStages \in S
    <2> HIDE DEF S
    <2> QED
      BY <1>1, <1>2, StageInduction, PipelineAssumption
  <1> QED
    BY <1>3, PipelineAssumption DEF Total, Stages

\* The number of one stage changes.
LEMMA SumPoint ==
  ASSUME NEW w \in [Stages -> Int], NEW v \in [Stages -> Int], NEW r \in Stages,
         \A s \in Stages \ {r} : v[s] = w[s]
  PROVE  Total(v) = Total(w) + (v[r] - w[r]) /\ Total(w) \in Int /\ Total(v) \in Int
  <1> DEFINE d == v[r] - w[r]
             F == Sums(w)
             G == Sums(v)
             S == {n \in Nat : F[n] \in Int /\ G[n] = F[n] + (IF r <= n THEN d ELSE 0)}
  <1>0. /\ r \in Nat /\ r >= 1 /\ r <= NumStages /\ NumStages \in Nat
        /\ d \in Int /\ v[r] = w[r] + d
    BY PipelineAssumption DEF Stages
  <1> HIDE DEF d
  <1>1. 0 \in S
    BY <1>0, SumsRecursion
  <1>2. ASSUME NEW n \in 0..(NumStages - 1), n \in S
        PROVE  n + 1 \in S
    <2>1. n \in Nat /\ n + 1 \in Stages /\ w[n + 1] \in Int /\ v[n + 1] \in Int
      BY PipelineAssumption DEF Stages
    <2>2. F[n + 1] = F[n] + w[n + 1] /\ G[n + 1] = G[n] + v[n + 1]
      BY SumsRecursion
    <2>3. F[n] \in Int /\ G[n] = F[n] + (IF r <= n THEN d ELSE 0)
      BY <1>2
    <2>4. v[n + 1] = w[n + 1] + (IF r = n + 1 THEN d ELSE 0)
      BY <1>0, <2>1
    <2> HIDE DEF F, G
    <2>5. F[n + 1] \in Int /\ G[n + 1] = F[n + 1] + (IF r <= n + 1 THEN d ELSE 0)
      BY <1>0, <2>1, <2>2, <2>3, <2>4
    <2> QED
      BY <2>1, <2>5
  <1>3. NumStages \in S
    <2> HIDE DEF S
    <2> QED
      BY <1>1, <1>2, StageInduction, PipelineAssumption
  <1> QED
    BY <1>0, <1>3 DEF Total, d

\* The numbers of two stages change, or that of one stage twice.
Shifted(w, v, r, d, q, e) ==
  \A s \in Stages : v[s] = w[s] + (IF s = r THEN d ELSE 0) + (IF s = q THEN e ELSE 0)

LEMMA SumPoints ==
  ASSUME NEW w \in [Stages -> Int], NEW v \in [Stages -> Int],
         NEW r \in Stages, NEW d \in Int, NEW q \in Stages, NEW e \in Int,
         Shifted(w, v, r, d, q, e)
  PROVE  Total(v) = Total(w) + d + e /\ Total(w) \in Int
  <1> DEFINE m == [s \in Stages |-> w[s] + IF s = r THEN d ELSE 0]
  <1>1. /\ m \in [Stages -> Int] /\ m[r] = w[r] + d /\ \A s \in Stages \ {r} : m[s] = w[s]
        /\ \A s \in Stages \ {q} : v[s] = m[s]
        /\ v[q] = m[q] + e
    BY DEF Shifted
  <1> HIDE DEF m
  <1>2. Total(m) = Total(w) + (m[r] - w[r]) /\ Total(w) \in Int
    BY <1>1, SumPoint
  <1>3. Total(v) = Total(m) + (v[q] - m[q])
    BY <1>1, SumPoint
  <1> QED
    BY <1>1, <1>2, <1>3

\* If no number exceeds another by more than one.
LEMMA SumBound ==
  ASSUME NEW w \in [Stages -> Int], NEW v \in [Stages -> Int],
         \A s \in Stages : v[s] <= w[s] + 1
  PROVE  Total(v) <= Total(w) + NumStages /\ Total(v) \in Int /\ Total(w) \in Int
  <1> DEFINE F == Sums(w)
             G == Sums(v)
             S == {n \in Nat : F[n] \in Int /\ G[n] \in Int /\ G[n] <= F[n] + n}
  <1>1. 0 \in S
    BY SumsRecursion
  <1>2. ASSUME NEW n \in 0..(NumStages - 1), n \in S
        PROVE  n + 1 \in S
    <2>1. n \in Nat /\ n + 1 \in Stages /\ w[n + 1] \in Int /\ v[n + 1] \in Int
      BY PipelineAssumption DEF Stages
    <2>2. F[n + 1] = F[n] + w[n + 1] /\ G[n + 1] = G[n] + v[n + 1]
      BY SumsRecursion
    <2>3. F[n] \in Int /\ G[n] \in Int /\ G[n] <= F[n] + n
      BY <1>2
    <2>4. v[n + 1] <= w[n + 1] + 1
      BY <2>1
    <2> HIDE DEF F, G
    <2>5. F[n + 1] \in Int /\ G[n + 1] \in Int /\ G[n + 1] <= F[n + 1] + (n + 1)
      BY <2>1, <2>2, <2>3, <2>4
    <2> QED
      BY <2>1, <2>5
  <1>3. NumStages \in S
    <2> HIDE DEF S
    <2> QED
      BY <1>1, <1>2, StageInduction, PipelineAssumption
  <1> QED
    BY <1>3 DEF Total

\* The sum of nothing.
LEMMA SumZero ==
  ASSUME NEW w, \A s \in Stages : w[s] = 0
  PROVE  Total(w) = 0
  <1> DEFINE F == Sums(w)
             S == {n \in Nat : F[n] = 0}
  <1>1. 0 \in S
    BY SumsRecursion
  <1>2. ASSUME NEW n \in 0..(NumStages - 1), n \in S
        PROVE  n + 1 \in S
    <2>1. n \in Nat /\ n + 1 \in Stages
      BY PipelineAssumption DEF Stages
    <2>2. F[n + 1] = F[n] + w[n + 1] /\ F[n] = 0
      BY <1>2, SumsRecursion
    <2> QED
      BY <2>1, <2>2
  <1>3. NumStages \in S
    <2> HIDE DEF S
    <2> QED
      BY <1>1, <1>2, StageInduction, PipelineAssumption
  <1> QED
    BY <1>3 DEF Total

-----------------------------------------------------------------------------
(***************************************************************************)
(* The queue of the limiter.                                               *)
(***************************************************************************)

\* The head leaves a queue, another one joins it, or the one at place i leaves.
LEMMA TailFacts ==
  ASSUME NEW S, NEW q \in Seq(S), IsInjective(q), q # <<>>
  PROVE  /\ Head(q) \in S /\ Head(q) \in Range(q)
         /\ Tail(q) \in Seq(S) /\ IsInjective(Tail(q))
         /\ Range(Tail(q)) = Range(q) \ {Head(q)}
  <1>1. /\ Len(q) \in Nat /\ Len(q) >= 1 /\ DOMAIN q = 1..Len(q)
        /\ \A i \in 1..Len(q) : q[i] \in S
    OBVIOUS
  <1>2. /\ Tail(q) \in Seq(S) /\ Len(Tail(q)) = Len(q) - 1 /\ DOMAIN Tail(q) = 1..(Len(q) - 1)
        /\ \A i \in 1..(Len(q) - 1) : Tail(q)[i] = q[i + 1]
    OBVIOUS
  <1>3. Head(q) = q[1] /\ 1 \in 1..Len(q)
    BY <1>1
  <1>4. \A i \in 1..(Len(q) - 1) : i + 1 \in 1..Len(q) /\ i + 1 # 1
    BY <1>1
  <1>5. \A i, j \in 1..Len(q) : q[i] = q[j] => i = j
    BY <1>1 DEF IsInjective
  <1>6. IsInjective(Tail(q))
    <2> SUFFICES ASSUME NEW i \in 1..(Len(q) - 1), NEW j \in 1..(Len(q) - 1),
                        Tail(q)[i] = Tail(q)[j]
                 PROVE  i = j
      BY <1>2 DEF IsInjective
    <2>1. q[i + 1] = q[j + 1]
      BY <1>2
    <2>2. i + 1 = j + 1
      BY <1>4, <1>5, <2>1
    <2> QED
      BY <1>1, <2>2
  <1>7. Range(Tail(q)) \subseteq Range(q) \ {Head(q)}
    <2> SUFFICES ASSUME NEW i \in 1..(Len(q) - 1)
                 PROVE  Tail(q)[i] \in Range(q) \ {Head(q)}
      BY <1>2 DEF Range
    <2>1. Tail(q)[i] = q[i + 1] /\ q[i + 1] # q[1]
      BY <1>2, <1>3, <1>4, <1>5
    <2> QED
      BY <1>1, <1>3, <1>4, <2>1 DEF Range
  <1>8. Range(q) \ {Head(q)} \subseteq Range(Tail(q))
    <2> SUFFICES ASSUME NEW i \in 1..Len(q), i # 1
                 PROVE  q[i] \in Range(Tail(q))
      BY <1>1, <1>3 DEF Range
    <2>1. i - 1 \in 1..(Len(q) - 1) /\ (i - 1) + 1 = i
      BY <1>1
    <2>2. Tail(q)[i - 1] = q[i]
      BY <1>2, <2>1
    <2> QED
      BY <1>2, <2>1, <2>2 DEF Range
  <1> QED
    BY <1>1, <1>2, <1>3, <1>6, <1>7, <1>8 DEF Range

LEMMA AppendFacts ==
  ASSUME NEW S, NEW q \in Seq(S), IsInjective(q), NEW x \in S, x \notin Range(q)
  PROVE  /\ Append(q, x) \in Seq(S) /\ IsInjective(Append(q, x))
         /\ Range(Append(q, x)) = Range(q) \cup {x}
  <1>1. Len(q) \in Nat /\ DOMAIN q = 1..Len(q)
    OBVIOUS
  <1>2. /\ Append(q, x) \in Seq(S) /\ DOMAIN Append(q, x) = 1..(Len(q) + 1)
        /\ \A i \in 1..Len(q) : Append(q, x)[i] = q[i]
        /\ Append(q, x)[Len(q) + 1] = x
    OBVIOUS
  <1>3. 1..(Len(q) + 1) = 1..Len(q) \cup {Len(q) + 1} /\ Len(q) + 1 \notin 1..Len(q)
    BY <1>1
  <1>4. \A i \in 1..Len(q) : q[i] # x
    BY <1>1 DEF Range
  <1>5. IsInjective(Append(q, x))
    BY <1>1, <1>2, <1>3, <1>4 DEF IsInjective
  <1>6. Range(Append(q, x)) = Range(q) \cup {x}
    BY <1>1, <1>2, <1>3 DEF Range
  <1> QED
    BY <1>2, <1>5, <1>6

LEMMA RemoveFacts ==
  ASSUME NEW S, NEW q \in Seq(S), IsInjective(q), NEW i \in DOMAIN q
  PROVE  /\ RemoveAt(q, i) \in Seq(S) /\ IsInjective(RemoveAt(q, i))
         /\ Range(RemoveAt(q, i)) = Range(q) \ {q[i]}
  <1> DEFINE n == Len(q)
             p == RemoveAt(q, i)
             a == SubSeq(q, 1, i - 1)
             b == SubSeq(q, i + 1, n)
             from(j) == IF j < i THEN j ELSE j + 1
  <1>1. n \in Nat /\ DOMAIN q = 1..n /\ i \in Nat /\ i >= 1 /\ i <= n
    OBVIOUS
  <1>2. a \in Seq(S) /\ Len(a) = i - 1 /\ \A j \in 1..(i - 1) : a[j] = q[j]
    BY <1>1
  <1>3. b \in Seq(S) /\ Len(b) = n - i /\ \A j \in 1..(n - i) : b[j] = q[i + j]
    BY <1>1
  <1>4. p = a \o b
    BY DEF RemoveAt
  <1> HIDE DEF p, a, b, n
  <1>5. /\ p \in Seq(S) /\ Len(p) = n - 1
        /\ \A j \in 1..(i - 1) : p[j] = a[j]
        /\ \A j \in 1..(n - i) : p[(i - 1) + j] = b[j]
    <2>1. /\ p \in Seq(S) /\ Len(p) = (i - 1) + (n - i)
          /\ \A j \in 1..(Len(a) + Len(b)) : p[j] = IF j <= Len(a) THEN a[j] ELSE b[j - Len(a)]
      <3>1. p \in Seq(S) /\ Len(p) = Len(a) + Len(b)
        BY <1>2, <1>3, <1>4, ConcatProperties
      <3>2. \A j \in 1..(Len(a) + Len(b)) : p[j] = IF j <= Len(a) THEN a[j] ELSE b[j - Len(a)]
        BY <1>2, <1>3, <1>4, ConcatProperties
      <3> QED
        BY <1>2, <1>3, <3>1, <3>2
    <2>2. ASSUME NEW j \in 1..(i - 1)
          PROVE  p[j] = a[j]
      <3>1. j \in 1..(Len(a) + Len(b)) /\ j <= Len(a)
        BY <1>1, <1>2, <1>3
      <3> QED
        BY <2>1, <3>1
    <2>3. ASSUME NEW j \in 1..(n - i)
          PROVE  p[(i - 1) + j] = b[j]
      <3>1. /\ (i - 1) + j \in 1..(Len(a) + Len(b)) /\ ~((i - 1) + j <= Len(a))
            /\ (i - 1) + j - Len(a) = j
        BY <1>1, <1>2, <1>3
      <3> QED
        BY <2>1, <3>1
    <2> QED
      BY <1>1, <2>1, <2>2, <2>3
  <1>6. DOMAIN p = 1..(n - 1)
    BY <1>5
  <1>7. ASSUME NEW j \in 1..(n - 1)
        PROVE  p[j] = q[from(j)] /\ from(j) \in 1..n /\ from(j) # i
    <2>1. CASE j < i
      <3>1. j \in 1..(i - 1)
        BY <1>1, <2>1
      <3> QED
        BY <1>1, <1>2, <1>5, <2>1, <3>1
    <2>2. CASE ~(j < i)
      <3>1. j - (i - 1) \in 1..(n - i) /\ i + (j - (i - 1)) = j + 1 /\ (i - 1) + (j - (i - 1)) = j
        BY <1>1, <2>2
      <3>2. p[j] = q[j + 1]
        BY <1>3, <1>5, <3>1
      <3> QED
        BY <1>1, <2>2, <3>2
    <2> QED
      BY <2>1, <2>2
  <1>8. \A j, k \in 1..n : q[j] = q[k] => j = k
    BY <1>1 DEF IsInjective
  <1>9. \A j, k \in 1..(n - 1) : from(j) = from(k) => j = k
    BY <1>1
  <1>10. \A k \in 1..n : k # i => \E j \in 1..(n - 1) : from(j) = k
    <2> SUFFICES ASSUME NEW k \in 1..n, k # i
                 PROVE  \E j \in 1..(n - 1) : from(j) = k
      OBVIOUS
    <2>1. CASE k < i
      BY <1>1, <2>1
    <2>2. CASE k > i
      <3>1. k - 1 \in 1..(n - 1) /\ from(k - 1) = k
        BY <1>1, <2>2
      <3> QED
        BY <3>1
    <2> QED
      BY <1>1, <2>1, <2>2
  <1> HIDE DEF from
  <1>11. IsInjective(p)
    <2> SUFFICES ASSUME NEW j \in 1..(n - 1), NEW k \in 1..(n - 1), p[j] = p[k]
                 PROVE  j = k
      BY <1>6 DEF IsInjective
    <2> QED
      BY <1>7, <1>8, <1>9
  <1>12. Range(p) \subseteq Range(q) \ {q[i]}
    BY <1>1, <1>6, <1>7, <1>8 DEF Range
  <1>13. Range(q) \ {q[i]} \subseteq Range(p)
    <2> SUFFICES ASSUME NEW k \in 1..n, k # i
                 PROVE  q[k] \in Range(p)
      BY <1>1 DEF Range
    <2>1. PICK j \in 1..(n - 1) : from(j) = k
      BY <1>10
    <2> QED
      BY <1>6, <1>7, <2>1 DEF Range
  <1>14. p \in Seq(S) /\ IsInjective(p) /\ Range(p) = Range(q) \ {q[i]}
    BY <1>5, <1>11, <1>12, <1>13
  <1> QED
    BY <1>14 DEF p

-----------------------------------------------------------------------------
(***************************************************************************)
(* Tokens, items and the limiter.                                          *)
(***************************************************************************)

ItemsOf(s) == computing[s] + sending[s] + (IF loop[s] \in InLoop THEN 1 ELSE 0)

\* What the numbers range over.
LEMMA NumberTypes ==
  ASSUME VarTypes
  PROVE  /\ Tokens \in [Stages -> Nat] /\ Items \in [Stages -> Nat]
         /\ GeneratorTokens \in {0, 1} /\ AtConsumer \in {0, 1}
         /\ Borrowed = GeneratorTokens + Total(Tokens) /\ Total(Tokens) \in Nat
         /\ InPipe = Total(Items) /\ InPipe \in Nat
         /\ \A s \in Stages : Busy(s) \in Nat /\ Busy(s) <= Total(Tokens)
  <1>1. ASSUME NEW s \in Stages
        PROVE  Busy(s) \in Nat /\ StageTokens(s) \in Nat /\ Busy(s) <= StageTokens(s)
    <2>1. computing[s] \in Nat /\ sending[s] \in Nat /\ sent[s] \in Nat
      BY DEF VarTypes
    <2> QED
      BY <2>1 DEF Busy, StageTokens
  <1>2. ASSUME NEW s \in Stages
        PROVE  ItemsOf(s) \in Nat
    <2>1. computing[s] \in Nat /\ sending[s] \in Nat
      BY DEF VarTypes
    <2> QED
      BY <2>1 DEF ItemsOf
  <1>3. Tokens \in [Stages -> Nat]
    BY <1>1 DEF Tokens
  <1>4. Items \in [Stages -> Nat]
    BY <1>2 DEF Items, ItemsOf
  <1>5. Borrowed = GeneratorTokens + Total(Tokens) /\ InPipe = Total(Items)
    BY DEF Borrowed, Tokens, Total, InPipe
  <1>6. Total(Tokens) \in Nat /\ \A s \in Stages : Tokens[s] <= Total(Tokens)
    BY <1>3, SumFacts
  <1>7. Total(Items) \in Nat
    BY <1>4, SumFacts
  <1>8. ASSUME NEW s \in Stages
        PROVE  Busy(s) \in Nat /\ Busy(s) <= Total(Tokens)
    <2>1. StageTokens(s) <= Total(Tokens)
      BY <1>6 DEF Tokens
    <2> QED
      BY <1>1, <1>6, <2>1
  <1> QED
    BY <1>3, <1>4, <1>5, <1>6, <1>7, <1>8 DEF GeneratorTokens, AtConsumer

\* The same in the next state.
LEMMA NumberTypesNext ==
  ASSUME VarTypes'
  PROVE  /\ Tokens' \in [Stages -> Nat] /\ Items' \in [Stages -> Nat]
         /\ GeneratorTokens' \in {0, 1} /\ AtConsumer' \in {0, 1}
         /\ Borrowed' = GeneratorTokens' + Total(Tokens') /\ Total(Tokens') \in Nat
         /\ InPipe' = Total(Items') /\ InPipe' \in Nat
  <1>1. ASSUME NEW s \in Stages
        PROVE  StageTokens(s)' \in Nat /\ ItemsOf(s)' \in Nat
    <2>1. computing'[s] \in Nat /\ sending'[s] \in Nat /\ sent'[s] \in Nat
      BY DEF VarTypes
    <2> QED
      BY <2>1 DEF Busy, StageTokens, ItemsOf
  <1>2. Tokens' \in [Stages -> Nat]
    BY <1>1 DEF Tokens
  <1>3. Items' \in [Stages -> Nat]
    BY <1>1 DEF Items, ItemsOf
  <1>4. Borrowed' = GeneratorTokens' + Total(Tokens') /\ InPipe' = Total(Items')
    BY DEF Borrowed, Tokens, Total, InPipe
  <1> QED
    BY <1>2, <1>3, <1>4, SumFacts DEF GeneratorTokens, AtConsumer

\* The tokens of the stages change by d at r and by e at q.
LEMMA TokensChange ==
  ASSUME VarTypes, VarTypes', NEW r \in Stages, NEW d \in Int, NEW q \in Stages, NEW e \in Int,
         Shifted(Tokens, Tokens', r, d, q, e)
  PROVE  Borrowed' = Borrowed + (GeneratorTokens' - GeneratorTokens) + d + e
  <1>1. Tokens \in [Stages -> Int] /\ Tokens' \in [Stages -> Int]
    BY NumberTypes, NumberTypesNext
  <1>2. Total(Tokens') = Total(Tokens) + d + e
    BY <1>1, SumPoints
  <1> QED
    BY <1>2, NumberTypes, NumberTypesNext

\* So do the items.
LEMMA ItemsChange ==
  ASSUME VarTypes, VarTypes', NEW r \in Stages, NEW d \in Int, NEW q \in Stages, NEW e \in Int,
         Shifted(Items, Items', r, d, q, e)
  PROVE  InPipe' = InPipe + d + e
  <1>1. Items \in [Stages -> Int] /\ Items' \in [Stages -> Int]
    BY NumberTypes, NumberTypesNext
  <1>2. Total(Items') = Total(Items) + d + e
    BY <1>1, SumPoints
  <1> QED
    BY <1>2, NumberTypes, NumberTypesNext

\* Nothing changes in the stages that the tokens, or the items, count.
LEMMA SameTokens ==
  ASSUME VarTypes, VarTypes', \A s \in Stages : StageTokens(s)' = StageTokens(s)
  PROVE  Borrowed' = Borrowed + (GeneratorTokens' - GeneratorTokens)
  <1>1. Tokens' = Tokens
    BY DEF Tokens
  <1> QED
    BY <1>1, NumberTypes, NumberTypesNext

LEMMA SameItems ==
  ASSUME VarTypes, VarTypes', \A s \in Stages : ItemsOf(s)' = ItemsOf(s)
  PROVE  InPipe' = InPipe
  <1>1. Items' = Items
    BY DEF Items, ItemsOf
  <1> QED
    BY <1>1, NumberTypes, NumberTypesNext

\* The head of the queue is waiting.
LEMMA HeadFacts ==
  ASSUME VarTypes, QueueInv, queue # <<>>
  PROVE  /\ \/ Head(queue) = Generator /\ gen = "queued"
            \/ Head(queue) # Generator /\ Head(queue) \in Stages /\ loop[Head(queue)] = "queued"
         /\ queue' = Tail(queue) =>
              /\ queue' \in Seq({Generator} \cup Stages) /\ IsInjective(queue')
              /\ Range(queue') = Range(queue) \ {Head(queue)}
  <1>1. queue \in Seq({Generator} \cup Stages) /\ IsInjective(queue)
    BY DEF VarTypes, QueueInv
  <1>2. /\ Head(queue) \in {Generator} \cup Stages /\ Head(queue) \in Range(queue)
        /\ Tail(queue) \in Seq({Generator} \cup Stages) /\ IsInjective(Tail(queue))
        /\ Range(Tail(queue)) = Range(queue) \ {Head(queue)}
    BY <1>1, TailFacts
  <1>3. CASE Head(queue) = Generator
    BY <1>2, <1>3 DEF QueueInv
  <1>4. CASE Head(queue) # Generator
    BY <1>2, <1>4 DEF QueueInv
  <1> QED
    BY <1>2, <1>3, <1>4

\* Stage h, which was waiting, is given a token.
Granted(h) ==
  /\ h \in Stages /\ loop[h] = "queued" /\ loop'[h] = "granted"
  /\ \A s \in Stages \ {h} : loop'[s] = loop[s]

\* The token that is given back goes to who has waited longest.
LEMMA GrantFacts ==
  ASSUME VarTypes, QueueInv, queue # <<>>, queue' = Tail(queue), Head(queue) # Generator,
         GrantStage(Head(queue)), gen' = "queued" <=> gen = "queued"
  PROVE  /\ loop' \in [Stages -> LoopPlaces] /\ queue' \in Seq({Generator} \cup Stages)
         /\ QueueInv' /\ \E h \in Stages : Granted(h)
  <1> DEFINE h == Head(queue)
  <1>1. /\ h \in Stages /\ loop[h] = "queued" /\ queue' \in Seq({Generator} \cup Stages)
        /\ IsInjective(queue') /\ Range(queue') = Range(queue) \ {h}
    BY HeadFacts
  <1> HIDE DEF h
  <1>2. loop' = [loop EXCEPT ![h] = "granted"] /\ loop \in [Stages -> LoopPlaces]
    BY DEF GrantStage, VarTypes, h
  <1>3. loop' \in [Stages -> LoopPlaces]
    BY <1>2 DEF LoopPlaces
  <1>4. Granted(h)
    BY <1>1, <1>2 DEF Granted
  <1>5. h # Generator
    BY DEF h
  <1>6. QueueInv'
    <2>1. gen' = "queued" <=> Generator \in Range(queue')
      BY <1>1, <1>5 DEF QueueInv
    <2>2. \A s \in Stages : loop'[s] = "queued" <=> s \in Range(queue')
      BY <1>1, <1>4 DEF QueueInv, Granted
    <2> QED
      BY <1>1, <2>1, <2>2 DEF QueueInv
  <1> QED
    BY <1>1, <1>3, <1>4, <1>6

LEMMA ReleaseFacts ==
  ASSUME VarTypes, QueueInv, Release
  PROVE  /\ gen' \in {"queued", "granted", "send", "sent", "done"}
         /\ loop' \in [Stages -> LoopPlaces] /\ queue' \in Seq({Generator} \cup Stages)
         /\ QueueInv'
         /\ \/ queue = <<>> /\ UNCHANGED <<gen, loop>>
            \/ gen = "queued" /\ gen' = "granted" /\ UNCHANGED loop
            \/ UNCHANGED gen /\ \E h \in Stages : Granted(h)
  <1>1. CASE queue = <<>>
    <2>1. UNCHANGED <<queue, gen, loop>>
      BY <1>1 DEF Release
    <2> QED
      BY <1>1, <2>1 DEF VarTypes, QueueInv
  <1>2. CASE queue # <<>> /\ Head(queue) = Generator
    <2>1. queue' = Tail(queue) /\ gen' = "granted" /\ UNCHANGED loop
      BY <1>2 DEF Release
    <2>2. /\ gen = "queued" /\ queue' \in Seq({Generator} \cup Stages) /\ IsInjective(queue')
          /\ Range(queue') = Range(queue) \ {Generator}
      BY <1>2, <2>1, HeadFacts
    <2>3. \A s \in Stages : s # Generator
      BY DEF Stages, Generator
    <2>4. QueueInv'
      BY <2>1, <2>2, <2>3 DEF QueueInv
    <2> QED
      BY <2>1, <2>2, <2>4 DEF VarTypes
  <1>3. CASE queue # <<>> /\ Head(queue) # Generator
    <2>1. queue' = Tail(queue) /\ GrantStage(Head(queue)) /\ UNCHANGED gen
      BY <1>3 DEF Release
    <2>2. /\ loop' \in [Stages -> LoopPlaces] /\ queue' \in Seq({Generator} \cup Stages)
          /\ QueueInv' /\ \E h \in Stages : Granted(h)
      BY <1>3, <2>1, GrantFacts
    <2> QED
      BY <2>1, <2>2 DEF VarTypes
  <1> QED
    BY <1>1, <1>2, <1>3

\* With a token that stage s gives back none is added, and either one is free
\* or its new owner is known.
LEMMA ReleaseTokens ==
  ASSUME VarTypes, VarTypes', QueueInv, Release, NEW s \in Stages,
         \A r \in Stages : Busy(r)' = Busy(r) - (IF r = s THEN 1 ELSE 0)
  PROVE  /\ Borrowed' <= Borrowed
         /\ \/ Borrowed' < Borrowed \/ (gen = "queued" /\ gen' = "granted")
            \/ \E h \in Stages : loop'[h] = "granted"
  <1>0. \A r \in Stages : Busy(r) \in Nat
    BY NumberTypes
  <1>1. CASE UNCHANGED <<gen, loop>>
    <2>1. Shifted(Tokens, Tokens', s, -1, s, 0)
      BY <1>0, <1>1 DEF Shifted, Tokens, StageTokens
    <2>2. Borrowed' = Borrowed + (GeneratorTokens' - GeneratorTokens) + (-1) + 0
      BY <2>1, TokensChange
    <2> QED
      BY <1>1, <2>2, NumberTypes DEF GeneratorTokens
  <1>2. CASE gen = "queued" /\ gen' = "granted" /\ UNCHANGED loop
    <2>1. Shifted(Tokens, Tokens', s, -1, s, 0)
      BY <1>0, <1>2 DEF Shifted, Tokens, StageTokens
    <2>2. Borrowed' = Borrowed + (GeneratorTokens' - GeneratorTokens) + (-1) + 0
      BY <2>1, TokensChange
    <2> QED
      BY <1>2, <2>2, NumberTypes DEF GeneratorTokens
  <1>3. ASSUME UNCHANGED gen, NEW h \in Stages, Granted(h)
        PROVE  /\ Borrowed' <= Borrowed
               /\ \E r \in Stages : loop'[r] = "granted"
    <2>1. Shifted(Tokens, Tokens', s, -1, h, 1)
      BY <1>0, <1>3 DEF Shifted, Tokens, StageTokens, Granted
    <2>2. Borrowed' = Borrowed + (GeneratorTokens' - GeneratorTokens) + (-1) + 1
      BY <2>1, TokensChange
    <2> QED
      BY <1>3, <2>2, NumberTypes DEF GeneratorTokens, Granted
  <1> QED
    BY <1>1, <1>2, <1>3, ReleaseFacts

\* Who is cancelled is not in the queue afterwards.
LEMMA WithdrawFacts ==
  ASSUME VarTypes, QueueInv, NEW who \in {Generator} \cup Stages, Withdraw(who)
  PROVE  /\ queue' \in Seq({Generator} \cup Stages) /\ IsInjective(queue')
         /\ Range(queue') = Range(queue) \ {who}
  <1>1. queue \in Seq({Generator} \cup Stages) /\ IsInjective(queue)
    BY DEF VarTypes, QueueInv
  <1>2. CASE who \notin Range(queue) /\ UNCHANGED queue
    BY <1>1, <1>2
  <1>3. ASSUME NEW i \in DOMAIN queue, queue[i] = who, queue' = RemoveAt(queue, i)
        PROVE  /\ queue' \in Seq({Generator} \cup Stages) /\ IsInjective(queue')
               /\ Range(queue') = Range(queue) \ {who}
    BY <1>1, <1>3, RemoveFacts
  <1> QED
    BY <1>2, <1>3 DEF Withdraw

-----------------------------------------------------------------------------
(***************************************************************************)
(* Every action preserves the invariant.                                   *)
(***************************************************************************)

\* While no loop ends and nothing is added to one that has.
LEMMA SameEnd ==
  ASSUME EndInv,
         \A s \in Stages : loop[s] \in {"drain", "closed"} \/ loop'[s] \in {"drain", "closed"} =>
           loop'[s] = loop[s],
         \A s \in Stages : loop[s] = "closed" => Busy(s)' = Busy(s),
         gen = "done" => gen' = "done", cancelled => cancelled', failed \subseteq failed',
         consumer' = "done" => consumer = "done"
  PROVE  EndInv'
  <1>1. NumStages \in Stages
    BY PipelineAssumption DEF Stages
  <1>2. \A s \in Stages : loop'[s] = "closed" => Busy(s)' = 0
    BY DEF EndInv
  <1>3. ASSUME NEW s \in Stages, Normal', loop'[s] \in {"drain", "closed"}
        PROVE  gen' = "done" /\ \A q \in Stages : q < s => loop'[q] = "closed"
    <2>1. Normal /\ loop[s] \in {"drain", "closed"}
      BY <1>3 DEF Normal
    <2>2. gen = "done" /\ \A q \in Stages : q < s => loop[q] = "closed"
      BY <2>1 DEF EndInv
    <2> QED
      BY <2>2
  <1>4. consumer' = "done" /\ ~cancelled' => loop'[NumStages] = "closed"
    BY <1>1 DEF EndInv
  <1> QED
    BY <1>2, <1>3, <1>4 DEF EndInv

\* A batch begins: the consumer is in it, or is not woken.
LEMMA NewBatchStep ==
  ASSUME IInv, NewBatch
  PROVE  IInv'
  <1> USE DEF IInv
  <1>1. /\ due' = Runnable /\ due \cap Runnable = {}
        /\ UNCHANGED <<gen, produced, loop, computing, sending, sent, queue, consumer, delivered,
                       failed, cancelled>>
    BY DEF NewBatch, genVars, workVars, consVars, endVars
  <1>2. VarTypes'
    <2>1. Runnable \subseteq {"gen", "consumer", "loop", "leave"} \X ({0} \cup Stages)
      BY DEF Runnable
    <2> QED
      BY <1>1, <2>1 DEF VarTypes
  <1>3. Borrowed' = Borrowed /\ InPipe' = InPipe /\ AtConsumer' = AtConsumer
    BY <1>1 DEF Borrowed, GeneratorTokens, StageTokens, Busy, InPipe, Items, AtConsumer
  <1>4. TokenInv' /\ QueueInv' /\ ProducedInv' /\ ItemsInv' /\ EndInv'
    BY <1>1, <1>3 DEF TokenInv, QueueInv, ProducedInv, ItemsInv, EndInv, Normal, Busy
  <1>5. DueInv'
    BY <1>1 DEF DueInv, Runnable
  <1>6. WokenInv'
    <2>1. ASSUME consumer = "woken", Normal
          PROVE  <<"consumer", 0>> \in due' /\ sent[NumStages] > 0
      <3>1. <<"consumer", 0>> \in Runnable
        BY <2>1 DEF Runnable
      <3>2. <<"consumer", 0>> \notin due
        BY <1>1, <3>1
      <3>3. NumStages \in Stages /\ sent[NumStages] \in Nat
        BY PipelineAssumption DEF Stages, VarTypes
      <3> QED
        BY <1>1, <2>1, <3>1, <3>2, <3>3 DEF WokenInv
    <2> QED
      BY <1>1, <2>1 DEF WokenInv, Normal
  <1> QED
    BY <1>2, <1>4, <1>5, <1>6

\* Names that are different.
LEMMA Names ==
  /\ NumStages \in Stages /\ 1 \in Stages /\ Generator \notin Stages
  /\ \A s \in Stages : /\ s \in Nat /\ s >= 1 /\ s <= NumStages
                       /\ s > 1 => s - 1 \in Stages /\ s - 1 # s /\ s - 1 < s
                       /\ s < NumStages => s + 1 \in Stages /\ s + 1 # s
  BY PipelineAssumption DEF Stages, Generator

\* The generator hands its item over, or waits.
LEMMA SendItemStep ==
  ASSUME IInv, SendItem
  PROVE  IInv'
  <1> USE DEF IInv
  <1>1. /\ gen = "granted" /\ ~cancelled
        /\ <<"gen", 0>> \in due /\ due' = due \ {<<"gen", 0>>}
        /\ \/ /\ loop[1] = "receive" /\ gen' = "sent" /\ produced' = produced + 1
              /\ loop' = [loop EXCEPT ![1] = "woken"]
           \/ gen' = "send" /\ UNCHANGED <<produced, loop>>
        /\ UNCHANGED <<computing, sending, sent, queue, consumer, delivered, failed, cancelled>>
    BY DEF SendItem, Runs, workVars, consVars, endVars
  <1>2. VarTypes'
    <2>1. loop' \in [Stages -> LoopPlaces]
      BY <1>1 DEF VarTypes, LoopPlaces
    <2>2. produced' \in Nat
      BY <1>1 DEF VarTypes
    <2> QED
      BY <1>1, <2>1, <2>2 DEF VarTypes
  <1>3. /\ \A s \in Stages : loop'[s] # loop[s] =>
             s = 1 /\ loop[s] = "receive" /\ loop'[s] = "woken"
        /\ produced \in Nat /\ NumItems \in Nat
    BY <1>1, PipelineAssumption DEF VarTypes
  <1>4. Borrowed' = Borrowed /\ GeneratorTokens' = GeneratorTokens
    <2>1. \A s \in Stages : StageTokens(s)' = StageTokens(s)
      BY <1>1, <1>3 DEF StageTokens, Busy
    <2>2. GeneratorTokens' = GeneratorTokens
      BY <1>1 DEF GeneratorTokens
    <2> QED
      BY <1>2, <2>1, <2>2, SameTokens, NumberTypes
  <1>5. InPipe' = InPipe + (produced' - produced)
    <2>1. CASE UNCHANGED <<produced, loop>>
      BY <1>1, <2>1, <1>3, NumberTypes DEF InPipe, Items
    <2>2. CASE /\ loop[1] = "receive" /\ gen' = "sent" /\ produced' = produced + 1
               /\ loop' = [loop EXCEPT ![1] = "woken"]
      <3>1. Shifted(Items, Items', 1, 1, 1, 0)
        <4>1. \A s \in Stages : computing[s] \in Nat /\ sending[s] \in Nat
          BY DEF VarTypes
        <4>2. loop'[1] = "woken" /\ \A s \in Stages \ {1} : loop'[s] = loop[s]
          BY <2>2, Names DEF VarTypes
        <4> QED
          BY <1>1, <2>2, <4>1, <4>2 DEF Shifted, Items, InLoop
      <3>2. InPipe' = InPipe + 1 + 0
        BY <1>2, <3>1, ItemsChange, Names
      <3> QED
        BY <1>3, <2>2, <3>2, NumberTypes
    <2> QED
      BY <1>1, <2>1, <2>2
  <1>6. TokenInv'
    BY <1>4 DEF TokenInv
  <1>7. QueueInv'
    BY <1>1, <1>3 DEF QueueInv
  <1>8. ProducedInv'
    BY <1>1, <1>3 DEF ProducedInv
  <1>9. ItemsInv'
    <2>1. AtConsumer' = AtConsumer /\ delivered \in Nat /\ produced' \in Nat
      BY <1>1, <1>2 DEF AtConsumer, VarTypes
    <2> QED
      BY <1>1, <1>3, <1>5, <2>1, NumberTypes DEF ItemsInv, Normal
  <1>10. EndInv'
    BY <1>1, <1>3, SameEnd DEF Busy
  <1>11. DueInv'
    BY <1>1, <1>3 DEF DueInv
  <1>12. WokenInv'
    BY <1>1, <1>3, <1>4 DEF WokenInv, Normal
  <1> QED
    BY <1>2, <1>6, <1>7, <1>8, <1>9, <1>10, <1>11, <1>12

\* The generator asks for its next token.
LEMMA NextItemStep ==
  ASSUME IInv, NextItem
  PROVE  IInv'
  <1> USE DEF IInv
  <1>1. /\ gen = "sent" /\ ~cancelled /\ produced < NumItems /\ due' = due \ {<<"gen", 0>>}
        /\ \/ gen' = "granted" /\ UNCHANGED <<queue, loop>>
           \/ /\ queue # <<>> /\ gen' = "queued" /\ queue' = Append(Tail(queue), Generator)
              /\ GrantStage(Head(queue))
        /\ UNCHANGED <<produced, computing, sending, sent, consumer, delivered, failed, cancelled>>
    BY DEF NextItem, Runs, workVars, consVars, endVars
  <1>2. CASE gen' = "granted" /\ UNCHANGED <<queue, loop>>
    <2>1. VarTypes'
      BY <1>1, <1>2 DEF VarTypes
    <2>2. /\ Borrowed' = Borrowed /\ GeneratorTokens' = GeneratorTokens
          /\ InPipe' = InPipe /\ AtConsumer' = AtConsumer
      BY <1>1, <1>2 DEF Borrowed, GeneratorTokens, StageTokens, Busy, InPipe, Items, AtConsumer
    <2>3. TokenInv' /\ QueueInv' /\ ProducedInv' /\ ItemsInv'
      BY <1>1, <1>2, <2>2 DEF TokenInv, QueueInv, ProducedInv, ItemsInv, Normal
    <2>4. EndInv' /\ DueInv'
      BY <1>1, <1>2 DEF EndInv, DueInv, Normal, Busy
    <2>5. WokenInv'
      BY <1>1, <1>2, <2>2 DEF WokenInv, Normal
    <2> QED
      BY <2>1, <2>3, <2>4, <2>5
  <1>3. CASE /\ queue # <<>> /\ gen' = "queued" /\ queue' = Append(Tail(queue), Generator)
             /\ GrantStage(Head(queue))
    <2> DEFINE h == Head(queue)
    <2>1. /\ queue \in Seq({Generator} \cup Stages) /\ IsInjective(queue)
          /\ Generator \notin Range(queue)
      BY <1>1 DEF VarTypes, QueueInv
    <2>2. /\ Tail(queue) \in Seq({Generator} \cup Stages) /\ IsInjective(Tail(queue))
          /\ Range(Tail(queue)) = Range(queue) \ {h}
          /\ h \in Range(queue) /\ h \in {Generator} \cup Stages
      BY <1>3, <2>1, TailFacts
    <2>3. /\ queue' \in Seq({Generator} \cup Stages) /\ IsInjective(queue')
          /\ Range(queue') = (Range(queue) \ {h}) \cup {Generator}
      <3> DEFINE p == Tail(queue)
                 S == {Generator} \cup Stages
      <3>1. p \in Seq(S) /\ IsInjective(p) /\ Generator \in S /\ Generator \notin Range(p)
        BY <2>1, <2>2
      <3> HIDE DEF p, S
      <3>2. /\ Append(p, Generator) \in Seq(S) /\ IsInjective(Append(p, Generator))
            /\ Range(Append(p, Generator)) = Range(p) \cup {Generator}
        BY <3>1, AppendFacts
      <3> QED
        BY <1>3, <2>2, <3>2 DEF p, S
    <2>4. h \in Stages /\ loop[h] = "queued"
      BY <2>1, <2>2 DEF QueueInv
    <2> HIDE DEF h
    <2>5. loop' = [loop EXCEPT ![h] = "granted"] /\ loop \in [Stages -> LoopPlaces]
      BY <1>3 DEF GrantStage, VarTypes, h
    <2>6. Granted(h)
      BY <2>4, <2>5 DEF Granted
    <2>7. VarTypes'
      BY <1>1, <1>3, <2>3, <2>5 DEF VarTypes, LoopPlaces
    <2>8. GeneratorTokens = 1 /\ GeneratorTokens' = 0
      BY <1>1, <1>3 DEF GeneratorTokens
    <2>9. Borrowed' = Borrowed
      <3>1. Shifted(Tokens, Tokens', h, 1, h, 0)
        BY <1>1, <2>6, NumberTypes DEF Shifted, Tokens, StageTokens, Busy, Granted
      <3>2. Borrowed' = Borrowed + (GeneratorTokens' - GeneratorTokens) + 1 + 0
        BY <2>4, <2>7, <3>1, TokensChange
      <3> QED
        BY <2>8, <3>2, NumberTypes
    <2>10. InPipe' = InPipe /\ AtConsumer' = AtConsumer
      <3>1. \A s \in Stages : ItemsOf(s)' = ItemsOf(s)
        BY <1>1, <2>6 DEF ItemsOf, InLoop, Granted
      <3> QED
        BY <1>1, <2>7, <3>1, SameItems DEF AtConsumer
    <2>11. QueueInv'
      BY <1>1, <1>3, <2>3, <2>6, Names DEF QueueInv, Granted
    <2>12. TokenInv' /\ ProducedInv' /\ ItemsInv'
      BY <1>1, <1>3, <2>9, <2>10 DEF TokenInv, ProducedInv, ItemsInv, Normal
    <2>13. EndInv'
      BY <1>1, <1>3, <2>6, SameEnd DEF Busy, Granted
    <2>14. DueInv'
      BY <1>1, <2>6 DEF DueInv, Granted
    <2>15. WokenInv'
      BY <1>1, <2>4, <2>6 DEF WokenInv, Normal, Granted
    <2> QED
      BY <2>7, <2>11, <2>12, <2>13, <2>14, <2>15
  <1> QED
    BY <1>1, <1>2, <1>3

\* The generator is done: its token, if it has one, goes to who has waited
\* longest, or is free.
LEMMA GeneratorEndsStep ==
  ASSUME IInv, GeneratorEnds
  PROVE  IInv'
  <1> USE DEF IInv
  <1>1. /\ gen # "done" /\ gen' = "done" /\ (~cancelled => gen = "sent" /\ produced = NumItems)
        /\ \/ /\ gen # "queued" /\ queue # <<>> /\ queue' = Tail(queue)
              /\ GrantStage(Head(queue))
           \/ ~(gen # "queued" /\ queue # <<>>) /\ Withdraw(Generator) /\ UNCHANGED loop
        /\ UNCHANGED <<produced, computing, sending, sent, consumer, delivered, failed, cancelled,
                       due>>
    BY DEF GeneratorEnds, workVars, consVars, endVars
  <1>2. /\ loop' \in [Stages -> LoopPlaces] /\ queue' \in Seq({Generator} \cup Stages) /\ QueueInv'
        /\ \/ UNCHANGED loop
           \/ gen # "queued" /\ \E h \in Stages : Granted(h)
    <2>1. CASE gen # "queued" /\ queue # <<>> /\ queue' = Tail(queue) /\ GrantStage(Head(queue))
      <3>1. Head(queue) # Generator
        BY <2>1, HeadFacts, Names
      <3> QED
        BY <1>1, <2>1, <3>1, GrantFacts
    <2>2. CASE Withdraw(Generator) /\ UNCHANGED loop
      <3>1. /\ queue' \in Seq({Generator} \cup Stages) /\ IsInjective(queue')
            /\ Range(queue') = Range(queue) \ {Generator}
        BY <2>2, WithdrawFacts
      <3>2. QueueInv'
        BY <1>1, <2>2, <3>1, Names DEF QueueInv
      <3> QED
        BY <2>2, <3>1, <3>2 DEF VarTypes
    <2> QED
      BY <1>1, <2>1, <2>2
  <1>3. VarTypes'
    BY <1>1, <1>2 DEF VarTypes
  <1>4. /\ Borrowed' <= Borrowed
        /\ gen # "queued" => Borrowed' < Borrowed \/ \E h \in Stages : loop'[h] = "granted"
    <2>1. CASE UNCHANGED loop
      <3>1. \A s \in Stages : StageTokens(s)' = StageTokens(s)
        BY <1>1, <2>1 DEF StageTokens, Busy
      <3>2. Borrowed' = Borrowed + (GeneratorTokens' - GeneratorTokens)
        BY <1>3, <3>1, SameTokens
      <3>3. GeneratorTokens' = 0 /\ (gen # "queued" => GeneratorTokens = 1)
        BY <1>1 DEF GeneratorTokens, VarTypes
      <3> QED
        BY <3>2, <3>3, NumberTypes
    <2>2. ASSUME gen # "queued", NEW h \in Stages, Granted(h)
          PROVE  Borrowed' <= Borrowed /\ loop'[h] = "granted"
      <3>1. Shifted(Tokens, Tokens', h, 1, h, 0)
        BY <1>1, <2>2, NumberTypes DEF Shifted, Tokens, StageTokens, Busy, Granted
      <3>2. Borrowed' = Borrowed + (GeneratorTokens' - GeneratorTokens) + 1 + 0
        BY <1>3, <3>1, TokensChange
      <3>3. GeneratorTokens' = 0 /\ GeneratorTokens = 1
        BY <1>1, <2>2 DEF GeneratorTokens, VarTypes
      <3> QED
        BY <2>2, <3>2, <3>3, NumberTypes DEF Granted
    <2> QED
      BY <1>2, <2>1, <2>2
  <1>5. InPipe' = InPipe /\ AtConsumer' = AtConsumer
    <2>1. \A s \in Stages : ItemsOf(s)' = ItemsOf(s)
      BY <1>1, <1>2 DEF ItemsOf, InLoop, Granted
    <2> QED
      BY <1>1, <1>3, <2>1, SameItems DEF AtConsumer
  <1>6. TokenInv'
    BY <1>3, <1>4, NumberTypes, NumberTypesNext, PipelineAssumption DEF TokenInv
  <1>7. ProducedInv' /\ ItemsInv'
    BY <1>1, <1>5 DEF ProducedInv, ItemsInv, Normal
  <1>8. EndInv'
    BY <1>1, <1>2, SameEnd DEF Busy, Granted
  <1>9. DueInv'
    BY <1>1, <1>2 DEF DueInv, Granted
  <1>10. WokenInv'
    <2>1. ASSUME consumer = "woken", Normal
          PROVE  Borrowed' < TotalTokens \/ \E h \in Stages : loop'[h] = "granted"
      <3>1. gen # "queued"
        BY <1>1, <2>1 DEF Normal
      <3> QED
        BY <1>3, <1>4, <3>1, NumberTypes, NumberTypesNext, PipelineAssumption DEF TokenInv
    <2> QED
      BY <1>1, <2>1 DEF WokenInv, Normal
  <1> QED
    BY <1>2, <1>3, <1>6, <1>7, <1>8, <1>9, <1>10

\* Stage s's loop changes its place, and no number and no queue does.
Moves(s, from, to) ==
  /\ loop[s] = from /\ loop'[s] = to /\ loop' \in [Stages -> LoopPlaces]
  /\ \A r \in Stages \ {s} : loop'[r] = loop[r]

\* The worker task of an item is created.
LEMMA StartWorkerStep ==
  ASSUME IInv, NEW s \in Stages, StartWorker(s)
  PROVE  IInv'
  <1> USE DEF IInv
  <1>1. /\ Moves(s, "woken", "spawned") /\ due' = due \ {<<"loop", s>>}
        /\ UNCHANGED <<gen, produced, computing, sending, sent, queue, consumer, delivered,
                       failed, cancelled>>
    BY DEF StartWorker, Runs, Moves, VarTypes, LoopPlaces, genVars, workVars, consVars, endVars
  <1>2. VarTypes'
    BY <1>1 DEF VarTypes, Moves
  <1>3. /\ \A r \in Stages : StageTokens(r)' = StageTokens(r) /\ ItemsOf(r)' = ItemsOf(r)
        /\ GeneratorTokens' = GeneratorTokens /\ AtConsumer' = AtConsumer
    BY <1>1 DEF StageTokens, Busy, ItemsOf, InLoop, GeneratorTokens, AtConsumer, Moves
  <1>4. Borrowed' = Borrowed /\ InPipe' = InPipe
    BY <1>2, <1>3, SameTokens, SameItems, NumberTypes
  <1>5. TokenInv' /\ QueueInv' /\ ProducedInv' /\ ItemsInv'
    BY <1>1, <1>3, <1>4 DEF TokenInv, QueueInv, ProducedInv, ItemsInv, Normal, Moves
  <1>6. EndInv'
    BY <1>1, SameEnd DEF Busy, Moves
  <1>7. DueInv'
    BY <1>1 DEF DueInv, Moves
  <1>8. WokenInv'
    BY <1>1, <1>3, <1>4 DEF WokenInv, Normal, Moves
  <1> QED
    BY <1>2, <1>5, <1>6, <1>7, <1>8

\* It asks for its token, and gets one that is free or waits.
LEMMA AskForTokenStep ==
  ASSUME IInv, NEW s \in Stages, AskForToken(s)
  PROVE  IInv'
  <1> USE DEF IInv
  <1>1. /\ loop[s] = "spawned" /\ due' = due \ {<<"loop", s>>}
        /\ UNCHANGED <<gen, produced, computing, sending, sent, consumer, delivered,
                       failed, cancelled>>
    BY DEF AskForToken, Runs, genVars, workVars, consVars, endVars
  <1>2. CASE Available
    <2>1. Moves(s, "spawned", "granted") /\ UNCHANGED queue /\ Borrowed < TotalTokens
      BY <1>1, <1>2 DEF AskForToken, GrantStage, Available, Moves, VarTypes, LoopPlaces
    <2>2. VarTypes'
      BY <1>1, <2>1 DEF VarTypes, Moves
    <2>3. /\ \A r \in Stages : ItemsOf(r)' = ItemsOf(r)
          /\ GeneratorTokens' = GeneratorTokens /\ AtConsumer' = AtConsumer
      BY <1>1, <2>1 DEF ItemsOf, InLoop, GeneratorTokens, AtConsumer, Moves
    <2>4. InPipe' = InPipe
      BY <2>2, <2>3, SameItems
    <2>5. Borrowed' = Borrowed + 1
      <3>1. Shifted(Tokens, Tokens', s, 1, s, 0)
        BY <1>1, <2>1, NumberTypes DEF Shifted, Tokens, StageTokens, Busy, Moves
      <3>2. Borrowed' = Borrowed + (GeneratorTokens' - GeneratorTokens) + 1 + 0
        BY <2>2, <3>1, TokensChange
      <3> QED
        BY <2>3, <3>2, NumberTypes
    <2>6. TokenInv'
      BY <2>1, <2>5, NumberTypes, PipelineAssumption DEF TokenInv
    <2>7. QueueInv' /\ ProducedInv' /\ ItemsInv'
      BY <1>1, <2>1, <2>3, <2>4 DEF QueueInv, ProducedInv, ItemsInv, Normal, Moves
    <2>8. EndInv'
      BY <1>1, <2>1, SameEnd DEF Busy, Moves
    <2>9. DueInv'
      BY <1>1, <2>1 DEF DueInv, Moves
    <2>10. WokenInv'
      BY <1>1, <2>1 DEF WokenInv, Normal, Moves
    <2> QED
      BY <2>2, <2>6, <2>7, <2>8, <2>9, <2>10
  <1>3. CASE ~Available
    <2>1. Moves(s, "spawned", "queued") /\ queue' = Append(queue, s)
      BY <1>1, <1>3 DEF AskForToken, Moves, VarTypes, LoopPlaces
    <2>2. /\ queue' \in Seq({Generator} \cup Stages) /\ IsInjective(queue')
          /\ Range(queue') = Range(queue) \cup {s}
      <3>1. /\ queue \in Seq({Generator} \cup Stages) /\ IsInjective(queue)
            /\ s \in {Generator} \cup Stages /\ s \notin Range(queue)
        BY <1>1 DEF VarTypes, QueueInv
      <3> QED
        BY <2>1, <3>1, AppendFacts
    <2>3. VarTypes'
      BY <1>1, <2>1, <2>2 DEF VarTypes, Moves
    <2>4. /\ \A r \in Stages : StageTokens(r)' = StageTokens(r) /\ ItemsOf(r)' = ItemsOf(r)
          /\ GeneratorTokens' = GeneratorTokens /\ AtConsumer' = AtConsumer
      BY <1>1, <2>1 DEF StageTokens, Busy, ItemsOf, InLoop, GeneratorTokens, AtConsumer, Moves
    <2>5. Borrowed' = Borrowed /\ InPipe' = InPipe
      BY <2>3, <2>4, SameTokens, SameItems, NumberTypes
    <2>6. QueueInv'
      BY <1>1, <2>1, <2>2, Names DEF QueueInv, Moves
    <2>7. TokenInv' /\ ProducedInv' /\ ItemsInv'
      BY <1>1, <2>4, <2>5 DEF TokenInv, ProducedInv, ItemsInv, Normal
    <2>8. EndInv'
      BY <1>1, <2>1, SameEnd DEF Busy, Moves
    <2>9. DueInv'
      BY <1>1, <2>1 DEF DueInv, Moves
    <2>10. WokenInv'
      BY <1>1, <2>1, <2>4, <2>5 DEF WokenInv, Normal, Moves
    <2> QED
      BY <2>3, <2>6, <2>7, <2>8, <2>9, <2>10
  <1> QED
    BY <1>2, <1>3

\* It has its token and lets the loop go on.
LEMMA StartedStep ==
  ASSUME IInv, NEW s \in Stages, Started(s)
  PROVE  IInv'
  <1> USE DEF IInv
  <1>1. /\ Moves(s, "granted", "started") /\ due' = due \ {<<"loop", s>>}
        /\ UNCHANGED <<gen, produced, computing, sending, sent, queue, consumer, delivered,
                       failed, cancelled>>
    BY DEF Started, Runs, Moves, VarTypes, LoopPlaces, genVars, workVars, consVars, endVars
  <1>2. VarTypes'
    BY <1>1 DEF VarTypes, Moves
  <1>3. /\ \A r \in Stages : StageTokens(r)' = StageTokens(r) /\ ItemsOf(r)' = ItemsOf(r)
        /\ GeneratorTokens' = GeneratorTokens /\ AtConsumer' = AtConsumer
    BY <1>1 DEF StageTokens, Busy, ItemsOf, InLoop, GeneratorTokens, AtConsumer, Moves
  <1>4. Borrowed' = Borrowed /\ InPipe' = InPipe
    BY <1>2, <1>3, SameTokens, SameItems, NumberTypes
  <1>5. TokenInv' /\ QueueInv' /\ ProducedInv' /\ ItemsInv'
    BY <1>1, <1>3, <1>4 DEF TokenInv, QueueInv, ProducedInv, ItemsInv, Normal, Moves
  <1>6. EndInv'
    BY <1>1, SameEnd DEF Busy, Moves
  <1>7. DueInv'
    BY <1>1 DEF DueInv, Moves
  <1>8. WokenInv'
    BY <1>1, <1>3, <1>4 DEF WokenInv, Normal, Moves
  <1> QED
    BY <1>2, <1>5, <1>6, <1>7, <1>8

\* The job is given to a worker process, and the loop receives again.
LEMMA ReceiveNextStep ==
  ASSUME IInv, NEW s \in Stages, ReceiveNext(s)
  PROVE  IInv'
  <1> USE DEF IInv
  <1> DEFINE Generated == /\ s = 1 /\ gen = "send" /\ gen' = "sent" /\ produced' = produced + 1
                          /\ Moves(s, "started", "woken") /\ UNCHANGED <<sending, sent>>
             Passed == /\ s > 1 /\ sending[s - 1] > 0 /\ UNCHANGED <<gen, produced>>
                       /\ sending' = [sending EXCEPT ![s - 1] = @ - 1]
                       /\ sent' = [sent EXCEPT ![s - 1] = @ + 1]
                       /\ Moves(s, "started", "woken")
             Waits == Moves(s, "started", "receive") /\ UNCHANGED <<gen, produced, sending, sent>>
  <1>1. /\ <<"loop", s>> \in due /\ due' = due \ {<<"loop", s>>} /\ loop[s] = "started"
        /\ computing' = [computing EXCEPT ![s] = @ + 1]
        /\ Generated \/ Passed \/ Waits
        /\ UNCHANGED <<queue, consumer, delivered, failed, cancelled>>
    BY DEF ReceiveNext, Runs, Moves, VarTypes, LoopPlaces, genVars, consVars, endVars
  <1>2. /\ \A r \in Stages : /\ computing[r] \in Nat /\ sending[r] \in Nat /\ sent[r] \in Nat
                             /\ computing'[r] = computing[r] + (IF r = s THEN 1 ELSE 0)
        /\ produced \in Nat /\ NumItems \in Nat
    BY <1>1, PipelineAssumption DEF VarTypes
  <1>3. Passed => /\ s - 1 \in Stages /\ s - 1 # s
                  /\ \A r \in Stages : /\ sending'[r] = sending[r] - (IF r = s - 1 THEN 1 ELSE 0)
                                       /\ sent'[r] = sent[r] + (IF r = s - 1 THEN 1 ELSE 0)
    <2> SUFFICES ASSUME Passed
                 PROVE  /\ s - 1 \in Stages /\ s - 1 # s
                        /\ \A r \in Stages :
                             /\ sending'[r] = sending[r] - (IF r = s - 1 THEN 1 ELSE 0)
                             /\ sent'[r] = sent[r] + (IF r = s - 1 THEN 1 ELSE 0)
      OBVIOUS
    <2> DEFINE p == s - 1
    <2>1. p \in Stages /\ p # s
      BY Names
    <2>2. /\ sending' = [sending EXCEPT ![p] = @ - 1] /\ sent' = [sent EXCEPT ![p] = @ + 1]
          /\ sending \in [Stages -> Nat] /\ sent \in [Stages -> Nat]
      BY DEF VarTypes
    <2> HIDE DEF p, Passed
    <2>3. \A r \in Stages : /\ sending'[r] = sending[r] - (IF r = p THEN 1 ELSE 0)
                            /\ sent'[r] = sent[r] + (IF r = p THEN 1 ELSE 0)
      BY <2>1, <2>2
    <2> QED
      BY <2>1, <2>3 DEF p
  <1>4. \A r \in Stages \ {s} : loop'[r] = loop[r]
    BY <1>1 DEF Moves
  <1>5. VarTypes'
    <2>1. computing' \in [Stages -> Nat]
      BY <1>1, <1>2 DEF VarTypes
    <2>2. sending' \in [Stages -> Nat] /\ sent' \in [Stages -> Nat]
      <3>1. CASE Passed
        BY <1>2, <1>3, <3>1 DEF VarTypes
      <3>2. CASE ~Passed
        BY <1>1, <3>2 DEF VarTypes
      <3> QED
        BY <3>1, <3>2
    <2>3. loop' \in [Stages -> LoopPlaces] /\ produced' \in Nat
          /\ gen' \in {"queued", "granted", "send", "sent", "done"}
      BY <1>1, <1>2 DEF VarTypes, Moves
    <2> QED
      BY <1>1, <2>1, <2>2, <2>3 DEF VarTypes
  <1>6. \A r \in Stages : StageTokens(r)' = StageTokens(r)
    BY <1>1, <1>2, <1>3 DEF StageTokens, Busy, Moves
  <1>7. GeneratorTokens' = GeneratorTokens /\ Borrowed' = Borrowed
    <2>1. GeneratorTokens' = GeneratorTokens
      BY <1>1 DEF GeneratorTokens
    <2> QED
      BY <1>5, <1>6, <2>1, SameTokens, NumberTypes
  <1>8. InPipe' = InPipe + (produced' - produced)
    <2>1. CASE Generated
      <3>1. Shifted(Items, Items', s, 1, s, 0)
        BY <1>2, <2>1 DEF Shifted, Items, InLoop, Moves
      <3>2. InPipe' = InPipe + 1 + 0
        BY <1>5, <3>1, ItemsChange
      <3> QED
        BY <1>2, <2>1, <3>2, NumberTypes
    <2>2. CASE Passed
      <3>1. Shifted(Items, Items', s, 1, s - 1, -1)
        BY <1>2, <1>3, <2>2 DEF Shifted, Items, InLoop, Moves
      <3>2. InPipe' = InPipe + 1 + (-1)
        BY <1>3, <1>5, <2>2, <3>1, ItemsChange
      <3> QED
        BY <1>2, <2>2, <3>2, NumberTypes
    <2>3. CASE Waits
      <3>1. \A r \in Stages : ItemsOf(r)' = ItemsOf(r)
        BY <1>2, <2>3 DEF ItemsOf, InLoop, Moves
      <3>2. InPipe' = InPipe
        BY <1>5, <3>1, SameItems
      <3> QED
        BY <1>2, <2>3, <3>2, NumberTypes
    <2> QED
      BY <1>1, <2>1, <2>2, <2>3
  <1>9. TokenInv'
    BY <1>7 DEF TokenInv
  <1>10. QueueInv'
    BY <1>1, <1>4 DEF QueueInv, Moves
  <1>11. ProducedInv'
    BY <1>1, <1>2 DEF ProducedInv
  <1>12. ItemsInv'
    <2>1. AtConsumer' = AtConsumer /\ delivered \in Nat /\ produced' \in Nat
      BY <1>1, <1>5 DEF AtConsumer, VarTypes
    <2> QED
      BY <1>1, <1>2, <1>8, <2>1, NumberTypes DEF ItemsInv, Normal
  <1>13. EndInv'
    <2>1. \A r \in Stages : loop[r] = "closed" => Busy(r)' = Busy(r)
      <3> SUFFICES ASSUME NEW r \in Stages, loop[r] = "closed"
                   PROVE  Busy(r)' = Busy(r)
        OBVIOUS
      <3>1. r # s /\ Busy(r) = 0
        BY <1>1 DEF EndInv
      <3>2. sending[r] = 0
        BY <1>2, <3>1 DEF Busy
      <3>3. sending'[r] = sending[r] /\ sent'[r] = sent[r]
        BY <1>1, <1>2, <1>3, <3>2
      <3> QED
        BY <1>2, <3>1, <3>3 DEF Busy
    <2>2. gen = "done" => gen' = "done"
      BY <1>1 DEF Moves
    <2>3. loop'[s] \notin {"drain", "closed"}
      BY <1>1 DEF Moves
    <2> QED
      BY <1>1, <1>4, <2>1, <2>2, <2>3, SameEnd
  <1>14. \A r \in Stages : sent'[r] >= sent[r]
    BY <1>1, <1>2, <1>3
  <1>15. DueInv'
    <2>1. \A r \in Stages : loop'[r] = "queued" => <<"loop", r>> \notin due'
      BY <1>1, <1>4 DEF DueInv, Moves
    <2>2. \A r \in Stages : <<"leave", r>> \in due' => sent'[r] > 0
      <3> SUFFICES ASSUME NEW r \in Stages, <<"leave", r>> \in due'
                   PROVE  sent'[r] > 0
        OBVIOUS
      <3>1. sent[r] > 0
        BY <1>1 DEF DueInv
      <3>2. sent[r] \in Nat /\ sent'[r] \in Nat /\ sent'[r] >= sent[r]
        BY <1>5, <1>14 DEF VarTypes
      <3> QED
        BY <3>1, <3>2
    <2>3. consumer' = "receive" => <<"consumer", 0>> \notin due'
      BY <1>1 DEF DueInv
    <2>4. gen' = "queued" => <<"gen", 0>> \notin due'
      BY <1>1 DEF DueInv
    <2> QED
      BY <2>1, <2>2, <2>3, <2>4 DEF DueInv
  <1>16. WokenInv'
    <2>1. sent[NumStages] \in Nat /\ sent'[NumStages] \in Nat /\ sent'[NumStages] >= sent[NumStages]
      BY <1>5, <1>14, Names DEF VarTypes
    <2>2. \A r \in Stages : \/ loop[r] = "granted"
                            \/ loop[r] = "started" /\ <<"loop", r>> \notin due
                            => r # s
      BY <1>1
    <2>3. gen = "granted" /\ <<"gen", 0>> \notin due => gen' = "granted" /\ <<"gen", 0>> \notin due'
      BY <1>1
    <2>4. \A k \in {0, 1} : sent[NumStages] > k => sent'[NumStages] > k
      BY <2>1
    <2>5. /\ <<"consumer", 0>> \in due' <=> <<"consumer", 0>> \in due
          /\ \A r \in Stages : /\ <<"leave", r>> \in due' <=> <<"leave", r>> \in due
                               /\ <<"loop", r>> \in due' => <<"loop", r>> \in due
      BY <1>1
    <2>6. UNCHANGED <<consumer, failed, cancelled>> /\ NumStages \in Stages
      BY <1>1, Names
    <2> HIDE DEF Generated, Passed, Waits
    <2> QED
      BY <1>4, <1>7, <2>2, <2>3, <2>4, <2>5, <2>6 DEF WokenInv, Normal
  <1> QED
    BY <1>5, <1>9, <1>10, <1>11, <1>12, <1>13, <1>15, <1>16

\* The loop ends.
LEMMA LoopEndsStep ==
  ASSUME IInv, NEW s \in Stages, LoopEnds(s)
  PROVE  IInv'
  <1> USE DEF IInv
  <1>1. /\ Moves(s, "receive", "drain") /\ EndOfChannel(s)
        /\ UNCHANGED <<gen, produced, computing, sending, sent, queue, consumer, delivered,
                       failed, cancelled, due>>
    BY DEF LoopEnds, Moves, VarTypes, LoopPlaces, genVars, workVars, consVars, endVars
  <1>2. VarTypes'
    BY <1>1 DEF VarTypes, Moves
  <1>3. /\ \A r \in Stages : StageTokens(r)' = StageTokens(r) /\ ItemsOf(r)' = ItemsOf(r)
        /\ GeneratorTokens' = GeneratorTokens /\ AtConsumer' = AtConsumer
    BY <1>1 DEF StageTokens, Busy, ItemsOf, InLoop, GeneratorTokens, AtConsumer, Moves
  <1>4. Borrowed' = Borrowed /\ InPipe' = InPipe
    BY <1>2, <1>3, SameTokens, SameItems, NumberTypes
  <1>5. TokenInv' /\ QueueInv' /\ ProducedInv' /\ ItemsInv'
    BY <1>1, <1>3, <1>4 DEF TokenInv, QueueInv, ProducedInv, ItemsInv, Normal, Moves
  <1>6. EndInv'
    <2>1. ASSUME Normal
          PROVE  gen = "done" /\ \A r \in Stages : r < s => loop[r] = "closed"
      <3>1. CASE s = 1
        BY <1>1, <3>1, Names DEF EndOfChannel
      <3>2. CASE s > 1
        <4>1. s - 1 \in Stages /\ loop[s - 1] = "closed"
          BY <1>1, <3>2, Names DEF EndOfChannel
        <4>2. gen = "done" /\ \A r \in Stages : r < s - 1 => loop[r] = "closed"
          BY <2>1, <4>1 DEF EndInv
        <4>3. \A r \in Stages : r < s => r < s - 1 \/ r = s - 1
          BY Names
        <4> QED
          BY <4>1, <4>2, <4>3
      <3> QED
        BY <3>1, <3>2, Names
    <2>2. \A r \in Stages : loop'[r] = "closed" => Busy(r)' = 0
      BY <1>1 DEF EndInv, Busy, Moves
    <2>3. ASSUME NEW r \in Stages, Normal', loop'[r] \in {"drain", "closed"}
          PROVE  gen' = "done" /\ \A q \in Stages : q < r => loop'[q] = "closed"
      <3>1. Normal
        BY <1>1, <2>3 DEF Normal
      <3>2. \A q \in Stages : loop[q] = "closed" => loop'[q] = "closed"
        BY <1>1 DEF Moves
      <3>3. CASE r = s
        BY <1>1, <2>1, <3>1, <3>2, <3>3
      <3>4. CASE r # s
        <4>1. loop[r] \in {"drain", "closed"}
          BY <1>1, <2>3, <3>4 DEF Moves
        <4> QED
          BY <1>1, <3>1, <3>2, <4>1 DEF EndInv
      <3> QED
        BY <3>3, <3>4
    <2>4. consumer' = "done" /\ ~cancelled' => loop'[NumStages] = "closed"
      BY <1>1, Names DEF EndInv, Moves
    <2> QED
      BY <2>2, <2>3, <2>4 DEF EndInv
  <1>7. DueInv'
    BY <1>1 DEF DueInv, Moves
  <1>8. WokenInv'
    BY <1>1, <1>3, <1>4 DEF WokenInv, Normal, Moves
  <1> QED
    BY <1>2, <1>5, <1>6, <1>7, <1>8


\* What is given back to the limiter does not change which loops have an item,
\* which wait and which have ended.
LEMMA ReleaseLoops ==
  ASSUME VarTypes, QueueInv, Release
  PROVE  \A r \in Stages : /\ loop'[r] \in InLoop <=> loop[r] \in InLoop
                           /\ loop'[r] = "queued" => loop[r] = "queued"
                           /\ loop[r] \in {"drain", "closed"} => loop'[r] = loop[r]
                           /\ loop'[r] \in {"drain", "closed"} => loop'[r] = loop[r]
  <1>1. UNCHANGED loop \/ \E h \in Stages : Granted(h)
    BY ReleaseFacts
  <1>2. ASSUME NEW h \in Stages, Granted(h), NEW r \in Stages
        PROVE  loop'[r] = loop[r] \/ (loop[r] = "queued" /\ loop'[r] = "granted")
    BY <1>2 DEF Granted
  <1>3. \A r \in Stages : loop'[r] = loop[r] \/ (loop[r] = "queued" /\ loop'[r] = "granted")
    BY <1>1, <1>2
  <1> QED
    BY <1>3 DEF InLoop

\* A worker task of stage s ends.
LEMMA WorkerEnds ==
  ASSUME IInv, NEW s \in Stages, Release,
         computing' \in [Stages -> Nat], sending' \in [Stages -> Nat], sent' \in [Stages -> Nat],
         \A r \in Stages : Busy(r)' = Busy(r) - (IF r = s THEN 1 ELSE 0),
         UNCHANGED <<produced, consumer, delivered, cancelled>>,
         failed \subseteq failed', failed' \subseteq Stages, due' \subseteq due
  PROVE  /\ VarTypes' /\ TokenInv' /\ QueueInv' /\ ProducedInv' /\ EndInv'
         /\ gen' = "queued" => <<"gen", 0>> \notin due'
         /\ \A r \in Stages : loop'[r] = "queued" => <<"loop", r>> \notin due'
         /\ consumer' = "receive" => <<"consumer", 0>> \notin due'
  <1> USE DEF IInv
  <1>1. /\ gen' \in {"queued", "granted", "send", "sent", "done"}
        /\ loop' \in [Stages -> LoopPlaces] /\ queue' \in Seq({Generator} \cup Stages)
        /\ QueueInv'
        /\ gen' = gen \/ (gen = "queued" /\ gen' = "granted")
    BY ReleaseFacts
  <1>2. VarTypes'
    BY <1>1 DEF VarTypes
  <1>3. TokenInv'
    <2>1. Borrowed' <= Borrowed
      BY <1>2, ReleaseTokens
    <2> QED
      BY <1>2, <2>1, NumberTypes, NumberTypesNext, PipelineAssumption DEF TokenInv
  <1>4. ProducedInv'
    BY <1>1 DEF ProducedInv
  <1>5. EndInv'
    <2>1. \A r \in Stages : loop[r] = "closed" => Busy(r)' = Busy(r)
      <3> SUFFICES ASSUME NEW r \in Stages, loop[r] = "closed"
                   PROVE  Busy(r)' = Busy(r)
        OBVIOUS
      <3>1. Busy(r) = 0 /\ Busy(r)' >= 0
        <4>1. computing'[r] \in Nat /\ sending'[r] \in Nat /\ sent'[r] \in Nat
          BY <1>2 DEF VarTypes
        <4>2. Busy(r)' >= 0
          BY <4>1 DEF Busy
        <4>3. Busy(r) = 0
          BY DEF EndInv
        <4> QED
          BY <4>2, <4>3
      <3> QED
        BY <3>1
    <2> QED
      BY <1>1, <2>1, ReleaseLoops, SameEnd
  <1>6. \A r \in Stages : loop'[r] = "queued" => <<"loop", r>> \notin due'
    BY ReleaseLoops DEF DueInv
  <1>7. consumer' = "receive" => <<"consumer", 0>> \notin due'
    BY DEF DueInv
  <1>8. gen' = "queued" => <<"gen", 0>> \notin due'
    BY <1>1 DEF DueInv
  <1> QED
    BY <1>1, <1>2, <1>3, <1>4, <1>5, <1>6, <1>7, <1>8

\* A number of a stage falls by one.
LEMMA LessOne ==
  ASSUME NEW f \in [Stages -> Nat], NEW s \in Stages, f[s] > 0, NEW g,
         g = [f EXCEPT ![s] = @ - 1]
  PROVE  /\ g \in [Stages -> Nat]
         /\ \A r \in Stages : f[r] \in Nat /\ g[r] = f[r] - (IF r = s THEN 1 ELSE 0)
  <1>1. f[s] - 1 \in Nat
    OBVIOUS
  <1> QED
    BY <1>1

\* Or rises.
LEMMA MoreOne ==
  ASSUME NEW f \in [Stages -> Nat], NEW s \in Stages, NEW g,
         g = [f EXCEPT ![s] = @ + 1]
  PROVE  /\ g \in [Stages -> Nat]
         /\ \A r \in Stages : f[r] \in Nat /\ g[r] = f[r] + (IF r = s THEN 1 ELSE 0)
  OBVIOUS

\* An item is lost with its worker task: its job raised or it was cancelled.
LEMMA ItemLost ==
  ASSUME IInv, NEW s \in Stages, Release,
         \/ /\ computing[s] > 0 /\ computing' = [computing EXCEPT ![s] = @ - 1]
            /\ UNCHANGED sending
         \/ /\ sending[s] > 0 /\ sending' = [sending EXCEPT ![s] = @ - 1]
            /\ UNCHANGED computing,
         UNCHANGED <<produced, sent, consumer, delivered, cancelled, due>>,
         failed \subseteq failed', failed' \subseteq Stages, ~Normal'
  PROVE  IInv'
  <1> USE DEF IInv
  <1>1. computing \in [Stages -> Nat] /\ sending \in [Stages -> Nat] /\ sent \in [Stages -> Nat]
    BY DEF VarTypes
  <1>2. /\ computing' \in [Stages -> Nat] /\ sending' \in [Stages -> Nat]
        /\ \A r \in Stages : /\ computing[r] \in Nat /\ sending[r] \in Nat /\ sent[r] \in Nat
                             /\ computing'[r] + sending'[r]
                                  = computing[r] + sending[r] - (IF r = s THEN 1 ELSE 0)
                             /\ computing'[r] \in Nat /\ sending'[r] \in Nat
    <2>1. CASE computing[s] > 0 /\ computing' = [computing EXCEPT ![s] = @ - 1] /\ UNCHANGED sending
      <3>1. /\ computing' \in [Stages -> Nat]
            /\ \A r \in Stages : computing'[r] = computing[r] - (IF r = s THEN 1 ELSE 0)
        BY <1>1, <2>1, LessOne
      <3> HIDE <2>1
      <3>2. UNCHANGED sending
        BY <2>1
      <3> QED
        BY <1>1, <3>1, <3>2
    <2>2. CASE sending[s] > 0 /\ sending' = [sending EXCEPT ![s] = @ - 1] /\ UNCHANGED computing
      <3>1. /\ sending' \in [Stages -> Nat]
            /\ \A r \in Stages : sending'[r] = sending[r] - (IF r = s THEN 1 ELSE 0)
        BY <1>1, <2>2, LessOne
      <3> HIDE <2>2
      <3>2. UNCHANGED computing
        BY <2>2
      <3> QED
        BY <1>1, <3>1, <3>2
    <2> QED
      BY <2>1, <2>2
  <1>3. \A r \in Stages : Busy(r)' = Busy(r) - (IF r = s THEN 1 ELSE 0)
    BY <1>2 DEF Busy
  <1>4. /\ VarTypes' /\ TokenInv' /\ QueueInv' /\ ProducedInv' /\ EndInv'
        /\ gen' = "queued" => <<"gen", 0>> \notin due'
        /\ \A r \in Stages : loop'[r] = "queued" => <<"loop", r>> \notin due'
        /\ consumer' = "receive" => <<"consumer", 0>> \notin due'
    BY <1>1, <1>2, <1>3, WorkerEnds
  <1>5. InPipe' = InPipe - 1
    <2>1. Shifted(Items, Items', s, -1, s, 0)
      BY <1>2, ReleaseLoops DEF Shifted, Items
    <2>2. InPipe' = InPipe + (-1) + 0
      BY <1>4, <2>1, ItemsChange
    <2> QED
      BY <2>2, NumberTypes
  <1>6. ItemsInv'
    <2>1. AtConsumer' = AtConsumer /\ delivered \in Nat /\ produced \in Nat
      BY DEF AtConsumer, VarTypes
    <2> QED
      BY <1>5, <2>1, NumberTypes DEF ItemsInv
  <1>7. DueInv'
    BY <1>4 DEF DueInv
  <1>8. WokenInv'
    BY DEF WokenInv
  <1> QED
    BY <1>4, <1>6, <1>7, <1>8

\* A job raises.
LEMMA JobRaisesStep ==
  ASSUME IInv, NEW s \in Stages, JobRaises(s)
  PROVE  IInv'
  <1>1. /\ computing[s] > 0 /\ computing' = [computing EXCEPT ![s] = @ - 1] /\ UNCHANGED sending
        /\ failed' = failed \cup {s} /\ Release
        /\ UNCHANGED <<produced, sent, consumer, delivered, cancelled, due>>
    BY DEF JobRaises, consVars
  <1>2. failed' \subseteq Stages /\ ~Normal'
    BY <1>1 DEF IInv, VarTypes, Normal
  <1> QED
    BY <1>1, <1>2, ItemLost

\* A worker task is cancelled.
LEMMA WorkerCancelledStep ==
  ASSUME IInv, NEW s \in Stages, WorkerCancelled(s)
  PROVE  IInv'
  <1>1. /\ \/ /\ computing[s] > 0 /\ computing' = [computing EXCEPT ![s] = @ - 1]
              /\ UNCHANGED sending
           \/ /\ sending[s] > 0 /\ sending' = [sending EXCEPT ![s] = @ - 1]
              /\ UNCHANGED computing
        /\ cancelled \/ s \in failed
        /\ Release
        /\ UNCHANGED <<produced, sent, consumer, delivered, failed, cancelled, due>>
    BY DEF WorkerCancelled, Cancelled, consVars, endVars
  <1>2. failed' \subseteq Stages /\ ~Normal'
    BY <1>1 DEF IInv, VarTypes, Normal
  <1> QED
    BY <1>1, <1>2, ItemLost

\* A worker task whose result was taken leaves.
LEMMA WorkerLeavesStep ==
  ASSUME IInv, NEW s \in Stages, WorkerLeaves(s)
  PROVE  IInv'
  <1> USE DEF IInv
  <1>1. /\ sent[s] > 0 /\ sent' = [sent EXCEPT ![s] = @ - 1] /\ Release
        /\ <<"leave", s>> \in due /\ due' = due \ {<<"leave", s>>}
        /\ UNCHANGED <<produced, computing, sending, consumer, delivered, failed, cancelled>>
    BY DEF WorkerLeaves, Runs, consVars, endVars
  <1>2. computing \in [Stages -> Nat] /\ sending \in [Stages -> Nat] /\ sent \in [Stages -> Nat]
    BY DEF VarTypes
  <1>3. /\ sent' \in [Stages -> Nat]
        /\ \A r \in Stages : sent[r] \in Nat /\ sent'[r] = sent[r] - (IF r = s THEN 1 ELSE 0)
    BY <1>1, <1>2, LessOne
  <1>4. \A r \in Stages : Busy(r)' = Busy(r) - (IF r = s THEN 1 ELSE 0)
    <2>1. ASSUME NEW r \in Stages
          PROVE  Busy(r)' = Busy(r) - (IF r = s THEN 1 ELSE 0)
      <3>1. computing[r] \in Nat /\ sending[r] \in Nat /\ UNCHANGED <<computing, sending>>
        BY <1>1, <1>2
      <3>2. sent[r] \in Nat /\ sent'[r] = sent[r] - (IF r = s THEN 1 ELSE 0)
        BY <1>3
      <3> QED
        BY <3>1, <3>2 DEF Busy
    <2> QED
      BY <2>1
  <1>5. /\ VarTypes' /\ TokenInv' /\ QueueInv' /\ ProducedInv' /\ EndInv'
        /\ gen' = "queued" => <<"gen", 0>> \notin due'
        /\ \A r \in Stages : loop'[r] = "queued" => <<"loop", r>> \notin due'
        /\ consumer' = "receive" => <<"consumer", 0>> \notin due'
    <2>1. failed' \subseteq Stages
      BY <1>1 DEF VarTypes
    <2> QED
      BY <1>1, <1>2, <1>3, <1>4, <2>1, WorkerEnds
  <1>6. InPipe' = InPipe
    <2>1. \A r \in Stages : ItemsOf(r)' = ItemsOf(r)
      BY <1>1, ReleaseLoops DEF ItemsOf
    <2> QED
      BY <1>5, <2>1, SameItems
  <1>7. ItemsInv'
    BY <1>1, <1>6 DEF ItemsInv, AtConsumer, Normal
  <1>8. DueInv'
    <2>1. \A r \in Stages : <<"leave", r>> \in due' => sent'[r] > 0
      BY <1>1, <1>3 DEF DueInv
    <2> QED
      BY <1>5, <2>1 DEF DueInv
  <1>9. WokenInv'
    <2> SUFFICES ASSUME consumer = "woken", Normal
                 PROVE  IF <<"consumer", 0>> \notin due
                          THEN sent'[NumStages] > (IF <<"leave", NumStages>> \in due' THEN 1 ELSE 0)
                          ELSE \/ Borrowed' < TotalTokens
                               \/ gen' = "granted" /\ <<"gen", 0>> \notin due'
                               \/ \E h \in Stages : loop'[h] = "granted"
      BY <1>1 DEF WokenInv, Normal
    <2>1. CASE <<"consumer", 0>> \notin due
      <3>1. sent[NumStages] > (IF <<"leave", NumStages>> \in due THEN 1 ELSE 0)
        BY <2>1 DEF WokenInv
      <3>2. CASE s = NumStages
        <4>1. sent[NumStages] > 1 /\ <<"leave", NumStages>> \notin due'
          BY <1>1, <3>1, <3>2
        <4>2. sent[NumStages] \in Nat /\ sent'[NumStages] = sent[NumStages] - 1
          BY <1>3, <3>2
        <4> QED
          BY <2>1, <4>1, <4>2
      <3>3. CASE s # NumStages
        <4>1. sent'[NumStages] = sent[NumStages]
          BY <1>3, <3>3, Names
        <4>2. <<"leave", NumStages>> \in due' <=> <<"leave", NumStages>> \in due
          BY <1>1, <3>3
        <4> QED
          BY <2>1, <3>1, <4>1, <4>2
      <3> QED
        BY <3>2, <3>3
    <2>2. CASE <<"consumer", 0>> \in due
      <3>1. \/ Borrowed' < Borrowed \/ (gen = "queued" /\ gen' = "granted")
            \/ \E h \in Stages : loop'[h] = "granted"
        BY <1>1, <1>4, <1>5, ReleaseTokens
      <3>2. Borrowed' < Borrowed => Borrowed' < TotalTokens
        BY <1>5, NumberTypes, NumberTypesNext, PipelineAssumption DEF TokenInv
      <3>3. gen = "queued" => <<"gen", 0>> \notin due'
        BY <1>1 DEF DueInv
      <3> QED
        BY <2>2, <3>1, <3>2, <3>3
    <2> QED
      BY <2>1, <2>2
  <1> QED
    BY <1>5, <1>7, <1>8, <1>9

\* A loop is cancelled, wherever it is: it leaves the queue or gives back the
\* token it was about to use.
LEMMA LoopCancelledStep ==
  ASSUME IInv, NEW s \in Stages, LoopCancelled(s)
  PROVE  IInv'
  <1> USE DEF IInv
  <1> DEFINE Holds == loop[s] \in {"granted", "started"}
             One == IF Holds THEN 1 ELSE 0
  <1>1. /\ ~Normal /\ ~Normal' /\ loop[s] \notin {"drain", "closed"}
        /\ \/ /\ Holds /\ queue # <<>> /\ queue' = Tail(queue) /\ Head(queue) = Generator
              /\ gen' = "granted" /\ loop' = [loop EXCEPT ![s] = "drain"]
           \/ /\ Holds /\ queue # <<>> /\ queue' = Tail(queue) /\ Head(queue) # Generator
              /\ loop' = [loop EXCEPT ![s] = "drain", ![Head(queue)] = "granted"]
              /\ UNCHANGED gen
           \/ /\ Withdraw(s) /\ loop' = [loop EXCEPT ![s] = "drain"] /\ UNCHANGED gen
        /\ UNCHANGED <<produced, computing, sending, sent, consumer, delivered, failed, cancelled,
                       due>>
    BY DEF LoopCancelled, Cancelled, Normal, workVars, consVars, endVars
  <1>2. /\ loop \in [Stages -> LoopPlaces] /\ "drain" \in LoopPlaces /\ "granted" \in LoopPlaces
        /\ gen \in {"queued", "granted", "send", "sent", "done"}
        /\ \A r \in Stages : computing[r] \in Nat /\ sending[r] \in Nat /\ sent[r] \in Nat
    BY DEF VarTypes, LoopPlaces
  <1> DEFINE LoopFact == /\ loop'[s] = "drain" /\ loop' \in [Stages -> LoopPlaces]
                         /\ \A r \in Stages \ {s} :
                              \/ loop'[r] = loop[r]
                              \/ (loop[r] = "queued" /\ loop'[r] = "granted")
             GenFact == gen' = gen \/ (gen = "queued" /\ gen' = "granted")
             QueueFact == queue' \in Seq({Generator} \cup Stages) /\ QueueInv'
  <1>3. ASSUME Holds, queue # <<>>, queue' = Tail(queue), Head(queue) = Generator,
               gen' = "granted", loop' = [loop EXCEPT ![s] = "drain"]
        PROVE  LoopFact /\ GenFact /\ QueueFact /\ Borrowed' <= Borrowed
    <2>1. /\ gen = "queued" /\ queue' \in Seq({Generator} \cup Stages) /\ IsInjective(queue')
          /\ Range(queue') = Range(queue) \ {Generator}
      BY <1>3, HeadFacts
    <2>2. loop'[s] = "drain" /\ \A r \in Stages \ {s} : loop'[r] = loop[r]
      BY <1>2, <1>3
    <2>3. QueueInv'
      BY <1>3, <2>1, <2>2, Names DEF QueueInv
    <2>4. LoopFact /\ GenFact /\ QueueFact
      BY <1>2, <1>3, <2>1, <2>2, <2>3
    <2>5. Shifted(Tokens, Tokens', s, -1, s, 0)
      BY <1>1, <1>2, <1>3, <2>2 DEF Shifted, Tokens, StageTokens, Busy
    <2>6. GeneratorTokens = 0 /\ GeneratorTokens' = 1
      BY <1>3, <2>1 DEF GeneratorTokens
    <2>7. VarTypes'
      BY <1>1, <2>4 DEF VarTypes
    <2>8. Borrowed' = Borrowed + (GeneratorTokens' - GeneratorTokens) + (-1) + 0
      BY <2>5, <2>7, TokensChange
    <2>9. Borrowed' <= Borrowed
      BY <2>6, <2>8, NumberTypes
    <2> QED
      BY <2>4, <2>9
  <1>4. ASSUME Holds, queue # <<>>, queue' = Tail(queue), Head(queue) # Generator,
               loop' = [loop EXCEPT ![s] = "drain", ![Head(queue)] = "granted"],
               UNCHANGED gen
        PROVE  LoopFact /\ GenFact /\ QueueFact /\ Borrowed' <= Borrowed
    <2> DEFINE h == Head(queue)
    <2>1. /\ h \in Stages /\ h # Generator /\ loop[h] = "queued"
          /\ queue' \in Seq({Generator} \cup Stages)
          /\ IsInjective(queue') /\ Range(queue') = Range(queue) \ {h}
      BY <1>4, HeadFacts
    <2> HIDE DEF h
    <2>2. loop' = [loop EXCEPT ![s] = "drain", ![h] = "granted"]
      BY <1>4 DEF h
    <2>3. h # s
      BY <1>4, <2>1
    <2>4. /\ loop'[s] = "drain" /\ loop'[h] = "granted" /\ loop' \in [Stages -> LoopPlaces]
          /\ \A r \in Stages \ {s, h} : loop'[r] = loop[r]
      BY <1>2, <2>1, <2>2, <2>3
    <2> HIDE <1>4
    <2>5. UNCHANGED gen /\ Holds
      BY <1>4
    <2>6. QueueInv'
      BY <2>1, <2>4, <2>5 DEF QueueInv
    <2>7. LoopFact /\ GenFact /\ QueueFact
      BY <2>1, <2>4, <2>5, <2>6
    <2>8. Shifted(Tokens, Tokens', s, -1, h, 1)
      BY <1>1, <1>2, <2>1, <2>3, <2>4, <2>5 DEF Shifted, Tokens, StageTokens, Busy
    <2>9. GeneratorTokens' = GeneratorTokens
      BY <2>5 DEF GeneratorTokens
    <2>10. VarTypes'
      BY <1>1, <2>7 DEF VarTypes
    <2>11. Borrowed' = Borrowed + (GeneratorTokens' - GeneratorTokens) + (-1) + 1
      BY <2>1, <2>8, <2>10, TokensChange
    <2>12. Borrowed' <= Borrowed
      BY <2>9, <2>11, NumberTypes
    <2> QED
      BY <2>7, <2>12
  <1>5. ASSUME Withdraw(s), loop' = [loop EXCEPT ![s] = "drain"], UNCHANGED gen
        PROVE  LoopFact /\ GenFact /\ QueueFact /\ Borrowed' <= Borrowed
    <2>1. /\ queue' \in Seq({Generator} \cup Stages) /\ IsInjective(queue')
          /\ Range(queue') = Range(queue) \ {s}
      BY <1>5, WithdrawFacts
    <2>2. loop'[s] = "drain" /\ \A r \in Stages \ {s} : loop'[r] = loop[r]
      BY <1>2, <1>5
    <2>3. QueueInv'
      BY <1>5, <2>1, <2>2, Names DEF QueueInv
    <2>4. LoopFact /\ GenFact /\ QueueFact
      BY <1>2, <1>5, <2>1, <2>2, <2>3
    <2>5. Shifted(Tokens, Tokens', s, -One, s, 0)
      BY <1>1, <1>2, <1>5, <2>2 DEF Shifted, Tokens, StageTokens, Busy
    <2>6. GeneratorTokens' = GeneratorTokens
      BY <1>5 DEF GeneratorTokens
    <2>7. VarTypes'
      BY <1>1, <2>4 DEF VarTypes
    <2>8. One \in Nat /\ -One \in Int
      OBVIOUS
    <2> HIDE DEF One
    <2>9. Borrowed' = Borrowed + (GeneratorTokens' - GeneratorTokens) + (-One) + 0
      BY <2>5, <2>7, <2>8, TokensChange
    <2>10. Borrowed' <= Borrowed
      BY <2>6, <2>8, <2>9, NumberTypes
    <2> QED
      BY <2>4, <2>10
  <1>6. LoopFact /\ GenFact /\ QueueFact /\ Borrowed' <= Borrowed
    BY <1>1, <1>3, <1>4, <1>5
  <1>7. VarTypes'
    BY <1>1, <1>6 DEF VarTypes
  <1>8. TokenInv'
    BY <1>6, <1>7, NumberTypes, NumberTypesNext, PipelineAssumption DEF TokenInv
  <1>9. ProducedInv'
    BY <1>1, <1>6 DEF ProducedInv
  <1>10. ItemsInv'
    <2> DEFINE had == IF loop[s] \in InLoop THEN 1 ELSE 0
    <2>1. Shifted(Items, Items', s, -had, s, 0)
      <3>1. \A r \in Stages \ {s} : loop'[r] \in InLoop <=> loop[r] \in InLoop
        BY <1>6 DEF InLoop
      <3>2. loop'[s] \notin InLoop
        BY <1>6 DEF InLoop
      <3> QED
        BY <1>1, <1>2, <3>1, <3>2 DEF Shifted, Items
    <2>2. had \in Nat /\ -had \in Int
      OBVIOUS
    <2> HIDE DEF had
    <2>3. InPipe' = InPipe + (-had) + 0
      BY <1>7, <2>1, <2>2, ItemsChange
    <2>4. InPipe' <= InPipe
      BY <2>2, <2>3, NumberTypes
    <2>5. AtConsumer' = AtConsumer /\ delivered \in Nat /\ produced \in Nat
      BY <1>1 DEF AtConsumer, VarTypes
    <2> QED
      BY <1>1, <1>7, <2>4, <2>5, NumberTypes, NumberTypesNext DEF ItemsInv
  <1>11. EndInv'
    <2>1. \A r \in Stages : loop'[r] = "closed" => Busy(r)' = 0
      BY <1>1, <1>6 DEF EndInv, Busy
    <2>2. consumer' = "done" /\ ~cancelled' => loop'[NumStages] = "closed"
      BY <1>1, <1>6, Names DEF EndInv
    <2> QED
      BY <1>1, <2>1, <2>2 DEF EndInv
  <1>12. DueInv'
    BY <1>1, <1>6 DEF DueInv
  <1>13. WokenInv'
    BY <1>1 DEF WokenInv
  <1> QED
    BY <1>6, <1>7, <1>8, <1>9, <1>10, <1>11, <1>12, <1>13

\* A stage closes its channel.
LEMMA CloseStageStep ==
  ASSUME IInv, NEW s \in Stages, CloseStage(s)
  PROVE  IInv'
  <1> USE DEF IInv
  <1>1. /\ Moves(s, "drain", "closed") /\ Busy(s) = 0
        /\ UNCHANGED <<gen, produced, computing, sending, sent, queue, consumer, delivered,
                       failed, cancelled, due>>
    BY DEF CloseStage, Moves, VarTypes, LoopPlaces, genVars, workVars, consVars, endVars
  <1>2. VarTypes'
    BY <1>1 DEF VarTypes, Moves
  <1>3. /\ \A r \in Stages : StageTokens(r)' = StageTokens(r) /\ ItemsOf(r)' = ItemsOf(r)
        /\ GeneratorTokens' = GeneratorTokens /\ AtConsumer' = AtConsumer
    BY <1>1 DEF StageTokens, Busy, ItemsOf, InLoop, GeneratorTokens, AtConsumer, Moves
  <1>4. Borrowed' = Borrowed /\ InPipe' = InPipe
    BY <1>2, <1>3, SameTokens, SameItems, NumberTypes
  <1>5. TokenInv' /\ QueueInv' /\ ProducedInv' /\ ItemsInv'
    BY <1>1, <1>3, <1>4 DEF TokenInv, QueueInv, ProducedInv, ItemsInv, Normal, Moves
  <1>6. EndInv'
    <2>1. \A r \in Stages : loop'[r] = "closed" => Busy(r)' = 0
      BY <1>1 DEF EndInv, Busy, Moves
    <2>2. ASSUME NEW r \in Stages, Normal', loop'[r] \in {"drain", "closed"}
          PROVE  gen' = "done" /\ \A q \in Stages : q < r => loop'[q] = "closed"
      <3>1. Normal /\ loop[r] \in {"drain", "closed"}
        BY <1>1, <2>2 DEF Normal, Moves
      <3>2. gen = "done" /\ \A q \in Stages : q < r => loop[q] = "closed"
        BY <3>1 DEF EndInv
      <3>3. \A q \in Stages : loop[q] = "closed" => loop'[q] = "closed"
        BY <1>1 DEF Moves
      <3> QED
        BY <1>1, <3>2, <3>3
    <2>3. consumer' = "done" /\ ~cancelled' => loop'[NumStages] = "closed"
      BY <1>1, Names DEF EndInv, Moves
    <2> QED
      BY <2>1, <2>2, <2>3 DEF EndInv
  <1>7. DueInv'
    BY <1>1 DEF DueInv, Moves
  <1>8. WokenInv'
    BY <1>1, <1>3, <1>4 DEF WokenInv, Normal, Moves
  <1> QED
    BY <1>2, <1>5, <1>6, <1>7, <1>8

\* The exception of a job cancels everything.
LEMMA PropagateStep ==
  ASSUME IInv, NEW s \in Stages, Propagate(s)
  PROVE  IInv'
  <1> USE DEF IInv
  <1>1. /\ ~Normal /\ ~Normal' /\ cancelled' = TRUE
        /\ UNCHANGED <<gen, produced, loop, computing, sending, sent, queue, consumer, delivered,
                       failed, due>>
    BY DEF Propagate, Normal, genVars, workVars, consVars
  <1>2. VarTypes'
    BY <1>1 DEF VarTypes
  <1>3. Borrowed' = Borrowed /\ InPipe' = InPipe /\ AtConsumer' = AtConsumer
    BY <1>1 DEF Borrowed, GeneratorTokens, StageTokens, Busy, InPipe, Items, AtConsumer
  <1>4. TokenInv' /\ QueueInv' /\ ProducedInv' /\ ItemsInv'
    BY <1>1, <1>3 DEF TokenInv, QueueInv, ProducedInv, ItemsInv
  <1>5. EndInv' /\ DueInv' /\ WokenInv'
    BY <1>1 DEF EndInv, DueInv, WokenInv, Busy
  <1> QED
    BY <1>2, <1>4, <1>5

\* A job returns, and its result goes to who waits for it, or waits.
LEMMA JobReturnsStep ==
  ASSUME IInv, NEW s \in Stages, JobReturns(s)
  PROVE  IInv'
  <1> USE DEF IInv
  <1> DEFINE ToStage == /\ s < NumStages /\ Moves(s + 1, "receive", "woken")
                        /\ sent' = [sent EXCEPT ![s] = @ + 1] /\ UNCHANGED <<sending, consumer>>
             ToConsumer == /\ s = NumStages /\ consumer = "receive" /\ consumer' = "woken"
                           /\ sent' = [sent EXCEPT ![s] = @ + 1] /\ UNCHANGED <<loop, sending>>
             Waits == /\ sending' = [sending EXCEPT ![s] = @ + 1]
                      /\ UNCHANGED <<loop, sent, consumer>>
             Given(r) == IF r = s /\ ~Waits THEN 1 ELSE 0
             Kept(r) == IF r = s /\ Waits THEN 1 ELSE 0
  <1>1. /\ computing[s] > 0 /\ computing' = [computing EXCEPT ![s] = @ - 1]
        /\ UNCHANGED <<gen, produced, queue, delivered, failed, cancelled, due>>
    BY DEF JobReturns, genVars, endVars
  <1>2. ToStage \/ ToConsumer \/ Waits
    BY Names DEF JobReturns, Moves, VarTypes, LoopPlaces
  <1>3. computing \in [Stages -> Nat] /\ sending \in [Stages -> Nat] /\ sent \in [Stages -> Nat]
    BY DEF VarTypes
  <1>4. /\ computing' \in [Stages -> Nat]
        /\ \A r \in Stages : /\ computing[r] \in Nat
                             /\ computing'[r] = computing[r] - (IF r = s THEN 1 ELSE 0)
    BY <1>1, <1>3, LessOne
  <1>5. /\ sending' \in [Stages -> Nat] /\ sent' \in [Stages -> Nat]
        /\ \A r \in Stages : /\ sending[r] \in Nat /\ sending'[r] = sending[r] + Kept(r)
                             /\ sent[r] \in Nat /\ sent'[r] = sent[r] + Given(r)
    <2>1. CASE Waits
      <3>1. /\ sending' \in [Stages -> Nat]
            /\ \A r \in Stages : /\ sending[r] \in Nat
                                 /\ sending'[r] = sending[r] + (IF r = s THEN 1 ELSE 0)
        BY <1>3, <2>1, MoreOne
      <3> QED
        BY <1>3, <2>1, <3>1
    <2>2. CASE ~Waits
      <3>1. sent' = [sent EXCEPT ![s] = @ + 1] /\ UNCHANGED sending
        BY <1>2, <2>2
      <3>2. /\ sent' \in [Stages -> Nat]
            /\ \A r \in Stages : /\ sent[r] \in Nat
                                 /\ sent'[r] = sent[r] + (IF r = s THEN 1 ELSE 0)
        BY <1>3, <3>1, MoreOne
      <3> QED
        BY <1>3, <2>2, <3>1, <3>2
    <2> QED
      BY <2>1, <2>2
  <1>6. /\ loop' \in [Stages -> LoopPlaces]
        /\ \A r \in Stages : loop'[r] = loop[r] \/ (loop[r] = "receive" /\ loop'[r] = "woken")
        /\ consumer' = consumer \/ (consumer = "receive" /\ consumer' = "woken")
    BY <1>2 DEF Moves, VarTypes
  <1>7. VarTypes'
    BY <1>1, <1>4, <1>5, <1>6 DEF VarTypes
  <1>8. \A r \in Stages : /\ Given(r) \in Nat /\ Kept(r) \in Nat
                         /\ Given(r) + Kept(r) = IF r = s THEN 1 ELSE 0
    OBVIOUS
  <1> HIDE DEF Given, Kept
  <1>9. \A r \in Stages : Busy(r)' = Busy(r)
    BY <1>4, <1>5, <1>8 DEF Busy
  <1>10. Borrowed' = Borrowed /\ GeneratorTokens' = GeneratorTokens
    <2>1. \A r \in Stages : StageTokens(r)' = StageTokens(r)
      BY <1>6, <1>9 DEF StageTokens
    <2>2. GeneratorTokens' = GeneratorTokens
      BY <1>1 DEF GeneratorTokens
    <2> QED
      BY <1>7, <2>1, <2>2, SameTokens, NumberTypes
  <1>11. InPipe' + AtConsumer' = InPipe + AtConsumer
    <2>1. CASE ToStage
      <3>1. Shifted(Items, Items', s, -1, s + 1, 1)
        <4> DEFINE q == s + 1
        <4>1. q \in Stages /\ q # s /\ Moves(q, "receive", "woken") /\ UNCHANGED sending
          BY <2>1, Names
        <4> HIDE <2>1 DEF q, ToStage
        <4>2. \A r \in Stages : sending[r] \in Nat /\ sending'[r] = sending[r]
          BY <1>3, <4>1
        <4>3. Shifted(Items, Items', s, -1, q, 1)
          BY <1>4, <4>1, <4>2 DEF Shifted, Items, InLoop, Moves
        <4> QED
          BY <4>3 DEF q
      <3>2. InPipe' = InPipe + (-1) + 1
        BY <1>7, <2>1, <3>1, Names, ItemsChange
      <3>3. AtConsumer' = AtConsumer
        BY <2>1 DEF AtConsumer
      <3> QED
        BY <3>2, <3>3, NumberTypes
    <2>2. CASE ToConsumer
      <3>1. Shifted(Items, Items', s, -1, s, 0)
        BY <1>4, <1>5, <2>2 DEF Shifted, Items
      <3>2. InPipe' = InPipe + (-1) + 0
        BY <1>7, <3>1, ItemsChange
      <3>3. AtConsumer = 0 /\ AtConsumer' = 1
        BY <2>2 DEF AtConsumer
      <3> QED
        BY <3>2, <3>3, NumberTypes
    <2>3. CASE Waits
      <3>1. \A r \in Stages : ItemsOf(r)' = ItemsOf(r)
        BY <1>4, <1>5, <2>3 DEF ItemsOf, Kept
      <3>2. AtConsumer' = AtConsumer
        BY <2>3 DEF AtConsumer
      <3> QED
        BY <1>7, <3>1, <3>2, SameItems
    <2> QED
      BY <1>2, <2>1, <2>2, <2>3
  <1>12. ItemsInv'
    <2>1. delivered \in Nat /\ produced \in Nat
      BY DEF VarTypes
    <2> QED
      BY <1>1, <1>7, <1>11, <2>1, NumberTypes, NumberTypesNext DEF ItemsInv, Normal
  <1>13. TokenInv' /\ QueueInv' /\ ProducedInv'
    BY <1>1, <1>6, <1>10 DEF TokenInv, QueueInv, ProducedInv
  <1>14. EndInv'
    BY <1>1, <1>6, <1>9, SameEnd
  <1>15. \A r \in Stages : sent'[r] \in Nat /\ sent[r] \in Nat /\ sent'[r] >= sent[r]
    BY <1>5, <1>8
  <1>16. DueInv'
    <2>1. \A r \in Stages : <<"leave", r>> \in due' => sent'[r] > 0
      BY <1>1, <1>15 DEF DueInv
    <2> QED
      BY <1>1, <1>6, <2>1 DEF DueInv
  <1>17. WokenInv'
    <2>1. CASE consumer' = consumer
      <3>1. /\ NumStages \in Stages
            /\ \A r \in Stages : loop[r] \in {"granted", "started"} => loop'[r] = loop[r]
        BY <1>6, Names
      <3>2. \A k \in {0, 1} : sent[NumStages] > k => sent'[NumStages] > k
        BY <1>15, <3>1
      <3>3. UNCHANGED <<gen, failed, cancelled, due>>
        BY <1>1
      <3> HIDE DEF ToStage, ToConsumer, Waits
      <3> QED
        BY <1>10, <2>1, <3>1, <3>2, <3>3 DEF WokenInv, Normal
    <2>2. CASE consumer' # consumer
      <3>1. ToConsumer
        BY <1>2, <2>2
      <3>2. sent'[NumStages] = sent[NumStages] + 1 /\ sent[NumStages] \in Nat
        <4>1. ~Waits
          BY <2>2
        <4> QED
          BY <1>5, <3>1, <4>1, Names DEF Given
      <3>3. <<"leave", NumStages>> \in due => sent[NumStages] > 0
        BY Names DEF DueInv
      <3>4. <<"consumer", 0>> \notin due'
        BY <1>1, <3>1 DEF DueInv
      <3>5. sent'[NumStages] > (IF <<"leave", NumStages>> \in due' THEN 1 ELSE 0)
        BY <1>1, <3>2, <3>3
      <3> QED
        BY <3>4, <3>5 DEF WokenInv
    <2> QED
      BY <2>1, <2>2
  <1> QED
    BY <1>7, <1>12, <1>13, <1>14, <1>16, <1>17

\* The consumer has a result, and receives again unless it is what it looks for.
LEMMA GetResultStep ==
  ASSUME IInv, NEW winner \in BOOLEAN, GetResult(winner)
  PROVE  IInv'
  <1> USE DEF IInv
  <1> DEFINE Takes == /\ ~winner /\ sending[NumStages] > 0
                      /\ sending' = [sending EXCEPT ![NumStages] = @ - 1]
                      /\ sent' = [sent EXCEPT ![NumStages] = @ + 1]
                      /\ UNCHANGED consumer
             Receives == consumer' = "receive" /\ UNCHANGED <<sending, sent>>
             One(r) == IF r = NumStages /\ consumer' # "receive" THEN 1 ELSE 0
  <1>1. /\ consumer = "woken" /\ ~cancelled /\ cancelled' = winner /\ delivered' = delivered + 1
        /\ due' = due \ {<<"consumer", 0>>}
        /\ Takes \/ Receives
        /\ UNCHANGED <<gen, produced, loop, computing, queue, failed>>
    BY DEF GetResult, Runs, genVars
  <1>2. /\ computing \in [Stages -> Nat] /\ sending \in [Stages -> Nat] /\ sent \in [Stages -> Nat]
        /\ delivered \in Nat /\ produced \in Nat
    BY DEF VarTypes
  <1>3. /\ sending' \in [Stages -> Nat] /\ sent' \in [Stages -> Nat]
        /\ \A r \in Stages : /\ sending[r] \in Nat /\ sending'[r] = sending[r] - One(r)
                             /\ sent[r] \in Nat /\ sent'[r] = sent[r] + One(r)
    <2>1. CASE Takes
      <3>1. /\ sending' \in [Stages -> Nat]
            /\ \A r \in Stages : /\ sending[r] \in Nat
                                 /\ sending'[r] = sending[r] - (IF r = NumStages THEN 1 ELSE 0)
        BY <1>2, <2>1, LessOne, Names
      <3>2. /\ sent' \in [Stages -> Nat]
            /\ \A r \in Stages : /\ sent[r] \in Nat
                                 /\ sent'[r] = sent[r] + (IF r = NumStages THEN 1 ELSE 0)
        BY <1>2, <2>1, MoreOne, Names
      <3>3. consumer' # "receive"
        BY <1>1, <2>1
      <3> HIDE DEF Takes
      <3> QED
        BY <3>1, <3>2, <3>3
    <2>2. CASE Receives
      BY <1>2, <2>2
    <2> QED
      BY <1>1, <2>1, <2>2
  <1>4. consumer' \in {"receive", "woken"}
    BY <1>1
  <1> HIDE <1>1 DEF Takes, Receives
  <1>5. /\ consumer = "woken" /\ ~cancelled /\ cancelled' = winner /\ delivered' = delivered + 1
        /\ due' = due \ {<<"consumer", 0>>}
        /\ UNCHANGED <<gen, produced, loop, computing, queue, failed>>
    BY <1>1
  <1>6. VarTypes'
    BY <1>2, <1>3, <1>4, <1>5 DEF VarTypes
  <1>7. \A r \in Stages : One(r) \in Nat /\ Busy(r)' = Busy(r)
    BY <1>2, <1>3, <1>5 DEF Busy
  <1>8. Borrowed' = Borrowed
    <2>1. (\A r \in Stages : StageTokens(r)' = StageTokens(r)) /\ GeneratorTokens' = GeneratorTokens
      BY <1>5, <1>7 DEF StageTokens, GeneratorTokens
    <2> QED
      BY <1>6, <2>1, SameTokens, NumberTypes
  <1>9. InPipe' + AtConsumer' = InPipe + AtConsumer - 1
    <2>1. CASE consumer' = "woken"
      <3>1. Shifted(Items, Items', NumStages, -1, NumStages, 0)
        BY <1>2, <1>3, <1>5, <2>1 DEF Shifted, Items
      <3>2. InPipe' = InPipe + (-1) + 0
        BY <1>6, <3>1, ItemsChange, Names
      <3>3. AtConsumer' = AtConsumer
        BY <1>5, <2>1 DEF AtConsumer
      <3> QED
        BY <3>2, <3>3, NumberTypes
    <2>2. CASE consumer' = "receive"
      <3>1. \A r \in Stages : ItemsOf(r)' = ItemsOf(r)
        BY <1>2, <1>3, <1>5, <2>2 DEF ItemsOf
      <3>2. InPipe' = InPipe
        BY <1>6, <3>1, SameItems
      <3>3. AtConsumer = 1 /\ AtConsumer' = 0
        BY <1>5, <2>2 DEF AtConsumer
      <3> QED
        BY <3>2, <3>3, NumberTypes
    <2> QED
      BY <1>4, <2>1, <2>2
  <1>10. ItemsInv'
    BY <1>2, <1>5, <1>6, <1>9, NumberTypes, NumberTypesNext DEF ItemsInv, Normal
  <1>11. TokenInv' /\ QueueInv' /\ ProducedInv'
    BY <1>5, <1>8 DEF TokenInv, QueueInv, ProducedInv
  <1>12. EndInv'
    BY <1>4, <1>5, <1>7, SameEnd
  <1>13. DueInv'
    <2>1. \A r \in Stages : <<"leave", r>> \in due' => sent'[r] > 0
      <3> SUFFICES ASSUME NEW r \in Stages, <<"leave", r>> \in due'
                   PROVE  sent'[r] > 0
        OBVIOUS
      <3>1. sent[r] > 0
        BY <1>5 DEF DueInv
      <3> QED
        BY <1>3, <1>7, <3>1
    <2> QED
      BY <1>5, <2>1 DEF DueInv
  <1>14. WokenInv'
    <2> SUFFICES ASSUME consumer' = "woken"
                 PROVE  /\ <<"consumer", 0>> \notin due'
                        /\ sent'[NumStages] > (IF <<"leave", NumStages>> \in due' THEN 1 ELSE 0)
      BY DEF WokenInv
    <2>1. sent[NumStages] \in Nat /\ sent'[NumStages] = sent[NumStages] + 1
      BY <1>3, Names
    <2>2. <<"leave", NumStages>> \in due => sent[NumStages] > 0
      BY Names DEF DueInv
    <2> QED
      BY <1>5, <2>1, <2>2
  <1> QED
    BY <1>6, <1>10, <1>11, <1>12, <1>13, <1>14

\* The consumer ends.
LEMMA ConsumerEndsStep ==
  ASSUME IInv, ConsumerEnds
  PROVE  IInv'
  <1> USE DEF IInv
  <1>1. /\ consumer' = "done"
        /\ \/ consumer = "receive" /\ loop[NumStages] = "closed"
           \/ consumer \in {"receive", "woken"} /\ cancelled
        /\ UNCHANGED <<gen, produced, loop, computing, sending, sent, queue, delivered, failed,
                       cancelled, due>>
    BY DEF ConsumerEnds, genVars, workVars, endVars
  <1>2. VarTypes'
    BY <1>1 DEF VarTypes
  <1>3. Borrowed' = Borrowed /\ InPipe' = InPipe
    BY <1>1 DEF Borrowed, GeneratorTokens, StageTokens, Busy, InPipe, Items
  <1>4. TokenInv' /\ QueueInv' /\ ProducedInv'
    BY <1>1, <1>3 DEF TokenInv, QueueInv, ProducedInv
  <1>5. ItemsInv'
    <2>1. delivered \in Nat /\ produced \in Nat
      BY DEF VarTypes
    <2>2. AtConsumer' = 0 /\ (Normal => AtConsumer = 0)
      BY <1>1 DEF AtConsumer, Normal
    <2> QED
      BY <1>1, <1>3, <2>1, <2>2, NumberTypes DEF ItemsInv, Normal
  <1>6. EndInv'
    BY <1>1 DEF EndInv, Normal, Busy
  <1>7. DueInv' /\ WokenInv'
    BY <1>1 DEF DueInv, WokenInv
  <1> QED
    BY <1>2, <1>4, <1>5, <1>6, <1>7

LEMMA InitInv ==
  ASSUME Init
  PROVE  IInv
  <1>1. /\ gen = "granted" /\ produced = 0 /\ delivered = 0 /\ queue = <<>>
        /\ consumer = "receive" /\ failed = {} /\ cancelled = FALSE /\ due = {}
        /\ \A s \in Stages : /\ loop[s] = "receive"
                             /\ computing[s] = 0 /\ sending[s] = 0 /\ sent[s] = 0
    BY DEF Init
  <1>2. VarTypes
    <2>1. /\ loop \in [Stages -> LoopPlaces] /\ computing \in [Stages -> Nat]
          /\ sending \in [Stages -> Nat] /\ sent \in [Stages -> Nat]
      BY DEF Init, LoopPlaces
    <2>2. queue \in Seq({Generator} \cup Stages)
      BY <1>1
    <2> QED
      BY <1>1, <2>1, <2>2 DEF VarTypes
  <1>3. Total(Tokens) = 0
    <2>1. \A s \in Stages : Tokens[s] = 0
      BY <1>1 DEF Tokens, StageTokens, Busy
    <2> QED
      BY <2>1, SumZero
  <1>4. InPipe = 0
    <2>1. \A s \in Stages : Items[s] = 0
      BY <1>1 DEF Items, InLoop
    <2>2. Total(Items) = 0
      BY <2>1, SumZero
    <2> QED
      BY <1>2, <2>2, NumberTypes
  <1>5. TokenInv
    <2>1. GeneratorTokens = 1
      BY <1>1 DEF GeneratorTokens
    <2> QED
      BY <1>2, <1>3, <2>1, NumberTypes, PipelineAssumption DEF TokenInv
  <1>6. QueueInv
    <2>1. Range(queue) = {} /\ IsInjective(queue)
      BY <1>1 DEF Range, IsInjective
    <2> QED
      BY <1>1, <2>1 DEF QueueInv
  <1>7. ProducedInv /\ ItemsInv
    BY <1>1, <1>4, PipelineAssumption DEF ProducedInv, ItemsInv, AtConsumer
  <1>8. EndInv /\ DueInv /\ WokenInv
    BY <1>1 DEF EndInv, DueInv, WokenInv
  <1> QED
    BY <1>2, <1>5, <1>6, <1>7, <1>8 DEF IInv

\* What is said of a state holds as long as no variable changes.
LEMMA StutterInv ==
  ASSUME IInv, UNCHANGED vars
  PROVE  IInv'
  <1>1. UNCHANGED <<gen, produced, loop, computing, sending, sent, queue, consumer, delivered,
                    failed, cancelled, due>>
    BY DEF vars, genVars, workVars, consVars, endVars
  <1>2. Borrowed' = Borrowed /\ InPipe' = InPipe
    BY <1>1 DEF Borrowed, GeneratorTokens, StageTokens, Busy, InPipe, Items
  <1>3. VarTypes' /\ TokenInv' /\ QueueInv' /\ ProducedInv' /\ EndInv' /\ DueInv'
    BY <1>1, <1>2 DEF IInv, VarTypes, TokenInv, QueueInv, ProducedInv, EndInv, Normal, Busy, DueInv
  <1>4. ItemsInv' /\ WokenInv'
    BY <1>1, <1>2 DEF IInv, ItemsInv, WokenInv, AtConsumer, GeneratorTokens, Normal
  <1> QED
    BY <1>3, <1>4 DEF IInv

LEMMA NextInv ==
  ASSUME IInv, [Next]_vars
  PROVE  IInv'
  <1>1. CASE NewBatch \/ SendItem \/ NextItem \/ GeneratorEnds
    BY <1>1, NewBatchStep, SendItemStep, NextItemStep, GeneratorEndsStep
  <1>2. ASSUME NEW s \in Stages, StageStep(s)
        PROVE  IInv'
    <2>1. CASE StartWorker(s) \/ AskForToken(s) \/ Started(s) \/ ReceiveNext(s)
      BY <2>1, StartWorkerStep, AskForTokenStep, StartedStep, ReceiveNextStep
    <2>2. CASE LoopEnds(s) \/ LoopCancelled(s) \/ CloseStage(s) \/ Propagate(s)
      BY <2>2, LoopEndsStep, LoopCancelledStep, CloseStageStep, PropagateStep
    <2>3. CASE JobReturns(s) \/ JobRaises(s) \/ WorkerLeaves(s) \/ WorkerCancelled(s)
      BY <2>3, JobReturnsStep, JobRaisesStep, WorkerLeavesStep, WorkerCancelledStep
    <2> QED
      BY <1>2, <2>1, <2>2, <2>3 DEF StageStep
  <1>3. ASSUME NEW winner \in BOOLEAN, GetResult(winner)
        PROVE  IInv'
    BY <1>3, GetResultStep
  <1>4. CASE ConsumerEnds
    BY <1>4, ConsumerEndsStep
  <1>5. CASE UNCHANGED vars
    BY <1>5, StutterInv
  <1> QED
    BY <1>1, <1>2, <1>3, <1>4, <1>5 DEF Next

\* If with one item more in the first stage, and e more in stage q, no stage had
\* more than one item without a token.
LEMMA RoomFor ==
  ASSUME VarTypes, NEW q \in Stages, NEW e \in {0, 1},
         \A s \in Stages :
           Items[s] + (IF s = 1 THEN 1 ELSE 0) + (IF s = q THEN e ELSE 0) <= Tokens[s] + 1
  PROVE  InPipe + 1 + e <= Total(Tokens) + NumStages
  <1> DEFINE more ==
        [s \in Stages |-> Items[s] + (IF s = 1 THEN 1 ELSE 0) + (IF s = q THEN e ELSE 0)]
  <1>1. Tokens \in [Stages -> Int] /\ Items \in [Stages -> Int] /\ InPipe = Total(Items)
    BY NumberTypes
  <1>2. more \in [Stages -> Int] /\ Shifted(Items, more, 1, 1, q, e)
    BY <1>1 DEF Shifted
  <1>3. \A s \in Stages : more[s] <= Tokens[s] + 1
    OBVIOUS
  <1> HIDE DEF more
  <1>4. e \in Int /\ 1 \in Int /\ 1 \in Stages
    BY Names
  <1>5. Total(more) = Total(Items) + 1 + e
    <2>1. \A r \in Stages, d, f \in Int :
            Shifted(Items, more, r, d, q, f) => Total(more) = Total(Items) + d + f
      BY <1>1, <1>2, SumPoints
    <2> QED
      BY <1>2, <1>4, <2>1
  <1>6. Total(more) <= Total(Tokens) + NumStages
    BY <1>1, <1>2, <1>3, SumBound
  <1> QED
    BY <1>1, <1>5, <1>6

\* When the generator hands over an item there is room for it.
LEMMA RoomForOne ==
  ASSUME IInv, Normal,
         gen = "send" \/ (gen = "granted" /\ <<"gen", 0>> \in due),
         loop[1] = "receive" \/ (loop[1] = "started" /\ <<"loop", 1>> \in due)
  PROVE  AtConsumer + InPipe + 1 < TotalTokens + NumStages
  <1> USE DEF IInv
  <1>1. /\ Total(Tokens) \in Nat /\ InPipe \in Nat /\ Borrowed = 1 + Total(Tokens)
        /\ Borrowed <= TotalTokens /\ TotalTokens \in Nat /\ NumStages \in Nat
    BY NumberTypes, PipelineAssumption DEF TokenInv, GeneratorTokens
  <1>2. \A s \in Stages :
          /\ Tokens[s] = computing[s] + sending[s] + sent[s]
                           + (IF loop[s] \in {"granted", "started"} THEN 1 ELSE 0)
          /\ Items[s] = computing[s] + sending[s] + (IF loop[s] \in InLoop THEN 1 ELSE 0)
          /\ computing[s] \in Nat /\ sending[s] \in Nat /\ sent[s] \in Nat
    BY DEF Tokens, StageTokens, Busy, Items, VarTypes
  <1>3. /\ \A s \in Stages : Items[s] <= Tokens[s] + 1 /\ Items[s] \in Nat /\ Tokens[s] \in Nat
        /\ Items[1] <= Tokens[1]
        /\ \A s \in Stages : loop[s] \in {"granted", "started"} => Items[s] <= Tokens[s]
        /\ sent[NumStages] > 0 => Items[NumStages] <= Tokens[NumStages]
        /\ sent[NumStages] > 0 /\ NumStages = 1 => Items[1] + 1 <= Tokens[1]
    BY <1>2, Names DEF InLoop
  <1>4. InPipe + 1 <= Total(Tokens) + NumStages
    <2>1. \A s \in Stages : Items[s] + (IF s = 1 THEN 1 ELSE 0) + (IF s = 1 THEN 0 ELSE 0)
                             <= Tokens[s] + 1
      BY <1>3
    <2>2. InPipe + 1 + 0 <= Total(Tokens) + NumStages
      BY <2>1, RoomFor, Names
    <2> QED
      BY <1>1, <2>2
  <1>5. CASE consumer # "woken"
    BY <1>1, <1>4, <1>5 DEF AtConsumer
  <1>6. CASE consumer = "woken"
    <2>1. AtConsumer = 1
      BY <1>6 DEF AtConsumer
    <2>2. \/ sent[NumStages] > 0 \/ Borrowed < TotalTokens
          \/ \E r \in Stages \ {1} : loop[r] \in {"granted", "started"}
      <3>1. CASE <<"consumer", 0>> \notin due
        <4>1. sent[NumStages] > (IF <<"leave", NumStages>> \in due THEN 1 ELSE 0)
          BY <1>6, <3>1 DEF WokenInv
        <4> QED
          BY <1>2, <4>1, Names
      <3>2. CASE <<"consumer", 0>> \in due
        <4>1. \/ sent[NumStages] > 0 \/ Borrowed < TotalTokens
              \/ gen = "granted" /\ <<"gen", 0>> \notin due
              \/ \E r \in Stages : \/ loop[r] = "granted"
                                   \/ loop[r] = "started" /\ <<"loop", r>> \notin due
          BY <1>6, <3>2 DEF WokenInv
        <4> QED
          BY <4>1
      <3> QED
        BY <3>1, <3>2
    <2>3. ASSUME NEW q \in Stages, Items[q] + (IF q = 1 THEN 1 ELSE 0) <= Tokens[q]
          PROVE  AtConsumer + InPipe + 1 < TotalTokens + NumStages
      <3>1. \A s \in Stages : Items[s] + (IF s = 1 THEN 1 ELSE 0) + (IF s = q THEN 1 ELSE 0)
                               <= Tokens[s] + 1
        BY <1>3, <2>3
      <3>2. InPipe + 1 + 1 <= Total(Tokens) + NumStages
        BY <3>1, RoomFor
      <3> QED
        BY <1>1, <2>1, <3>2
    <2>4. CASE sent[NumStages] > 0
      BY <1>3, <2>3, <2>4, Names
    <2>5. CASE Borrowed < TotalTokens
      BY <1>1, <1>4, <2>1, <2>5
    <2>6. ASSUME NEW r \in Stages \ {1}, loop[r] \in {"granted", "started"}
          PROVE  AtConsumer + InPipe + 1 < TotalTokens + NumStages
      BY <1>3, <2>3, <2>6
    <2> QED
      BY <2>2, <2>4, <2>5, <2>6
  <1> QED
    BY <1>5, <1>6

\* Only the generator adds to what has been handed over and is not delivered,
\* and only when there is room.
LEMMA BackpressureStep ==
  ASSUME IInv, IInv', Backpressure, [Next]_vars
  PROVE  Backpressure'
  <1> USE DEF IInv
  <1>1. /\ produced \in Nat /\ produced' \in Nat /\ delivered \in Nat /\ delivered' \in Nat
        /\ TotalTokens \in Nat /\ NumStages \in Nat
    BY PipelineAssumption DEF VarTypes
  <1> DEFINE Keeps == /\ produced' = produced /\ delivered' \in {delivered, delivered + 1}
                      /\ Normal' => Normal
             Adds == /\ produced' = produced + 1 /\ delivered' = delivered
                     /\ Normal' => Normal
                     /\ gen = "send" \/ (gen = "granted" /\ <<"gen", 0>> \in due)
                     /\ loop[1] = "receive" \/ (loop[1] = "started" /\ <<"loop", 1>> \in due)
  <1>2. CASE Keeps
    <2>1. \A p, d, n \in Nat : p - d < n => p - (d + 1) < n
      OBVIOUS
    <2>2. produced - delivered < TotalTokens + NumStages
            => produced' - delivered' < TotalTokens + NumStages
      <3>1. TotalTokens + NumStages \in Nat
        BY <1>1
      <3> QED
        BY <1>1, <1>2, <2>1, <3>1
    <2>3. Normal' => Normal
      BY <1>2
    <2> QED
      BY <2>2, <2>3 DEF Backpressure, Normal
  <1>3. CASE Adds
    <2>1. Normal => AtConsumer + InPipe + 1 < TotalTokens + NumStages
      BY <1>3, RoomForOne
    <2>2. Normal => produced = delivered + AtConsumer + InPipe
      BY DEF ItemsInv
    <2>3. AtConsumer \in Nat /\ InPipe \in Nat
      BY NumberTypes
    <2> QED
      BY <1>1, <1>3, <2>1, <2>2, <2>3 DEF Backpressure, Normal
  <1>4. CASE NewBatch \/ NextItem \/ GeneratorEnds
    BY <1>2, <1>4 DEF NewBatch, NextItem, GeneratorEnds, Normal, genVars, consVars, endVars
  <1>5. CASE SendItem
    BY <1>2, <1>3, <1>5 DEF SendItem, Runs, Normal, consVars, endVars
  <1>6. ASSUME NEW s \in Stages, StageStep(s)
        PROVE  Backpressure'
    <2>1. CASE StartWorker(s) \/ AskForToken(s) \/ Started(s) \/ LoopEnds(s)
      BY <1>2, <2>1
         DEF StartWorker, AskForToken, Started, LoopEnds, Normal, genVars, consVars, endVars
    <2>2. CASE LoopCancelled(s) \/ CloseStage(s) \/ Propagate(s) \/ JobReturns(s)
      BY <1>2, <2>2
         DEF LoopCancelled, CloseStage, Propagate, JobReturns, Normal, genVars, consVars, endVars
    <2>3. CASE JobRaises(s) \/ WorkerLeaves(s) \/ WorkerCancelled(s)
      BY <1>2, <2>3 DEF JobRaises, WorkerLeaves, WorkerCancelled, Normal, consVars, endVars
    <2>4. CASE ReceiveNext(s)
      BY <1>2, <1>3, <2>4 DEF ReceiveNext, Runs, Normal, genVars, consVars, endVars
    <2> QED
      BY <1>6, <2>1, <2>2, <2>3, <2>4 DEF StageStep
  <1>7. CASE (\E winner \in BOOLEAN : GetResult(winner)) \/ ConsumerEnds
    BY <1>2, <1>7 DEF GetResult, ConsumerEnds, Normal, genVars, endVars
  <1>8. CASE UNCHANGED vars
    BY <1>2, <1>8 DEF vars, Normal, genVars, consVars, endVars
  <1> QED
    BY <1>4, <1>5, <1>6, <1>7, <1>8 DEF Next

-----------------------------------------------------------------------------
(***************************************************************************)
(* Theorems.                                                               *)
(***************************************************************************)

\* The invariant: who waits for the limiter is in its queue, no item is lost
\* or made up, stages end in order, and the result the consumer was woken for
\* keeps a token, or a place, from being used twice.
THEOREM Invariant == Spec => []IInv
  <1>1. Init => IInv
    BY InitInv
  <1>2. IInv /\ [Next]_vars => IInv'
    BY NextInv
  <1> QED
    BY <1>1, <1>2, PTL DEF Spec

\* The values of the variables; in particular the worker tasks of a stage are
\* never more than the tokens of the limiter, and no result comes twice.
THEOREM TypeCorrect == Spec => []TypeOK
  <1>1. ASSUME IInv
        PROVE  TypeOK
    <2> USE DEF IInv
    <2>1. \A s \in Stages : Busy(s) \in 0..TotalTokens
      <3> SUFFICES ASSUME NEW s \in Stages
                   PROVE  Busy(s) \in 0..TotalTokens
        OBVIOUS
      <3>1. Busy(s) \in Nat /\ Busy(s) <= Total(Tokens) /\ Total(Tokens) \in Nat
        BY <1>1, NumberTypes
      <3>2. Total(Tokens) <= TotalTokens
        BY <1>1, NumberTypes, PipelineAssumption DEF TokenInv
      <3> QED
        BY <3>1, <3>2, PipelineAssumption
    <2>2. produced \in 0..NumItems /\ delivered \in 0..NumItems
      <3>1. produced \in Nat /\ delivered \in Nat /\ produced <= NumItems
        BY <1>1 DEF VarTypes, ProducedInv
      <3>2. delivered <= produced
        BY <1>1, <3>1, NumberTypes DEF ItemsInv
      <3> QED
        BY <3>1, <3>2, PipelineAssumption
    <2> QED
      BY <1>1, <2>1, <2>2 DEF TypeOK, VarTypes, LoopPlaces
  <1> QED
    BY <1>1, Invariant, PTL

\* As long as nothing is cancelled, an item that was handed over and not
\* delivered is in one of the stages or on its way to the consumer.
THEOREM NoItemIsLost ==
  Spec => [](Normal => produced = delivered + AtConsumer + InPipe)
  <1>1. IInv => (Normal => produced = delivered + AtConsumer + InPipe)
    BY DEF IInv, ItemsInv
  <1> QED
    BY <1>1, Invariant, PTL

\* Backpressure: the pipeline never holds as many items as there are tokens and
\* stages, whatever the order in which the tasks of a batch run.
THEOREM PipelineHoldsBack == Spec => []Backpressure
  <1>1. Init => IInv /\ Backpressure
    <2>1. Init => produced = 0 /\ delivered = 0
      BY DEF Init
    <2>2. 0 - 0 < TotalTokens + NumStages
      BY PipelineAssumption
    <2> QED
      BY <2>1, <2>2, InitInv DEF Backpressure
  <1>2. IInv /\ Backpressure /\ [Next]_vars => IInv' /\ Backpressure'
    BY NextInv, BackpressureStep
  <1> QED
    BY <1>1, <1>2, PTL DEF Spec

\* The consumer's async for does not end before it has had every result.
THEOREM EndAlwaysComplete == Spec => []EndIsComplete
  <1>1. ASSUME IInv, Normal, consumer = "done"
        PROVE  delivered = NumItems
    <2> USE DEF IInv
    <2>1. loop[NumStages] = "closed"
      BY <1>1 DEF EndInv, Normal
    <2>2. gen = "done" /\ \A s \in Stages : loop[s] = "closed"
      <3>1. gen = "done" /\ \A s \in Stages : s < NumStages => loop[s] = "closed"
        BY <1>1, <2>1, Names DEF EndInv
      <3>2. \A s \in Stages : s < NumStages \/ s = NumStages
        BY PipelineAssumption DEF Stages
      <3> QED
        BY <2>1, <3>1, <3>2
    <2>3. produced = NumItems
      BY <1>1, <2>2 DEF ProducedInv, Normal
    <2>4. \A s \in Stages : Items[s] = 0
      <3> SUFFICES ASSUME NEW s \in Stages
                   PROVE  Items[s] = 0
        OBVIOUS
      <3>1. computing[s] \in Nat /\ sending[s] \in Nat /\ sent[s] \in Nat
        BY <1>1 DEF VarTypes
      <3>2. computing[s] + sending[s] + sent[s] = 0
        BY <1>1, <2>2 DEF EndInv, Busy
      <3>3. computing[s] = 0 /\ sending[s] = 0
        <4>1. \A a, b, c \in Nat : a + b + c = 0 => a = 0 /\ b = 0
          OBVIOUS
        <4> QED
          BY <3>1, <3>2, <4>1
      <3> QED
        BY <2>2, <3>3 DEF Items, InLoop
    <2>5. InPipe = 0
      BY <1>1, <2>4, SumZero, NumberTypes
    <2>6. AtConsumer = 0 /\ delivered \in Nat
      BY <1>1 DEF AtConsumer, VarTypes
    <2> QED
      BY <1>1, <2>3, <2>5, <2>6 DEF ItemsInv
  <1>2. IInv => EndIsComplete
    BY <1>1 DEF EndIsComplete, Normal
  <1> QED
    BY <1>2, Invariant, PTL
=============================================================================

------------------------- MODULE DefaultContextProofs -------------------------
(***************************************************************************)
(* Theorems about DefaultContext, for every number of tasks, runs, scopes   *)
(* and contexts, on POSIX and on Windows.                                  *)
(***************************************************************************)
EXTENDS DefaultContext, SequenceTheorems, WellFoundedInduction, TLAPS

\* The kinds of frames and what they hold.
Frame == [kind : {"scope", "nursery"}, ctx : ContextOrNone]

\* The frames that are open, each as a task, a depth and a context.
Opened(kind) ==
  {f \in Tasks \X (1..MaxFrames) \X ContextOrNone :
     /\ f[2] <= Len(frames[f[1]])
     /\ frames[f[1]][f[2]] = [kind |-> kind, ctx |-> f[3]]}
Scopes == Opened("scope")
Nurseries == Opened("nursery")

Alive(t) == at[t] # "absent"
Handled == Range(handlers)   \* the contexts that have a handler

\* Types.
VarTypes ==
  /\ platform \in Platforms
  /\ at \in [Tasks -> {"absent", "idle", "found", "running", "closing"}]
  /\ run \in [Tasks -> Tasks \cup {NoTask}]
  /\ value \in [Tasks -> ContextOrNone] /\ uses \in [Tasks -> ContextOrNone]
  /\ state \in [Contexts -> {"open", "closing", "closed"}]
  /\ workers \subseteq Contexts /\ default \in ContextOrNone
  /\ runctx \in [Tasks -> ContextOrNone] /\ closers \in [Tasks -> SUBSET Contexts]
  /\ ending \subseteq Tasks /\ phase \in {"up", "exiting", "down"}
  /\ configuring \in BOOLEAN

StackTypes ==
  /\ frames \in [Tasks -> Seq(Frame)]
  /\ \A t \in Tasks : Len(frames[t]) <= MaxFrames

ParentType == parent \in [Tasks -> [task : Tasks \cup {NoTask}, depth : 0..MaxFrames]]

\* A context is used from the moment it is found until the call is over, and a
\* task that has ended has nothing open.
UsesInv ==
  \A t \in Tasks : /\ uses[t] # NoContext <=> at[t] \in {"found", "running", "closing"}
                   /\ ~Alive(t) => frames[t] = <<>> /\ value[t] = NoContext

\* Every living task belongs to a run that is not ending.
LifeInv ==
  /\ \A t \in Tasks : run[t] # NoTask => run[run[t]] = run[t]
  /\ \A t \in Tasks : ~Alive(t) => run[t] \in {t, NoTask}
  /\ \A t \in Tasks : run[t] = t => value[t] = NoContext
  /\ \A t \in Tasks : t \in ending <=> run[t] = t /\ ~Alive(t)
  /\ \A t \in Tasks : Alive(t) => run[t] # NoTask /\ run[t] \notin ending

\* A task that is not the main task of its run belongs to an open nursery of a
\* living task of the same run, and has the value of that nursery.
TreeInv ==
  \A t \in Tasks : Alive(t) /\ run[t] # t =>
    /\ parent[t].task \in Tasks
    /\ Alive(parent[t].task) /\ run[parent[t].task] = run[t]
    /\ <<parent[t].task, parent[t].depth, value[t]>> \in Nurseries

\* No task is its own ancestor: parents have lower ranks.
RankInv ==
  \E rank \in [Tasks -> Nat] :
    \A t \in Tasks : Alive(t) /\ run[t] # t => rank[parent[t].task] < rank[t]

\* The context of an open scope is open and belongs to nothing else.
ScopeInv ==
  /\ \A t \in Tasks, i \in 1..MaxFrames, c \in ContextOrNone :
       <<t, i, c>> \in Scopes =>
         /\ c \in Contexts /\ state[c] = "open" /\ c \notin Handled
         /\ \A r \in Tasks : c \notin closers[r]
         /\ \A u \in Tasks : at[u] = "closing" => uses[u] # c
  /\ \A t, u \in Tasks, i, j \in 1..MaxFrames, c \in ContextOrNone :
       <<t, i, c>> \in Scopes /\ <<u, j, c>> \in Scopes => t = u /\ i = j

\* A nursery has the value of a scope below it in its task, or that which its
\* task has inherited; and that is the value of some open scope.
ValueInv ==
  /\ \A t \in Tasks, i \in 1..MaxFrames, c \in Contexts :
       <<t, i, c>> \in Nurseries =>
         c = value[t] \/ \E k \in 1..MaxFrames : k < i /\ <<t, k, c>> \in Scopes
  /\ \A t \in Tasks : value[t] # NoContext =>
       \E o \in Tasks, k \in 1..MaxFrames : <<o, k, value[t]>> \in Scopes

\* The context that a task closes is closing, and belongs to nothing else.
ClosingInv ==
  /\ \A t \in Tasks : at[t] = "closing" =>
       /\ uses[t] \in Contexts /\ state[uses[t]] = "closing" /\ uses[t] \notin Handled
       /\ \A r \in Tasks : uses[t] \notin closers[r]
  /\ \A t, u \in Tasks :
       at[t] = "closing" /\ at[u] = "closing" /\ uses[t] = uses[u] => t = u

\* multiprocessing's handler was registered first, and the others are those of
\* contexts.
HandlerInv ==
  /\ handlers \in Seq(ContextOrNone)
  /\ handlers # <<>> /\ handlers[1] = NoContext
  /\ \A i \in 2..Len(handlers) : handlers[i] # NoContext

\* On POSIX the default context has a handler, and none of those is closed.
DefaultInv ==
  /\ \A c \in Contexts : c \in Handled => state[c] = "open"
  /\ platform = "posix" /\ phase = "up" => default \in Contexts /\ default \in Handled
  /\ configuring => phase = "up"
  /\ phase # "up" => \A t \in Tasks : run[t] = NoTask

\* The context of a run is open while the run lasts, and one of those that its
\* system tasks will close.
RunInv ==
  /\ \A r \in Tasks : run[r] # r => runctx[r] = NoContext /\ closers[r] = {}
  /\ \A r \in Tasks \ ending :
       /\ \A c \in closers[r] : state[c] = "open"
       /\ runctx[r] # NoContext => runctx[r] \in closers[r]
  /\ \A r \in Tasks : closers[r] \cap Handled = {}
  /\ \A r, q \in Tasks : r # q => closers[r] \cap closers[q] = {}

\* A call uses the value of its task, a default context, or that of its run.
CallInv ==
  \A t \in Tasks : at[t] \in {"found", "running"} =>
    uses[t] = ScopeOf(t) \/ uses[t] \in Handled \/ uses[t] = runctx[run[t]]

\* Workers are those of a context that something will still close.
CloserInv ==
  \A c \in workers :
    \/ c \in Handled
    \/ \E r \in Tasks : c \in closers[r]
    \/ \E t \in Tasks : at[t] = "closing" /\ uses[t] = c
    \/ \E t \in Tasks, i \in 1..MaxFrames : <<t, i, c>> \in Scopes

IInv ==
  /\ VarTypes /\ StackTypes /\ ParentType /\ UsesInv /\ LifeInv /\ TreeInv /\ RankInv
  /\ ScopeInv /\ ValueInv /\ ClosingInv /\ HandlerInv /\ DefaultInv /\ RunInv /\ CallInv
  /\ CloserInv /\ ExitIsGraceful

-----------------------------------------------------------------------------
(***************************************************************************)
(* Frames, and the sets of open scopes and nurseries.                      *)
(***************************************************************************)

\* Sequences over one set, whatever it is.
LEMMA SeqFacts ==
  ASSUME NEW S, NEW s \in Seq(S)
  PROVE  /\ Len(s) \in Nat /\ (s = <<>> <=> Len(s) = 0)
         /\ \A i \in 1..Len(s) : s[i] \in S
         /\ \A e \in S : /\ Append(s, e) \in Seq(S)
                         /\ Len(Append(s, e)) = Len(s) + 1
                         /\ Append(s, e)[Len(s) + 1] = e
                         /\ \A i \in 1..Len(s) : Append(s, e)[i] = s[i]
         /\ s # <<>> => /\ Front(s) \in Seq(S)
                        /\ Len(Front(s)) = Len(s) - 1
                        /\ \A i \in 1..(Len(s) - 1) : Front(s)[i] = s[i]
                        /\ Last(s) = s[Len(s)]
  <1>1. /\ Len(s) \in Nat /\ (s = <<>> <=> Len(s) = 0)
        /\ \A i \in 1..Len(s) : s[i] \in S
    OBVIOUS
  <1>2. ASSUME NEW e \in S
        PROVE  /\ Append(s, e) \in Seq(S) /\ Len(Append(s, e)) = Len(s) + 1
               /\ Append(s, e)[Len(s) + 1] = e
               /\ \A i \in 1..Len(s) : Append(s, e)[i] = s[i]
    OBVIOUS
  <1>3. ASSUME s # <<>>
        PROVE  /\ Front(s) \in Seq(S) /\ Len(Front(s)) = Len(s) - 1
               /\ \A i \in 1..(Len(s) - 1) : Front(s)[i] = s[i]
    <2>1. PICK n \in Nat : Len(s) = n + 1
      BY <1>1, <1>3
    <2>2. /\ SubSeq(s, 1, n) \in Seq(S) /\ Len(SubSeq(s, 1, n)) = n
          /\ \A i \in 1..n : SubSeq(s, 1, n)[i] = s[i]
      BY <2>1
    <2>3. n = Len(s) - 1
      BY <2>1
    <2> QED
      BY <2>2, <2>3 DEF Front
  <1> QED
    BY <1>1, <1>2, <1>3 DEF Last

\* The frames of a task.
LEMMA StackFacts ==
  ASSUME StackTypes, NEW t \in Tasks
  PROVE  /\ frames[t] \in Seq(Frame) /\ Len(frames[t]) \in 0..MaxFrames
         /\ (frames[t] = <<>> <=> Len(frames[t]) = 0)
         /\ \A i \in 1..Len(frames[t]) : /\ frames[t][i] \in Frame
                                         /\ i \in 1..MaxFrames
                                         /\ frames[t][i].ctx \in ContextOrNone
                                         /\ frames[t][i].kind \in {"scope", "nursery"}
  <1>1. frames[t] \in Seq(Frame) /\ Len(frames[t]) <= MaxFrames
    BY DEF StackTypes
  <1>2. \A f \in Frame : f.kind \in {"scope", "nursery"} /\ f.ctx \in ContextOrNone
    BY DEF Frame
  <1> QED
    BY <1>1, <1>2, SeqFacts, DefaultContextAssumption

\* What it means that a frame is open, in this state or in the next.
LEMMA OpenedMeans ==
  ASSUME NEW fs \in [Tasks -> Seq(Frame)], NEW kind \in {"scope", "nursery"},
         NEW t \in Tasks, NEW i \in 1..MaxFrames, NEW c \in ContextOrNone
  PROVE  <<t, i, c>> \in {f \in Tasks \X (1..MaxFrames) \X ContextOrNone :
                          /\ f[2] <= Len(fs[f[1]])
                          /\ fs[f[1]][f[2]] = [kind |-> kind, ctx |-> f[3]]}
           <=> i <= Len(fs[t]) /\ fs[t][i].kind = kind /\ fs[t][i].ctx = c
  <1>1. i <= Len(fs[t]) => fs[t][i] \in Frame
    BY SeqFacts, DefaultContextAssumption
  <1>2. ASSUME NEW f \in Frame
        PROVE  f = [kind |-> kind, ctx |-> c] <=> f.kind = kind /\ f.ctx = c
    BY DEF Frame
  <1> QED
    BY <1>1, <1>2

LEMMA OpenedFacts ==
  ASSUME StackTypes, NEW kind \in {"scope", "nursery"},
         NEW t \in Tasks, NEW i \in 1..MaxFrames, NEW c \in ContextOrNone
  PROVE  <<t, i, c>> \in Opened(kind) <=>
           i <= Len(frames[t]) /\ frames[t][i].kind = kind /\ frames[t][i].ctx = c
  BY OpenedMeans DEF Opened, StackTypes

LEMMA OpenedNext ==
  ASSUME StackTypes', NEW kind \in {"scope", "nursery"},
         NEW t \in Tasks, NEW i \in 1..MaxFrames, NEW c \in ContextOrNone
  PROVE  <<t, i, c>> \in Opened(kind)' <=>
           i <= Len(frames'[t]) /\ frames'[t][i].kind = kind /\ frames'[t][i].ctx = c
  BY OpenedMeans DEF Opened, StackTypes

\* No frame is two things, and its depth is within its task's stack.
LEMMA FrameFacts ==
  ASSUME StackTypes, NEW t \in Tasks, NEW i \in 1..MaxFrames, NEW c \in ContextOrNone
  PROVE  /\ <<t, i, c>> \in Scopes => i <= Len(frames[t])
         /\ <<t, i, c>> \in Nurseries => i <= Len(frames[t])
         /\ \A d \in ContextOrNone :
              /\ ~(<<t, i, c>> \in Scopes /\ <<t, i, d>> \in Nurseries)
              /\ <<t, i, c>> \in Scopes /\ <<t, i, d>> \in Scopes => c = d
  BY OpenedFacts DEF Scopes, Nurseries

\* The value of the tree variable in a task is that of its innermost frame.
LEMMA ScopeOfFacts ==
  ASSUME VarTypes, StackTypes, NEW t \in Tasks
  PROVE  /\ ScopeOf(t) \in ContextOrNone
         /\ frames[t] = <<>> => ScopeOf(t) = value[t]
         /\ frames[t] # <<>> =>
              /\ Len(frames[t]) \in 1..MaxFrames
              /\ <<t, Len(frames[t]), ScopeOf(t)>> \in Scopes \cup Nurseries
  <1>1. CASE frames[t] = <<>>
    BY <1>1 DEF ScopeOf, VarTypes
  <1>2. CASE frames[t] # <<>>
    <2>1. Len(frames[t]) \in 1..MaxFrames /\ Len(frames[t]) \in 1..Len(frames[t])
      BY <1>2, StackFacts, DefaultContextAssumption
    <2>2. ScopeOf(t) = frames[t][Len(frames[t])].ctx
      BY <1>2 DEF ScopeOf, Last
    <2> QED
      BY <1>2, <2>1, <2>2, StackFacts, OpenedFacts DEF Scopes, Nurseries
  <1> QED
    BY <1>1, <1>2

\* A frame is pushed on the stack of task t.
Pushed(t, kind, c) ==
  /\ StackTypes'
  /\ \A u \in Tasks \ {t} : frames'[u] = frames[u]
  /\ Len(frames[t]) + 1 \in 1..MaxFrames
  /\ \A u \in Tasks, i \in 1..MaxFrames, d \in ContextOrNone :
       /\ <<u, i, d>> \in Scopes' <=>
            \/ <<u, i, d>> \in Scopes
            \/ kind = "scope" /\ u = t /\ i = Len(frames[t]) + 1 /\ d = c
       /\ <<u, i, d>> \in Nurseries' <=>
            \/ <<u, i, d>> \in Nurseries
            \/ kind = "nursery" /\ u = t /\ i = Len(frames[t]) + 1 /\ d = c

LEMMA PushFacts ==
  ASSUME StackTypes, NEW t \in Tasks, NEW kind \in {"scope", "nursery"},
         NEW c \in ContextOrNone, Len(frames[t]) < MaxFrames,
         frames' = [frames EXCEPT ![t] = Append(@, [kind |-> kind, ctx |-> c])]
  PROVE  Pushed(t, kind, c)
  <1> DEFINE f == [kind |-> kind, ctx |-> c]
             n == Len(frames[t])
  <1>1. f \in Frame /\ f.kind = kind /\ f.ctx = c
    BY DEF Frame
  <1> HIDE DEF f
  <1>2. /\ frames \in [Tasks -> Seq(Frame)] /\ frames' = [frames EXCEPT ![t] = Append(@, f)]
        /\ frames[t] \in Seq(Frame) /\ n \in Nat
    BY DEF StackTypes, f
  <1>3. /\ frames'[t] \in Seq(Frame) /\ Len(frames'[t]) = n + 1 /\ frames'[t][n + 1] = f
        /\ \A i \in 1..n : frames'[t][i] = frames[t][i]
    <2>1. frames'[t] = Append(frames[t], f)
      BY <1>2
    <2> QED
      BY <1>1, <1>2, <2>1, SeqFacts
  <1>4. \A u \in Tasks \ {t} : frames'[u] = frames[u]
    BY <1>2
  <1>5. StackTypes' /\ n + 1 \in 1..MaxFrames
    <2>1. frames' \in [Tasks -> Seq(Frame)]
      BY <1>2, <1>3
    <2> QED
      BY <1>2, <1>3, <1>4, <2>1, DefaultContextAssumption DEF StackTypes
  <1>6. ASSUME NEW k \in {"scope", "nursery"}, NEW u \in Tasks, NEW i \in 1..MaxFrames,
               NEW d \in ContextOrNone
        PROVE  <<u, i, d>> \in Opened(k)' <=>
                 <<u, i, d>> \in Opened(k) \/ (kind = k /\ u = t /\ i = n + 1 /\ d = c)
    <2>1. <<u, i, d>> \in Opened(k)' <=>
            i <= Len(frames'[u]) /\ frames'[u][i].kind = k /\ frames'[u][i].ctx = d
      BY <1>5, OpenedNext
    <2> QED
      BY <1>1, <1>2, <1>3, <1>4, <2>1, OpenedFacts
  <1> QED
    BY <1>4, <1>5, <1>6 DEF Pushed, Scopes, Nurseries

\* The innermost frame of task t is popped.
Popped(t) ==
  /\ StackTypes'
  /\ \A u \in Tasks \ {t} : frames'[u] = frames[u]
  /\ \A u \in Tasks, i \in 1..MaxFrames, d \in ContextOrNone :
       /\ <<u, i, d>> \in Scopes' <=>
            <<u, i, d>> \in Scopes /\ ~(u = t /\ i = Len(frames[t]))
       /\ <<u, i, d>> \in Nurseries' <=>
            <<u, i, d>> \in Nurseries /\ ~(u = t /\ i = Len(frames[t]))

LEMMA PopFacts ==
  ASSUME StackTypes, NEW t \in Tasks, frames[t] # <<>>,
         frames' = [frames EXCEPT ![t] = Front(@)]
  PROVE  /\ Popped(t) /\ Len(frames[t]) \in 1..MaxFrames
         /\ Last(frames[t]).ctx \in ContextOrNone
         /\ \A k \in {"scope", "nursery"} : Last(frames[t]).kind = k =>
              <<t, Len(frames[t]), Last(frames[t]).ctx>> \in Opened(k)
  <1> DEFINE n == Len(frames[t])
  <1>1. /\ frames \in [Tasks -> Seq(Frame)] /\ frames[t] \in Seq(Frame)
        /\ n \in 1..MaxFrames /\ n \in 1..n
    BY StackFacts, DefaultContextAssumption DEF StackTypes
  <1>2. /\ frames'[t] \in Seq(Frame) /\ Len(frames'[t]) = n - 1
        /\ \A i \in 1..(n - 1) : frames'[t][i] = frames[t][i]
        /\ Last(frames[t]) = frames[t][n]
    <2>1. frames'[t] = Front(frames[t])
      BY <1>1
    <2> QED
      BY <1>1, <2>1, SeqFacts
  <1>3. \A u \in Tasks \ {t} : frames'[u] = frames[u]
    BY <1>1
  <1>4. StackTypes'
    <2>1. frames' \in [Tasks -> Seq(Frame)]
      BY <1>1, <1>2
    <2> QED
      BY <1>1, <1>2, <1>3, <2>1, DefaultContextAssumption DEF StackTypes
  <1>5. ASSUME NEW k \in {"scope", "nursery"}, NEW u \in Tasks, NEW i \in 1..MaxFrames,
               NEW d \in ContextOrNone
        PROVE  <<u, i, d>> \in Opened(k)' <=>
                 <<u, i, d>> \in Opened(k) /\ ~(u = t /\ i = n)
    <2>1. <<u, i, d>> \in Opened(k)' <=>
            i <= Len(frames'[u]) /\ frames'[u][i].kind = k /\ frames'[u][i].ctx = d
      BY <1>4, OpenedNext
    <2> QED
      BY <1>1, <1>2, <1>3, <2>1, OpenedFacts
  <1>6. /\ Last(frames[t]).ctx \in ContextOrNone
        /\ \A k \in {"scope", "nursery"} : Last(frames[t]).kind = k =>
             <<t, n, Last(frames[t]).ctx>> \in Opened(k)
    BY <1>1, <1>2, StackFacts, OpenedFacts
  <1> QED
    BY <1>1, <1>3, <1>4, <1>5, <1>6 DEF Popped, Scopes, Nurseries

\* What the other actions leave alone.
LEMMA SameFrames ==
  ASSUME UNCHANGED frames
  PROVE  /\ UNCHANGED <<Scopes, Nurseries>>
         /\ StackTypes => StackTypes'
  BY DEF Scopes, Nurseries, Opened, StackTypes

LEMMA SameHandlers ==
  ASSUME UNCHANGED handlers
  PROVE  /\ UNCHANGED Handled
         /\ HandlerInv => HandlerInv'
  BY DEF Handled, HandlerInv

\* A context that nothing refers to.
Fresh(c) ==
  /\ c \in Contexts /\ c # NoContext /\ c # default /\ c \notin Handled
  /\ \A t \in Tasks : /\ uses[t] # c /\ value[t] # c /\ runctx[t] # c
                      /\ c \notin closers[t]
                      /\ \A i \in 1..MaxFrames : /\ <<t, i, c>> \notin Scopes
                                                 /\ <<t, i, c>> \notin Nurseries

LEMMA FreshFacts ==
  ASSUME VarTypes, StackTypes, NEW c \in Contexts \ Referenced
  PROVE  Fresh(c)
  <1>1. c # NoContext /\ c \in ContextOrNone
    BY DefaultContextAssumption DEF ContextOrNone
  <1>0. /\ c \notin {uses[t] : t \in Tasks} /\ c \notin {value[t] : t \in Tasks}
        /\ c # default /\ c \notin Range(handlers) /\ c \notin Range(runctx)
        /\ \A t \in Tasks : c \notin {frames[t][i].ctx : i \in DOMAIN frames[t]}
        /\ \A S \in Range(closers) : c \notin S
    <2>1. {uses[t] : t \in Tasks} \subseteq Referenced /\ {value[t] :
          t \in Tasks} \subseteq Referenced
      BY Zenon DEF Referenced
    <2>2. default \in Referenced
      BY Zenon DEF Referenced
    <2>3. Range(handlers) \subseteq Referenced /\ Range(runctx) \subseteq Referenced
      BY Zenon DEF Referenced
    <2>4. ASSUME NEW t \in Tasks
          PROVE  {frames[t][i].ctx : i \in DOMAIN frames[t]} \subseteq Referenced
      <3> DEFINE S == {{frames[u][i].ctx : i \in DOMAIN frames[u]} : u \in Tasks}
      <3>1. {frames[t][i].ctx : i \in DOMAIN frames[t]} \in S
        BY Zenon
      <3>2. UNION S \subseteq Referenced
        BY Zenon DEF Referenced
      <3> HIDE DEF S
      <3> QED
        BY <3>1, <3>2
    <2>5. UNION Range(closers) \subseteq Referenced
      BY Zenon DEF Referenced
    <2> QED
      BY <2>1, <2>2, <2>3, <2>4, <2>5
  <1>2. /\ c # default /\ c \notin Handled
        /\ \A t \in Tasks : uses[t] # c /\ value[t] # c
    BY <1>0 DEF Handled
  <1>3. ASSUME NEW t \in Tasks
        PROVE  runctx[t] # c /\ c \notin closers[t]
    <2>1. runctx[t] \in Range(runctx) /\ closers[t] \in Range(closers)
      BY DEF VarTypes, Range
    <2> QED
      BY <1>0, <2>1
  <1>4. ASSUME NEW t \in Tasks, NEW i \in 1..MaxFrames, i <= Len(frames[t])
        PROVE  frames[t][i].ctx # c
    <2>1. i \in DOMAIN frames[t]
      BY <1>4, StackFacts, DefaultContextAssumption
    <2>2. frames[t][i].ctx \in {frames[t][j].ctx : j \in DOMAIN frames[t]}
      BY <2>1
    <2> QED
      BY <1>0, <2>2
  <1> QED
    BY <1>1, <1>2, <1>3, <1>4, OpenedFacts DEF Fresh, Scopes, Nurseries

(***************************************************************************)
(* The tree of tasks.                                                      *)
(***************************************************************************)

\* A set of natural numbers has a least element.
LEMMA LeastNatural ==
  ASSUME NEW S \in SUBSET Nat, S # {}
  PROVE  \E n \in S : \A m \in S : n <= m
  <1>1. PICK n \in S : \A m \in S : <<m, n>> \notin {ss \in Nat \X Nat : ss[1] < ss[2]}
    BY NatLessThanWellFounded, WFMin, Zenon DEF OpToRel
  <1>2. \A m \in S : ~(m < n)
    BY <1>1
  <1> QED
    BY <1>2

\* Of any tasks that are alive and not the main task of their run, there is one
\* whose parent is not one of them.
LEMMA TopmostTask ==
  ASSUME RankInv, NEW S \in SUBSET Tasks, S # {},
         \A t \in S : Alive(t) /\ run[t] # t
  PROVE  \E t \in S : parent[t].task \notin S
  <1>1. PICK rank \in [Tasks -> Nat] :
          \A t \in Tasks : Alive(t) /\ run[t] # t => rank[parent[t].task] < rank[t]
    BY DEF RankInv
  <1>2. PICK n \in {rank[t] : t \in S} : \A m \in {rank[t] : t \in S} : n <= m
    <2>1. {rank[t] : t \in S} \in SUBSET Nat /\ {rank[t] : t \in S} # {}
      BY <1>1
    <2> QED
      BY <2>1, LeastNatural
  <1>3. PICK t \in S : n = rank[t]
    BY <1>2
  <1>4. ASSUME parent[t].task \in S
        PROVE  FALSE
    <2>1. rank[parent[t].task] < rank[t] /\ rank[t] <= rank[parent[t].task]
      BY <1>1, <1>2, <1>3, <1>4
    <2>2. rank[parent[t].task] \in Nat /\ rank[t] \in Nat
      BY <1>1, <1>3, <1>4
    <2> QED
      BY <2>1, <2>2
  <1> QED
    BY <1>3, <1>4

\* The parent of a task has a nursery open.
LEMMA ParentFacts ==
  ASSUME StackTypes, TreeInv, NEW t \in Tasks, Alive(t), run[t] # t
  PROVE  /\ parent[t].task \in Tasks /\ frames[parent[t].task] # <<>>
         /\ parent[t].depth \in 1..MaxFrames /\ value[t] \in ContextOrNone
         /\ parent[t].depth <= Len(frames[parent[t].task])
  <1>1. parent[t].task \in Tasks /\ <<parent[t].task, parent[t].depth, value[t]>> \in Nurseries
    BY DEF TreeInv
  <1>2. /\ parent[t].depth \in 1..MaxFrames /\ value[t] \in ContextOrNone
        /\ parent[t].depth <= Len(frames[parent[t].task])
    BY <1>1 DEF Nurseries, Opened
  <1> QED
    BY <1>1, <1>2, StackFacts, DefaultContextAssumption

\* When a main task has nothing open, no other task of its run is alive.
LEMMA RunIsEmpty ==
  ASSUME StackTypes, TreeInv, RankInv, NEW r \in Tasks, run[r] = r, frames[r] = <<>>,
         NEW t \in Tasks, Alive(t), run[t] = r
  PROVE  t = r
  <1> DEFINE S == {u \in Tasks : Alive(u) /\ run[u] = r /\ u # r}
  <1> SUFFICES ASSUME S # {}
               PROVE  FALSE
    OBVIOUS
  <1>1. PICK u \in S : parent[u].task \notin S
    BY TopmostTask
  <1>2. parent[u].task = r
    BY <1>1 DEF TreeInv
  <1> QED
    BY <1>2, ParentFacts

\* A scope that is the innermost frame of its task: no other frame and no task
\* has its context.
LEMMA OnlyHolder ==
  ASSUME StackTypes, UsesInv, LifeInv, TreeInv, RankInv, ScopeInv, ValueInv,
         NEW t \in Tasks, NEW c \in Contexts, frames[t] # <<>>,
         <<t, Len(frames[t]), c>> \in Scopes
  PROVE  /\ \A u \in Tasks : value[u] # c
         /\ \A u \in Tasks, i \in 1..MaxFrames :
              /\ <<u, i, c>> \notin Nurseries
              /\ <<u, i, c>> \in Scopes => u = t /\ i = Len(frames[t])
  <1> DEFINE n == Len(frames[t])
             S == {u \in Tasks : value[u] = c}
  <1>1. c # NoContext /\ c \in ContextOrNone /\ n \in 1..MaxFrames
    BY StackFacts, DefaultContextAssumption DEF ContextOrNone
  <1>2. \A u \in Tasks, i \in 1..MaxFrames : <<u, i, c>> \in Scopes => u = t /\ i = n
    BY <1>1 DEF ScopeInv
  <1>3. ASSUME NEW u \in Tasks, NEW i \in 1..MaxFrames, <<u, i, c>> \in Nurseries
        PROVE  u \in S
    <2>1. ASSUME NEW k \in 1..MaxFrames, k < i, <<u, k, c>> \in Scopes
          PROVE  FALSE
      <3>1. u = t /\ k = n
        BY <2>1, <1>2
      <3>2. i <= n
        BY <1>1, <1>3, <3>1, FrameFacts
      <3> QED
        BY <2>1, <3>1, <3>2
    <2> QED
      BY <2>1, <1>3 DEF ValueInv
  <1>4. S = {}
    <2> SUFFICES ASSUME S # {}
                 PROVE  FALSE
      OBVIOUS
    <2>1. \A u \in S : Alive(u) /\ run[u] # u
      BY <1>1 DEF LifeInv, UsesInv
    <2>2. PICK u \in S : parent[u].task \notin S
      BY <2>1, TopmostTask
    <2>3. parent[u].task \in Tasks /\ <<parent[u].task, parent[u].depth, c>> \in Nurseries
      BY <2>1, <2>2 DEF TreeInv
    <2> QED
      BY <1>3, <2>1, <2>2, <2>3, ParentFacts
  <1> QED
    BY <1>2, <1>3, <1>4

\* The context of a call is open, and something will close it.
LEMMA CallFacts ==
  ASSUME VarTypes, StackTypes, UsesInv, LifeInv, ScopeInv, ValueInv, DefaultInv, RunInv, CallInv,
         NEW t \in Tasks, at[t] \in {"found", "running"}
  PROVE  /\ uses[t] \in Contexts /\ state[uses[t]] = "open"
         /\ \/ uses[t] \in Handled
            \/ \E r \in Tasks : uses[t] \in closers[r]
            \/ \E u \in Tasks, i \in 1..MaxFrames : <<u, i, uses[t]>> \in Scopes
  <1>1. uses[t] \in Contexts
    BY DEF UsesInv, VarTypes, ContextOrNone
  <1>2. CASE uses[t] \in Handled
    BY <1>1, <1>2 DEF DefaultInv
  <1>3. CASE uses[t] = runctx[run[t]]
    <2>1. run[t] \in Tasks \ ending
      BY DEF LifeInv, Alive, VarTypes
    <2> QED
      BY <1>1, <1>3, <2>1, DefaultContextAssumption DEF RunInv
  <1>4. CASE uses[t] = ScopeOf(t)
    <2>1. \E u \in Tasks, i \in 1..MaxFrames : <<u, i, uses[t]>> \in Scopes
      BY <1>1, <1>4, ScopeOfFacts, DefaultContextAssumption DEF ValueInv
    <2> QED
      BY <1>1, <2>1 DEF ScopeInv, ContextOrNone
  <1> QED
    BY <1>2, <1>3, <1>4 DEF CallInv

-----------------------------------------------------------------------------
(***************************************************************************)
(* Every action preserves the invariant.                                   *)
(***************************************************************************)

\* An invariant is preserved when none of its variables changes.
LEMMA SameInv ==
  /\ VarTypes /\ UNCHANGED <<platform, at, run, value, uses, state, workers, default, runctx,
                             closers, ending, phase, configuring>> => VarTypes'
  /\ ParentType /\ UNCHANGED parent => ParentType'
  /\ UsesInv /\ UNCHANGED <<uses, at, frames, value>> => UsesInv'
  /\ LifeInv /\ UNCHANGED <<run, at, value, ending>> => LifeInv'
  /\ TreeInv /\ UNCHANGED <<at, run, parent, value, frames>> => TreeInv'
  /\ RankInv /\ UNCHANGED <<at, run, parent>> => RankInv'
  /\ ScopeInv /\ UNCHANGED <<frames, state, handlers, closers, at, uses>> => ScopeInv'
  /\ ValueInv /\ UNCHANGED <<frames, value>> => ValueInv'
  /\ ClosingInv /\ UNCHANGED <<at, uses, state, handlers, closers>> => ClosingInv'
  /\ DefaultInv /\ UNCHANGED <<handlers, state, platform, phase, default, configuring,
                               run>> => DefaultInv'
  /\ RunInv /\ UNCHANGED <<run, runctx, closers, ending, state, handlers>> => RunInv'
  /\ CallInv /\ UNCHANGED <<at, uses, frames, value, handlers, runctx, run>> => CallInv'
  /\ CloserInv /\ UNCHANGED <<workers, handlers, closers, at, uses, frames>> => CloserInv'
  /\ ExitIsGraceful /\ UNCHANGED <<phase, workers>> => ExitIsGraceful'
  <1>1. VarTypes /\ UNCHANGED <<platform, at, run, value, uses, state, workers, default, runctx,
                                closers, ending, phase, configuring>> => VarTypes'
    BY DEF VarTypes
  <1>2. ParentType /\ UNCHANGED parent => ParentType'
    BY DEF ParentType
  <1>3. UsesInv /\ UNCHANGED <<uses, at, frames, value>> => UsesInv'
    BY DEF UsesInv, Alive
  <1>4. LifeInv /\ UNCHANGED <<run, at, value, ending>> => LifeInv'
    BY DEF LifeInv, Alive
  <1>5. TreeInv /\ UNCHANGED <<at, run, parent, value, frames>> => TreeInv'
    BY DEF TreeInv, Alive, Nurseries, Opened
  <1>6. RankInv /\ UNCHANGED <<at, run, parent>> => RankInv'
    BY DEF RankInv, Alive
  <1>7. ScopeInv /\ UNCHANGED <<frames, state, handlers, closers, at, uses>> => ScopeInv'
    <2>1. ASSUME UNCHANGED <<frames, state, handlers, closers, at, uses>>
          PROVE  UNCHANGED <<Scopes, Nurseries>> /\ UNCHANGED Handled
      BY <2>1, SameFrames, SameHandlers
    <2> QED
      BY <2>1 DEF ScopeInv
  <1>8. ValueInv /\ UNCHANGED <<frames, value>> => ValueInv'
    <2>1. ASSUME UNCHANGED <<frames, value>>
          PROVE  UNCHANGED <<Scopes, Nurseries>>
      BY <2>1, SameFrames
    <2> QED
      BY <2>1 DEF ValueInv
  <1>9. ClosingInv /\ UNCHANGED <<at, uses, state, handlers, closers>> => ClosingInv'
    BY DEF ClosingInv, Handled
  <1>10. DefaultInv /\ UNCHANGED <<handlers, state, platform, phase, default, configuring,
                                   run>> => DefaultInv'
    BY DEF DefaultInv, Handled
  <1>11. RunInv /\ UNCHANGED <<run, runctx, closers, ending, state, handlers>> => RunInv'
    BY DEF RunInv, Handled
  <1>12. CallInv /\ UNCHANGED <<at, uses, frames, value, handlers, runctx, run>> => CallInv'
    BY DEF CallInv, ScopeOf, Handled
  <1>13. CloserInv /\ UNCHANGED <<workers, handlers, closers, at, uses, frames>> => CloserInv'
    BY DEF CloserInv, Scopes, Opened, Handled
  <1>14. ExitIsGraceful /\ UNCHANGED <<phase, workers>> => ExitIsGraceful'
    BY DEF ExitIsGraceful
  <1> QED
    BY <1>1, <1>2, <1>3, <1>4, <1>5, <1>6, <1>7, <1>8, <1>9, <1>10, <1>11, <1>12, <1>13, <1>14

\* g is f with another value for t.
Becomes(f, g, t, v) == g[t] = v /\ \A u \in Tasks \ {t} : g[u] = f[u]

\* A run begins.
LEMMA RunBeginsStep ==
  ASSUME IInv, NEW r \in Tasks, RunBegins(r)
  PROVE  IInv'
  <1> USE DEF IInv
  <1>1. /\ Becomes(at, at', r, "idle") /\ Becomes(run, run', r, r)
        /\ run[r] = NoTask /\ phase = "up"
        /\ UNCHANGED <<platform, parent, value, frames, uses, state, workers, default, handlers,
                       runctx, closers, ending, configuring, phase>>
    BY DEF RunBegins, Becomes, VarTypes, ctxVars, defaultVars, runVars
  <1>2. /\ UNCHANGED <<Scopes, Nurseries>> /\ StackTypes'
        /\ UNCHANGED Handled /\ HandlerInv'
        /\ \A u \in Tasks : ScopeOf(u)' = ScopeOf(u)
    BY <1>1, SameFrames, SameHandlers DEF ScopeOf
  <1>3. /\ ~Alive(r) /\ value[r] = NoContext /\ r \notin ending /\ r # NoTask
        /\ \A u \in Tasks : run[u] # r
    BY <1>1, DefaultContextAssumption DEF LifeInv, UsesInv
  <1>4. VarTypes'
    BY DEF RunBegins, VarTypes, ctxVars, defaultVars, runVars
  <1>5. UsesInv'
    BY <1>1, <1>3 DEF UsesInv, Becomes, Alive
  <1>6. LifeInv'
    BY <1>1, <1>3 DEF LifeInv, Becomes, VarTypes, Alive
  <1>7. TreeInv'
    BY <1>1, <1>2, <1>3 DEF TreeInv, Becomes, Alive
  <1>8. RankInv'
    <2>1. PICK rank \in [Tasks -> Nat] : \A u \in Tasks : Alive(u) /\ run[u] # u =>
          rank[parent[u].task] < rank[u]
      BY DEF RankInv
    <2> QED
      BY <1>1 DEF RankInv, Becomes, Alive
  <1>9. ScopeInv'
    BY <1>1, <1>2 DEF ScopeInv, Becomes
  <1>10. ClosingInv'
    BY <1>1, <1>2 DEF ClosingInv, Becomes
  <1>11. DefaultInv'
    BY <1>1, <1>2 DEF DefaultInv
  <1>12. RunInv'
    BY <1>1, <1>2 DEF RunInv, Becomes
  <1>13. CallInv'
    BY <1>1, <1>2 DEF CallInv, Becomes
  <1>14. CloserInv'
    BY <1>1, <1>2, <1>3 DEF CloserInv, Becomes, Alive
  <1>15. ParentType' /\ ValueInv' /\ ExitIsGraceful'
    BY <1>1, SameInv
  <1> QED
    BY <1>2, <1>4, <1>5, <1>6, <1>7, <1>8, <1>9, <1>10, <1>11, <1>12, <1>13, <1>14, <1>15

\* A nursery is opened.
LEMMA OpenNurseryStep ==
  ASSUME IInv, NEW t \in Tasks, OpenNursery(t)
  PROVE  IInv'
  <1> USE DEF IInv
  <1>1. /\ at[t] = "idle" /\ Len(frames[t]) < MaxFrames /\ phase = "up"
        /\ frames' = [frames EXCEPT ![t] = Append(@, [kind |-> "nursery", ctx |-> ScopeOf(t)])]
        /\ UNCHANGED <<platform, at, run, parent, value, uses, state, workers, default, handlers,
                       runctx, closers, ending, configuring, phase>>
    BY DEF OpenNursery, Idle, callVars, ctxVars, defaultVars, runVars
  <1>2. /\ UNCHANGED Handled /\ HandlerInv'
    BY <1>1, SameHandlers
  <1>3. \A u \in Tasks : Alive(u)' = Alive(u)
    BY <1>1 DEF Alive
  <1>4. Pushed(t, "nursery", ScopeOf(t)) /\ ScopeOf(t) \in ContextOrNone
    BY <1>1, PushFacts, ScopeOfFacts
  <1>5. \A u \in Tasks \ {t} : ScopeOf(u)' = ScopeOf(u)
    BY <1>1 DEF ScopeOf
  <1>6. StackTypes'
    BY <1>4 DEF Pushed
  <1>7. UsesInv'
    BY <1>1 DEF UsesInv, Alive
  <1>8. TreeInv'
    BY <1>1, <1>3, <1>4, ParentFacts DEF TreeInv, Pushed
  <1>9. ScopeInv'
    BY <1>1, <1>2, <1>4 DEF ScopeInv, Pushed
  <1>10. ValueInv'
    <2>1. ASSUME NEW c \in Contexts, c = ScopeOf(t)
          PROVE  \/ c = value[t]
                 \/ \E k \in 1..MaxFrames : k < Len(frames[t]) + 1 /\ <<t, k, c>> \in Scopes
      BY <2>1, ScopeOfFacts, StackFacts, DefaultContextAssumption DEF ValueInv, ContextOrNone
    <2>2. \A u \in Tasks : value[u] \in ContextOrNone
      BY DEF VarTypes
    <2> QED
      BY <1>1, <1>4, <1>5, <2>1, <2>2 DEF ValueInv, Pushed, ContextOrNone
  <1>11. CallInv'
    BY <1>1, <1>2, <1>5 DEF CallInv
  <1>12. CloserInv'
    BY <1>1, <1>2, <1>4 DEF CloserInv, Pushed, VarTypes, ContextOrNone
  <1>13. VarTypes' /\ ParentType' /\ LifeInv' /\ RankInv' /\ ClosingInv' /\ DefaultInv'
       /\ RunInv' /\ ExitIsGraceful'
    BY <1>1, SameInv
  <1> QED
    BY <1>2, <1>6, <1>7, <1>8, <1>9, <1>10, <1>11, <1>12, <1>13

\* A nursery is left.
LEMMA CloseNurseryStep ==
  ASSUME IInv, NEW t \in Tasks, CloseNursery(t)
  PROVE  IInv'
  <1> USE DEF IInv
  <1>1. /\ at[t] = "idle" /\ frames[t] # <<>> /\ Last(frames[t]).kind = "nursery"
        /\ Children(t, Len(frames[t])) = {}
        /\ frames' = [frames EXCEPT ![t] = Front(@)]
        /\ UNCHANGED <<platform, at, run, parent, value, uses, state, workers, default, handlers,
                       runctx, closers, ending, configuring, phase>>
    BY DEF CloseNursery, Idle, callVars, ctxVars, defaultVars, runVars
  <1>2. /\ UNCHANGED Handled /\ HandlerInv'
    BY <1>1, SameHandlers
  <1>3. \A u \in Tasks : Alive(u)' = Alive(u)
    BY <1>1 DEF Alive
  <1>4. /\ Popped(t) /\ Len(frames[t]) \in 1..MaxFrames
        /\ \A d \in ContextOrNone : <<t, Len(frames[t]), d>> \notin Scopes
    BY <1>1, PopFacts, FrameFacts DEF Nurseries
  <1>5. \A u \in Tasks \ {t} : ScopeOf(u)' = ScopeOf(u)
    BY <1>1 DEF ScopeOf
  <1>6. StackTypes'
    BY <1>4 DEF Popped
  <1>7. UsesInv'
    BY <1>1 DEF UsesInv, Alive
  <1>8. TreeInv'
    <2>1. ASSUME NEW u \in Tasks, Alive(u), run[u] # u
          PROVE  ~(parent[u].task = t /\ parent[u].depth = Len(frames[t]))
      <3>1. u \notin Children(t, Len(frames[t]))
        BY <1>1
      <3>2. parent[u] # [task |-> t, depth |-> Len(frames[t])]
        BY <2>1, <3>1 DEF Children, Alive
      <3> QED
        BY <3>2 DEF ParentType
    <2> QED
      BY <1>1, <1>3, <1>4, <2>1, ParentFacts DEF TreeInv, Popped
  <1>9. ScopeInv'
    BY <1>1, <1>2, <1>4 DEF ScopeInv, Popped
  <1>10. ValueInv'
    BY <1>1, <1>2, <1>3, <1>4, <1>5 DEF ValueInv, Becomes, Popped, VarTypes, ContextOrNone
  <1>11. CallInv'
    BY <1>1, <1>2, <1>5 DEF CallInv
  <1>12. CloserInv'
    BY <1>1, <1>2, <1>4 DEF CloserInv, Popped, VarTypes, ContextOrNone
  <1>13. VarTypes' /\ ParentType' /\ LifeInv' /\ RankInv' /\ ClosingInv' /\ DefaultInv'
       /\ RunInv' /\ ExitIsGraceful'
    BY <1>1, SameInv
  <1> QED
    BY <1>2, <1>6, <1>7, <1>8, <1>9, <1>10, <1>11, <1>12, <1>13

\* A task starts another one.
LEMMA SpawnStep ==
  ASSUME IInv, NEW s \in Tasks, NEW p \in Tasks, NEW depth \in 1..MaxFrames, NEW child \in Tasks,
         Spawn(s, p, depth, child)
  PROVE  IInv'
  <1> USE DEF IInv
  <1>1. /\ at[s] = "idle" /\ phase = "up" /\ run[child] = NoTask /\ run[p] = run[s]
        /\ depth \in 1..Len(frames[p]) /\ frames[p][depth].kind = "nursery"
        /\ Becomes(at, at', child, "idle") /\ Becomes(run, run', child, run[s])
        /\ Becomes(parent, parent', child, [task |-> p, depth |-> depth])
        /\ Becomes(value, value', child, frames[p][depth].ctx)
        /\ UNCHANGED <<platform, frames, uses, state, workers, default, handlers, runctx, closers,
                       ending, configuring, phase>>
    BY DEF Spawn, Idle, Inherited, Becomes, VarTypes, ParentType, ctxVars, defaultVars, runVars
  <1>2. /\ UNCHANGED <<Scopes, Nurseries>> /\ StackTypes'
        /\ UNCHANGED Handled /\ HandlerInv'
    BY <1>1, SameFrames, SameHandlers
  <1>3. /\ value'[child] \in ContextOrNone
        /\ <<p, depth, value'[child]>> \in Nurseries
    BY <1>1, StackFacts, OpenedFacts DEF Nurseries, Becomes
  <1>4. /\ ~Alive(child) /\ frames[child] = <<>> /\ child \notin ending /\ child # NoTask
        /\ \A u \in Tasks : run[u] # child
        /\ run[s] \in Tasks /\ run[s] \notin ending /\ run[run[s]] = run[s]
        /\ frames[p] # <<>> /\ Alive(p)
        /\ \A i \in 1..MaxFrames, d \in ContextOrNone : <<child, i, d>> \notin Nurseries
    BY <1>1, FrameFacts, DefaultContextAssumption DEF LifeInv, UsesInv, VarTypes
  <1>5. VarTypes'
    BY <1>3 DEF Spawn, VarTypes, ctxVars, defaultVars, runVars
  <1>6. ParentType'
    <2>1. parent'[child] \in [task : Tasks \cup {NoTask}, depth : 0..MaxFrames]
      BY <1>1 DEF Becomes
    <2> QED
      BY DEF ParentType, Spawn
  <1>7. UsesInv'
    BY <1>1, <1>4 DEF UsesInv, Becomes, Alive
  <1>8. LifeInv'
    <2>1. \A u \in Tasks : run'[u] # NoTask => run'[run'[u]] = run'[u]
      BY <1>1 DEF LifeInv, Becomes, VarTypes
    <2>2. \A u \in Tasks : ~Alive(u)' => run'[u] \in {u, NoTask}
      BY <1>1 DEF LifeInv, Becomes, Alive
    <2>3. \A u \in Tasks : run'[u] = u => value'[u] = NoContext
      BY <1>1, <1>4 DEF LifeInv, Becomes
    <2>4. \A u \in Tasks : u \in ending' <=> run'[u] = u /\ ~Alive(u)'
      BY <1>1, <1>4 DEF LifeInv, Becomes, Alive
    <2>5. \A u \in Tasks : Alive(u)' => run'[u] # NoTask /\ run'[u] \notin ending'
      BY <1>1 DEF LifeInv, Becomes, Alive
    <2> QED
      BY <2>1, <2>2, <2>3, <2>4, <2>5 DEF LifeInv
  <1>9. TreeInv'
    <2>1. ASSUME NEW u \in Tasks, Alive(u)', run'[u] # u
          PROVE  /\ parent'[u].task \in Tasks
                 /\ at'[parent'[u].task] # "absent" /\ run'[parent'[u].task] = run'[u]
                 /\ <<parent'[u].task, parent'[u].depth, value'[u]>> \in Nurseries
      <3>1. CASE u = child
        <4>1. parent'[u].task = p /\ parent'[u].depth = depth /\ p # child
          BY <1>1, <1>4, <3>1 DEF Becomes
        <4> QED
          BY <1>1, <1>3, <1>4, <3>1, <4>1 DEF Becomes, Alive
      <3>2. CASE u # child
        <4>1. /\ Alive(u) /\ run[u] # u /\ run'[u] = run[u]
              /\ parent'[u] = parent[u] /\ value'[u] = value[u]
          BY <1>1, <2>1, <3>2 DEF Becomes, Alive
        <4>2. /\ parent[u].task \in Tasks /\ Alive(parent[u].task)
              /\ run[parent[u].task] = run[u]
              /\ <<parent[u].task, parent[u].depth, value[u]>> \in Nurseries
          BY <4>1 DEF TreeInv
        <4>3. parent[u].task # child
          BY <1>4, <4>2
        <4> QED
          BY <1>1, <4>1, <4>2, <4>3 DEF Becomes, Alive
      <3> QED
        BY <3>1, <3>2
    <2> QED
      BY <1>2, <2>1 DEF TreeInv, Alive
  <1>10. RankInv'
    <2>1. PICK rank \in [Tasks -> Nat] : \A u \in Tasks : Alive(u) /\ run[u] # u =>
          rank[parent[u].task] < rank[u]
      BY DEF RankInv
    <2> DEFINE new == [rank EXCEPT ![child] = rank[p] + 1]
    <2>2. new \in [Tasks -> Nat] /\ new[child] = rank[p] + 1 /\ \A u \in Tasks \ {child} :
          new[u] = rank[u]
      OBVIOUS
    <2>3. ASSUME NEW u \in Tasks, Alive(u)', run'[u] # u
          PROVE  new[parent'[u].task] < new[u]
      <3>1. CASE u = child
        BY <1>1, <1>4, <3>1 DEF Becomes
      <3>2. CASE u # child
        <4>1. Alive(u) /\ run[u] # u /\ parent'[u] = parent[u]
          BY <1>1, <2>3, <3>2 DEF Alive, Becomes
        <4>2. parent[u].task \in Tasks \ {child}
          BY <1>4, <4>1 DEF TreeInv
        <4> QED
          BY <2>1, <3>2, <4>1, <4>2
      <3> QED
        BY <3>1, <3>2
    <2> HIDE DEF new
    <2> QED
      BY <2>2, <2>3 DEF RankInv
  <1>11. ScopeInv'
    <2>1. \A u \in Tasks : at'[u] = "closing" => at[u] = "closing"
      BY <1>1 DEF Becomes
    <2> QED
      BY <1>1, <1>2, <2>1 DEF ScopeInv
  <1>12. ValueInv'
    <2>1. \A u \in Tasks, i \in 1..MaxFrames, c \in Contexts :
            <<u, i, c>> \in Nurseries =>
              c = value'[u] \/ \E k \in 1..MaxFrames : k < i /\ <<u, k, c>> \in Scopes
      BY <1>1, <1>4 DEF ValueInv, Becomes, ContextOrNone
    <2>2. ASSUME value'[child] # NoContext
          PROVE  \E o \in Tasks, k \in 1..MaxFrames : <<o, k, value'[child]>> \in Scopes
      <3>1. value'[child] \in Contexts
        BY <1>3, <2>2 DEF ContextOrNone
      <3> QED
        BY <1>3, <2>2, <3>1 DEF ValueInv
    <2> QED
      BY <1>1, <1>2, <2>1, <2>2 DEF ValueInv, Becomes
  <1>13. ClosingInv'
    BY <1>1, <1>2, <1>3 DEF ClosingInv, Becomes
  <1>14. DefaultInv'
    BY <1>1, <1>2 DEF DefaultInv
  <1>15. RunInv'
    BY <1>1, <1>2, <1>4 DEF RunInv, Becomes
  <1>16. CallInv'
    <2>1. \A u \in Tasks \ {child} : ScopeOf(u)' = ScopeOf(u)
      BY <1>1 DEF ScopeOf, Becomes
    <2> QED
      BY <1>1, <1>2, <2>1 DEF CallInv, Becomes
  <1>17. CloserInv'
    <2>1. ASSUME NEW u \in Tasks, at[u] = "closing"
          PROVE  at'[u] = "closing"
      BY <1>1, <1>4, <2>1 DEF Alive, Becomes
    <2> QED
      BY <1>1, <1>2, <2>1 DEF CloserInv
  <1>18. ExitIsGraceful'
    BY <1>1, SameInv
  <1> QED
    BY <1>2, <1>5, <1>6, <1>7, <1>8, <1>9, <1>10, <1>11, <1>12, <1>13, <1>14, <1>15, <1>16, <1>17,
       <1>18

\* A task ends.
LEMMA TaskEndsStep ==
  ASSUME IInv, NEW t \in Tasks, TaskEnds(t)
  PROVE  IInv'
  <1> USE DEF IInv
  <1>1. /\ at[t] = "idle" /\ phase = "up" /\ frames[t] = <<>>
        /\ Becomes(at, at', t, "absent") /\ Becomes(value, value', t, NoContext)
        /\ parent' = [parent EXCEPT ![t] = [task |-> NoTask, depth |-> 0]]
        /\ run[t] = t => ending' = ending \cup {t} /\ run' = run
        /\ run[t] # t => ending' = ending /\ Becomes(run, run', t, NoTask)
        /\ UNCHANGED <<platform, frames, uses, state, workers, default, handlers, runctx, closers,
                       configuring, phase>>
    BY DEF TaskEnds, Idle, Becomes, VarTypes, ctxVars, defaultVars
  <1>2. /\ UNCHANGED <<Scopes, Nurseries>> /\ StackTypes'
        /\ UNCHANGED Handled /\ HandlerInv'
    BY <1>1, SameFrames, SameHandlers
  <1>3. /\ Becomes(parent, parent', t, [task |-> NoTask, depth |-> 0])
        /\ t # NoTask /\ Alive(t) /\ run[t] \in Tasks /\ t \notin ending
        /\ \A u \in Tasks : Alive(u) /\ u # t => run[u] # t
        /\ run[t] # t => \A u \in Tasks : run[u] # t
        /\ \A u \in Tasks : Alive(u) /\ run[u] # u => parent[u].task # t
        /\ \A i \in 1..MaxFrames, d \in ContextOrNone : <<t, i, d>> \notin Nurseries
    BY <1>1, RunIsEmpty, ParentFacts, FrameFacts, DefaultContextAssumption DEF LifeInv, Alive,
       VarTypes, ParentType, Becomes
  <1>4. VarTypes'
    BY <1>1 DEF VarTypes, TaskEnds, ContextOrNone
  <1>5. ParentType'
    BY <1>1, DefaultContextAssumption DEF ParentType
  <1>6. UsesInv'
    BY <1>1 DEF UsesInv, Becomes, Alive
  <1>7. LifeInv'
    BY <1>1, <1>3 DEF LifeInv, Becomes, VarTypes, Alive
  <1>8. TreeInv'
    BY <1>1, <1>2, <1>3 DEF TreeInv, Becomes, Alive
  <1>9. RankInv'
    <2>1. PICK rank \in [Tasks -> Nat] : \A u \in Tasks : Alive(u) /\ run[u] # u =>
          rank[parent[u].task] < rank[u]
      BY DEF RankInv
    <2>2. ASSUME NEW u \in Tasks, Alive(u)', run'[u] # u
          PROVE  Alive(u) /\ run[u] # u /\ parent'[u] = parent[u]
      BY <1>1, <1>3, <2>2 DEF Becomes, Alive
    <2> QED
      BY <2>1, <2>2 DEF RankInv
  <1>10. ScopeInv'
    BY <1>1, <1>2 DEF ScopeInv, Becomes
  <1>11. ValueInv'
    BY <1>1, <1>2, <1>3 DEF ValueInv, Becomes, ContextOrNone
  <1>12. ClosingInv'
    BY <1>1, <1>2 DEF ClosingInv, Becomes
  <1>13. DefaultInv'
    BY <1>1, <1>2 DEF DefaultInv
  <1>14. RunInv'
    BY <1>1, <1>2 DEF RunInv, Becomes
  <1>15. CallInv'
    <2>1. \A u \in Tasks \ {t} : ScopeOf(u)' = ScopeOf(u)
      BY <1>1 DEF ScopeOf, Becomes
    <2> QED
      BY <1>1, <1>2, <2>1 DEF CallInv, Becomes
  <1>16. CloserInv'
    BY <1>1, <1>2 DEF CloserInv, Becomes
  <1>17. ExitIsGraceful'
    BY <1>1, SameInv
  <1> QED
    BY <1>2, <1>4, <1>5, <1>6, <1>7, <1>8, <1>9, <1>10, <1>11, <1>12, <1>13, <1>14, <1>15, <1>16,
       <1>17

\* A scope is entered.
LEMMA EnterScopeStep ==
  ASSUME IInv, NEW t \in Tasks, NEW c \in Contexts, EnterScope(t, c)
  PROVE  IInv'
  <1> USE DEF IInv
  <1>1. /\ at[t] = "idle" /\ phase = "up" /\ Len(frames[t]) < MaxFrames
        /\ c \in Contexts \ Referenced
        /\ state' = [state EXCEPT ![c] = "open"] /\ workers' = workers \ {c}
        /\ frames' = [frames EXCEPT ![t] = Append(@, [kind |-> "scope", ctx |-> c])]
        /\ UNCHANGED <<platform, at, run, parent, value, uses, default, handlers, runctx, closers,
                       ending, configuring, phase>>
    BY DEF EnterScope, Idle, Create, callVars, defaultVars, runVars
  <1>2. /\ UNCHANGED Handled /\ HandlerInv'
    BY <1>1, SameHandlers
  <1>3. \A u \in Tasks : Alive(u)' = Alive(u)
    BY <1>1 DEF Alive
  <1>4. /\ Pushed(t, "scope", c) /\ Fresh(c) /\ c \in ContextOrNone
        /\ state'[c] = "open" /\ \A d \in Contexts \ {c} : state'[d] = state[d]
    BY <1>1, PushFacts, FreshFacts DEF ContextOrNone, VarTypes
  <1>5. \A u \in Tasks \ {t} : ScopeOf(u)' = ScopeOf(u)
    BY <1>1 DEF ScopeOf
  <1>6. VarTypes'
    BY DEF EnterScope, Create, VarTypes, callVars, defaultVars, runVars
  <1>7. StackTypes'
    BY <1>4 DEF Pushed
  <1>8. UsesInv'
    BY <1>1 DEF UsesInv, Alive
  <1>9. TreeInv'
    BY <1>1, <1>3, <1>4, ParentFacts DEF TreeInv, Pushed
  <1>10. ScopeInv'
    BY <1>1, <1>2, <1>4 DEF ScopeInv, Pushed, Fresh
  <1>11. ValueInv'
    BY <1>1, <1>4 DEF ValueInv, Pushed, VarTypes, ContextOrNone
  <1>12. ClosingInv'
    BY <1>1, <1>2, <1>4 DEF ClosingInv, Fresh
  <1>13. DefaultInv'
    BY <1>1, <1>2 DEF DefaultInv
  <1>14. RunInv'
    BY <1>1, <1>2 DEF RunInv
  <1>15. CallInv'
    BY <1>1, <1>2, <1>5 DEF CallInv
  <1>16. CloserInv'
    BY <1>1, <1>2, <1>4 DEF CloserInv, Pushed, VarTypes, ContextOrNone
  <1>17. ExitIsGraceful'
    BY <1>1 DEF ExitIsGraceful
  <1>18. ParentType' /\ LifeInv' /\ RankInv'
    BY <1>1, SameInv
  <1> QED
    BY <1>2, <1>6, <1>7, <1>8, <1>9, <1>10, <1>11, <1>12, <1>13, <1>14, <1>15, <1>16, <1>17, <1>18

\* A scope is left.
LEMMA ExitScopeStep ==
  ASSUME IInv, NEW t \in Tasks, ExitScope(t)
  PROVE  IInv'
  <1> USE DEF IInv
  <1>1. /\ at[t] = "idle" /\ phase = "up" /\ frames[t] # <<>> /\ Last(frames[t]).kind = "scope"
        /\ frames' = [frames EXCEPT ![t] = Front(@)]
        /\ Becomes(uses, uses', t, Last(frames[t]).ctx) /\ Becomes(at, at', t, "closing")
        /\ state' = [state EXCEPT ![Last(frames[t]).ctx] = "closing"]
        /\ UNCHANGED <<platform, run, parent, value, workers, default, handlers, runctx, closers,
                       ending, configuring, phase>>
    BY DEF ExitScope, Idle, Aclose, Becomes, VarTypes, defaultVars, runVars
  <1>2. /\ UNCHANGED Handled /\ HandlerInv'
    BY <1>1, SameHandlers
  <1>3. \A u \in Tasks : Alive(u)' = Alive(u)
    BY <1>1 DEF Alive, Becomes
  <1>4. PICK n \in 1..MaxFrames, c \in Contexts :
          /\ n = Len(frames[t]) /\ c = Last(frames[t]).ctx /\ <<t, n, c>> \in Scopes
    BY <1>1, PopFacts DEF Scopes, ScopeInv
  <1>5. /\ Popped(t) /\ c \in ContextOrNone /\ c # NoContext
        /\ state'[c] = "closing" /\ \A d \in Contexts \ {c} : state'[d] = state[d]
    BY <1>1, <1>4, PopFacts, DefaultContextAssumption DEF VarTypes
  <1>6. /\ \A u \in Tasks : value[u] # c
        /\ \A u \in Tasks, i \in 1..MaxFrames :
             /\ <<u, i, c>> \notin Nurseries
             /\ <<u, i, c>> \in Scopes => u = t /\ i = n
    BY <1>4, OnlyHolder
  <1>7. \A d \in ContextOrNone : /\ <<t, n, d>> \in Scopes => d = c
                                 /\ <<t, n, d>> \notin Nurseries
    BY <1>4, <1>5, FrameFacts
  <1>8. \A u \in Tasks \ {t} : ScopeOf(u)' = ScopeOf(u)
    BY <1>1 DEF ScopeOf
  <1>9. VarTypes'
    BY <1>1, <1>4 DEF VarTypes, ExitScope, ContextOrNone
  <1>10. StackTypes'
    BY <1>5 DEF Popped
  <1>11. UsesInv'
    BY <1>1, <1>4, <1>5 DEF UsesInv, Becomes, Alive
  <1>12. LifeInv'
    BY <1>1, <1>3 DEF LifeInv
  <1>13. TreeInv'
    <2>1. ASSUME NEW u \in Tasks, Alive(u), run[u] # u
          PROVE  <<parent[u].task, parent[u].depth, value[u]>> \in Nurseries'
      <3>1. <<parent[u].task, parent[u].depth, value[u]>> \in Nurseries
        BY <2>1 DEF TreeInv
      <3>2. value[u] \in ContextOrNone
        BY <2>1, ParentFacts
      <3>3. ~(parent[u].task = t /\ parent[u].depth = n)
        BY <1>7, <3>1, <3>2
      <3> QED
        BY <1>4, <1>5, <2>1, <3>1, <3>3, ParentFacts DEF Popped
    <2> QED
      BY <1>1, <1>3, <2>1 DEF TreeInv
  <1>14. RankInv'
    <2>1. PICK rank \in [Tasks -> Nat] : \A u \in Tasks : Alive(u) /\ run[u] # u =>
          rank[parent[u].task] < rank[u]
      BY DEF RankInv
    <2> QED
      BY <1>1, <1>3 DEF RankInv
  <1>15. ScopeInv'
    <2>1. ASSUME NEW u \in Tasks, NEW i \in 1..MaxFrames, NEW d \in ContextOrNone,
                 <<u, i, d>> \in Scopes'
          PROVE  /\ <<u, i, d>> \in Scopes /\ d # c /\ d \in Contexts
                 /\ state'[d] = "open" /\ d \notin Handled
                 /\ \A r \in Tasks : d \notin closers[r]
                 /\ \A v \in Tasks : at'[v] = "closing" => uses'[v] # d
      <3>1. <<u, i, d>> \in Scopes /\ d # c
        BY <1>4, <1>5, <1>6, <2>1 DEF Popped
      <3> QED
        BY <1>1, <1>2, <1>3, <1>4, <1>5, <1>6, <1>7, <1>8, <3>1 DEF ScopeInv, Becomes
    <2>2. ASSUME NEW u \in Tasks, NEW v \in Tasks, NEW i \in 1..MaxFrames, NEW j \in 1..MaxFrames,
                 NEW d \in ContextOrNone, <<u, i, d>> \in Scopes', <<v, j, d>> \in Scopes'
          PROVE  u = v /\ i = j
      <3>1. <<u, i, d>> \in Scopes /\ <<v, j, d>> \in Scopes
        BY <2>1, <2>2
      <3> QED
        BY <3>1 DEF ScopeInv
    <2> QED
      BY <1>1, <1>2, <2>1 DEF ScopeInv
  <1>16. ValueInv'
    <2>1. ASSUME NEW u \in Tasks, NEW i \in 1..MaxFrames, NEW d \in Contexts, d # c,
                 <<u, i, d>> \in Scopes
          PROVE  <<u, i, d>> \in Scopes'
      BY <1>4, <1>5, <1>7, <2>1 DEF Popped, ContextOrNone
    <2>2. ASSUME NEW u \in Tasks, NEW i \in 1..MaxFrames, NEW d \in Contexts,
                 <<u, i, d>> \in Nurseries'
          PROVE  /\ <<u, i, d>> \in Nurseries /\ d # c
      BY <1>4, <1>5, <1>6, <2>2 DEF Popped, ContextOrNone
    <2>3. ASSUME NEW u \in Tasks, NEW i \in 1..MaxFrames, NEW d \in Contexts,
                 <<u, i, d>> \in Nurseries'
          PROVE  d = value[u] \/ \E k \in 1..MaxFrames : k < i /\ <<u, k, d>> \in Scopes'
      <3>1. d = value[u] \/ \E k \in 1..MaxFrames : k < i /\ <<u, k, d>> \in Scopes
        BY <2>2, <2>3 DEF ValueInv
      <3> QED
        BY <2>1, <2>2, <2>3, <3>1
    <2>4. ASSUME NEW u \in Tasks, value[u] # NoContext
          PROVE  \E o \in Tasks, k \in 1..MaxFrames : <<o, k, value[u]>> \in Scopes'
      <3>1. PICK o \in Tasks, k \in 1..MaxFrames : <<o, k, value[u]>> \in Scopes
        BY <2>4 DEF ValueInv
      <3>2. value[u] \in Contexts /\ value[u] # c
        BY <1>6, <2>4 DEF VarTypes, ContextOrNone
      <3> QED
        BY <2>1, <3>1, <3>2
    <2> QED
      BY <1>1, <2>3, <2>4 DEF ValueInv
  <1>17. ClosingInv'
    BY <1>1, <1>2, <1>4, <1>5, <1>7 DEF ClosingInv, Becomes, ScopeInv
  <1>18. DefaultInv'
    BY <1>1, <1>2, <1>4, <1>5 DEF DefaultInv, ScopeInv
  <1>19. RunInv'
    BY <1>1, <1>2, <1>4, <1>5 DEF RunInv, ScopeInv
  <1>20. CallInv'
    BY <1>1, <1>2, <1>8 DEF CallInv, Becomes
  <1>21. CloserInv'
    <2>1. ASSUME NEW d \in Contexts, d # c, NEW u \in Tasks, NEW i \in 1..MaxFrames,
                 <<u, i, d>> \in Scopes
          PROVE  <<u, i, d>> \in Scopes'
      BY <1>4, <1>5, <1>7, <2>1 DEF Popped, ContextOrNone
    <2>2. ASSUME NEW u \in Tasks, at[u] = "closing"
          PROVE  at'[u] = "closing" /\ uses'[u] = uses[u]
      BY <1>1, <2>2 DEF Becomes
    <2>3. at'[t] = "closing" /\ uses'[t] = c
      BY <1>1, <1>4 DEF Becomes
    <2>4. ASSUME NEW d \in workers, d # c
          PROVE  \/ d \in Handled
                 \/ \E r \in Tasks : d \in closers[r]
                 \/ \E u \in Tasks : at'[u] = "closing" /\ uses'[u] = d
                 \/ \E u \in Tasks, i \in 1..MaxFrames : <<u, i, d>> \in Scopes'
      <3>1. d \in Contexts
        BY DEF VarTypes
      <3> QED
        BY <2>1, <2>2, <2>4, <3>1 DEF CloserInv
    <2> QED
      BY <1>1, <1>2, <2>3, <2>4 DEF CloserInv
  <1>22. ParentType' /\ ExitIsGraceful'
    BY <1>1, SameInv
  <1> QED
    BY <1>2, <1>9, <1>10, <1>11, <1>12, <1>13, <1>14, <1>15, <1>16, <1>17, <1>18, <1>19, <1>20,
       <1>21, <1>22

\* The context of a scope is closed.
LEMMA ScopeClosedStep ==
  ASSUME IInv, NEW t \in Tasks, ScopeClosed(t)
  PROVE  IInv'
  <1> USE DEF IInv
  <1>1. /\ at[t] = "closing" /\ Becomes(at, at', t, "idle") /\ Becomes(uses, uses', t, NoContext)
        /\ state' = [state EXCEPT ![uses[t]] = "closed"] /\ workers' = workers \ {uses[t]}
        /\ UNCHANGED <<platform, run, parent, value, frames, default, handlers, runctx, closers,
                       ending, configuring, phase>>
    BY DEF ScopeClosed, Closed, Becomes, VarTypes, treeVars, defaultVars, runVars
  <1>2. /\ UNCHANGED <<Scopes, Nurseries>> /\ StackTypes'
        /\ UNCHANGED Handled /\ HandlerInv'
        /\ \A u \in Tasks : ScopeOf(u)' = ScopeOf(u)
    BY <1>1, SameFrames, SameHandlers DEF ScopeOf
  <1>3. \A u \in Tasks : Alive(u)' = Alive(u)
    BY <1>1 DEF Alive, Becomes
  <1>4. /\ uses[t] \in Contexts
        /\ \A d \in Contexts \ {uses[t]} : state'[d] = state[d]
    BY <1>1 DEF ClosingInv
  <1>5. VarTypes'
    BY DEF ScopeClosed, Closed, VarTypes, ContextOrNone, treeVars, defaultVars, runVars
  <1>6. UsesInv'
    BY <1>1 DEF UsesInv, Becomes, Alive
  <1>7. LifeInv'
    BY <1>1, <1>3 DEF LifeInv
  <1>8. TreeInv'
    BY <1>1, <1>2, <1>3 DEF TreeInv
  <1>9. RankInv'
    <2>1. PICK rank \in [Tasks -> Nat] : \A u \in Tasks : Alive(u) /\ run[u] # u =>
          rank[parent[u].task] < rank[u]
      BY DEF RankInv
    <2> QED
      BY <1>1, <1>3 DEF RankInv
  <1>10. ScopeInv'
    BY <1>1, <1>2 DEF ScopeInv, Becomes
  <1>11. ClosingInv'
    BY <1>1, <1>2 DEF ClosingInv, Becomes
  <1>12. DefaultInv'
    BY <1>1, <1>2 DEF DefaultInv, ClosingInv
  <1>13. RunInv'
    BY <1>1, <1>2 DEF RunInv, ClosingInv
  <1>14. CallInv'
    BY <1>1, <1>2 DEF CallInv, Becomes
  <1>15. CloserInv'
    BY <1>1, <1>2 DEF CloserInv, Becomes
  <1>16. ExitIsGraceful'
    BY <1>1 DEF ExitIsGraceful
  <1>17. ParentType' /\ ValueInv'
    BY <1>1, SameInv
  <1> QED
    BY <1>2, <1>5, <1>6, <1>7, <1>8, <1>9, <1>10, <1>11, <1>12, <1>13, <1>14, <1>15, <1>16, <1>17

\* A call ends.
LEMMA CallEndsStep ==
  ASSUME IInv, NEW t \in Tasks, CallEnds(t)
  PROVE  IInv'
  <1> USE DEF IInv
  <1>1. /\ at[t] = "running" /\ Becomes(at, at', t, "idle") /\ Becomes(uses, uses', t, NoContext)
        /\ workers' \subseteq workers \cup {uses[t]}
        /\ UNCHANGED <<platform, run, parent, value, frames, state, default, handlers, runctx,
                       closers, ending, configuring, phase>>
    BY DEF CallEnds, Becomes, VarTypes, treeVars, defaultVars, runVars
  <1>2. /\ UNCHANGED <<Scopes, Nurseries>> /\ StackTypes'
        /\ UNCHANGED Handled /\ HandlerInv'
        /\ \A u \in Tasks : ScopeOf(u)' = ScopeOf(u)
    BY <1>1, SameFrames, SameHandlers DEF ScopeOf
  <1>3. \A u \in Tasks : Alive(u)' = Alive(u)
    BY <1>1 DEF Alive, Becomes
  <1>4. /\ uses[t] \in Contexts
        /\ \/ uses[t] \in Handled
           \/ \E r \in Tasks : uses[t] \in closers[r]
           \/ \E u \in Tasks, i \in 1..MaxFrames : <<u, i, uses[t]>> \in Scopes
    BY <1>1, CallFacts
  <1>5. phase = "up"
    BY <1>1 DEF DefaultInv, LifeInv, Alive
  <1>6. VarTypes'
    BY <1>4 DEF CallEnds, VarTypes, ContextOrNone, treeVars, defaultVars, runVars
  <1>7. UsesInv'
    BY <1>1 DEF UsesInv, Becomes, Alive
  <1>8. LifeInv'
    BY <1>1, <1>3 DEF LifeInv
  <1>9. TreeInv'
    BY <1>1, <1>2, <1>3 DEF TreeInv
  <1>10. RankInv'
    <2>1. PICK rank \in [Tasks -> Nat] : \A u \in Tasks : Alive(u) /\ run[u] # u =>
          rank[parent[u].task] < rank[u]
      BY DEF RankInv
    <2> QED
      BY <1>1, <1>3 DEF RankInv
  <1>11. ScopeInv'
    BY <1>1, <1>2 DEF ScopeInv, Becomes
  <1>12. ClosingInv'
    BY <1>1, <1>2 DEF ClosingInv, Becomes
  <1>13. CallInv'
    BY <1>1, <1>2 DEF CallInv, Becomes
  <1>14. CloserInv'
    BY <1>1, <1>2, <1>4 DEF CloserInv, Becomes
  <1>15. ExitIsGraceful'
    BY <1>1, <1>5 DEF ExitIsGraceful
  <1>16. ParentType' /\ ValueInv' /\ DefaultInv' /\ RunInv'
    BY <1>1, SameInv
  <1> QED
    BY <1>2, <1>6, <1>7, <1>8, <1>9, <1>10, <1>11, <1>12, <1>13, <1>14, <1>15, <1>16

\* configure_default_context begins.
LEMMA CheckDefaultStep ==
  ASSUME IInv, NEW t \in Tasks \cup {NoTask}, CheckDefault(t)
  PROVE  IInv'
  <1> USE DEF IInv
  <1>1. /\ configuring' = TRUE /\ phase = "up"
        /\ UNCHANGED <<platform, at, run, parent, value, frames, uses, state, workers, default,
                       handlers, runctx, closers, ending, phase>>
    BY DEF CheckDefault, treeVars, callVars, ctxVars, runVars
  <1>2. /\ UNCHANGED <<Scopes, Nurseries>> /\ StackTypes'
        /\ UNCHANGED Handled /\ HandlerInv'
        /\ \A u \in Tasks : ScopeOf(u)' = ScopeOf(u)
    BY <1>1, SameFrames, SameHandlers DEF ScopeOf
  <1>3. \A u \in Tasks : Alive(u)' = Alive(u)
    BY <1>1 DEF Alive
  <1>4. VarTypes'
    BY DEF CheckDefault, VarTypes, callVars, treeVars, ctxVars, runVars
  <1>5. DefaultInv'
    BY <1>1, <1>2 DEF DefaultInv
  <1>6. ParentType' /\ UsesInv' /\ LifeInv' /\ TreeInv' /\ RankInv' /\ ScopeInv' /\ ValueInv'
       /\ ClosingInv' /\ RunInv' /\ CallInv' /\ CloserInv' /\ ExitIsGraceful'
    BY <1>1, SameInv
  <1> QED
    BY <1>2, <1>4, <1>5, <1>6

\* A run ends.
LEMMA RunEndsStep ==
  ASSUME IInv, NEW r \in Tasks, RunEnds(r)
  PROVE  IInv'
  <1> USE DEF IInv
  <1>1. /\ r \in ending /\ closers[r] = {} /\ ending' = ending \ {r}
        /\ Becomes(run, run', r, NoTask) /\ Becomes(runctx, runctx', r, NoContext)
        /\ UNCHANGED <<platform, at, parent, value, frames, uses, state, workers, default,
                       handlers, closers, configuring, phase>>
    BY DEF RunEnds, Becomes, VarTypes, callVars, ctxVars, defaultVars
  <1>2. /\ UNCHANGED <<Scopes, Nurseries>> /\ StackTypes'
        /\ UNCHANGED Handled /\ HandlerInv'
        /\ \A u \in Tasks : ScopeOf(u)' = ScopeOf(u)
    BY <1>1, SameFrames, SameHandlers DEF ScopeOf
  <1>3. \A u \in Tasks : Alive(u)' = Alive(u)
    BY <1>1 DEF Alive
  <1>4. /\ ~Alive(r) /\ r # NoTask /\ \A u \in Tasks \ {r} : run[u] # r
    BY <1>1, DefaultContextAssumption DEF LifeInv
  <1>5. VarTypes'
    BY DEF RunEnds, VarTypes, ContextOrNone, callVars, ctxVars, defaultVars
  <1>6. LifeInv'
    BY <1>1, <1>3, <1>4 DEF LifeInv, Becomes, VarTypes
  <1>7. TreeInv'
    BY <1>1, <1>2, <1>3, <1>4 DEF TreeInv, Becomes
  <1>8. RankInv'
    <2>1. PICK rank \in [Tasks -> Nat] : \A u \in Tasks : Alive(u) /\ run[u] # u =>
          rank[parent[u].task] < rank[u]
      BY DEF RankInv
    <2> QED
      BY <1>1, <1>3, <1>4 DEF RankInv, Becomes
  <1>9. DefaultInv'
    BY <1>1, <1>2 DEF DefaultInv, Becomes
  <1>10. RunInv'
    BY <1>1, <1>2 DEF RunInv, Becomes
  <1>11. CallInv'
    BY <1>1, <1>2 DEF CallInv, Becomes, LifeInv, VarTypes, Alive
  <1>12. ParentType' /\ UsesInv' /\ ScopeInv' /\ ValueInv' /\ ClosingInv' /\ CloserInv'
       /\ ExitIsGraceful'
    BY <1>1, SameInv
  <1> QED
    BY <1>2, <1>5, <1>6, <1>7, <1>8, <1>9, <1>10, <1>11, <1>12

\* The interpreter exits.
LEMMA ExitBeginsStep ==
  ASSUME IInv, ExitBegins
  PROVE  IInv'
  <1> USE DEF IInv
  <1>1. /\ phase' = "exiting" /\ phase = "up" /\ ~configuring /\ \A t \in Tasks : run[t] = NoTask
        /\ UNCHANGED <<platform, at, run, parent, value, frames, uses, state, workers, default,
                       handlers, runctx, closers, ending, configuring>>
    BY DEF ExitBegins, treeVars, callVars, ctxVars, defaultVars, runVars
  <1>2. /\ UNCHANGED <<Scopes, Nurseries>> /\ StackTypes'
        /\ UNCHANGED Handled /\ HandlerInv'
        /\ \A u \in Tasks : ScopeOf(u)' = ScopeOf(u)
    BY <1>1, SameFrames, SameHandlers DEF ScopeOf
  <1>3. \A u \in Tasks : Alive(u)' = Alive(u)
    BY <1>1 DEF Alive
  <1>4. VarTypes'
    BY DEF ExitBegins, VarTypes, callVars, treeVars, ctxVars, defaultVars, runVars
  <1>5. DefaultInv'
    BY <1>1, <1>2 DEF DefaultInv
  <1>6. ExitIsGraceful'
    BY <1>1 DEF ExitIsGraceful
  <1>7. ParentType' /\ UsesInv' /\ LifeInv' /\ TreeInv' /\ RankInv' /\ ScopeInv' /\ ValueInv'
       /\ ClosingInv' /\ RunInv' /\ CallInv' /\ CloserInv'
    BY <1>1, SameInv
  <1> QED
    BY <1>2, <1>4, <1>5, <1>6, <1>7

\* A call finds its context.
LEMMA GetContextStep ==
  ASSUME IInv, NEW t \in Tasks, GetContext(t)
  PROVE  IInv'
  <1> USE DEF IInv
  <1>1. /\ at[t] = "idle" /\ phase = "up" /\ Becomes(at, at', t, "found")
        /\ \A u \in Tasks \ {t} : uses'[u] = uses[u]
        /\ \/ ScopeOf(t) # NoContext /\ uses'[t] = ScopeOf(t)
           \/ platform = "posix" /\ uses'[t] = default
           \/ runctx[run[t]] # NoContext /\ uses'[t] = runctx[run[t]]
        /\ UNCHANGED <<platform, run, parent, value, frames, state, workers, default, handlers,
                       runctx, closers, ending, configuring, phase>>
    BY DEF GetContext, Idle, Gets, Becomes, VarTypes, treeVars, ctxVars, defaultVars, runVars
  <1>2. /\ UNCHANGED <<Scopes, Nurseries>> /\ StackTypes'
        /\ UNCHANGED Handled /\ HandlerInv'
        /\ \A u \in Tasks : ScopeOf(u)' = ScopeOf(u)
    BY <1>1, SameFrames, SameHandlers DEF ScopeOf
  <1>3. \A u \in Tasks : Alive(u)' = Alive(u)
    BY <1>1 DEF Alive, Becomes
  <1>4. /\ uses'[t] \in Contexts
        /\ uses'[t] = ScopeOf(t) \/ uses'[t] \in Handled \/ uses'[t] = runctx[run[t]]
    <2>1. run[t] \in Tasks
      BY <1>1 DEF LifeInv, Alive, VarTypes
    <2>2. ScopeOf(t) \in ContextOrNone /\ runctx[run[t]] \in ContextOrNone
      BY <2>1, ScopeOfFacts DEF VarTypes
    <2> QED
      BY <1>1, <2>2 DEF DefaultInv, ContextOrNone
  <1>5. VarTypes'
    BY <1>1, <1>4 DEF GetContext, Gets, VarTypes, ContextOrNone
  <1>6. UsesInv'
    BY <1>1, <1>4, DefaultContextAssumption DEF UsesInv, Becomes, Alive
  <1>7. LifeInv'
    BY <1>1, <1>3 DEF LifeInv
  <1>8. TreeInv'
    BY <1>1, <1>2, <1>3 DEF TreeInv
  <1>9. RankInv'
    <2>1. PICK rank \in [Tasks -> Nat] : \A u \in Tasks : Alive(u) /\ run[u] # u =>
          rank[parent[u].task] < rank[u]
      BY DEF RankInv
    <2> QED
      BY <1>1, <1>3, <2>1 DEF RankInv
  <1>10. ScopeInv'
    BY <1>1, <1>2 DEF ScopeInv, Becomes
  <1>11. ClosingInv'
    BY <1>1, <1>2 DEF ClosingInv, Becomes
  <1>12. CallInv'
    BY <1>1, <1>2, <1>4 DEF CallInv, Becomes
  <1>13. CloserInv'
    BY <1>1, <1>2 DEF CloserInv, Becomes
  <1>14. ParentType' /\ ValueInv' /\ DefaultInv' /\ RunInv' /\ ExitIsGraceful'
    BY <1>1, SameInv
  <1> QED
    BY <1>2, <1>5, <1>6, <1>7, <1>8, <1>9, <1>10, <1>11, <1>12, <1>13, <1>14

\* The first call of a run on Windows makes the context of the run.
LEMMA MakeRunContextStep ==
  ASSUME IInv, NEW t \in Tasks, NEW c \in Contexts, MakeRunContext(t, c)
  PROVE  IInv'
  <1> USE DEF IInv
  <1>1. run[t] \in Tasks \ ending /\ run[run[t]] = run[t] /\ Alive(t)
    BY DEF MakeRunContext, Idle, LifeInv, Alive, VarTypes
  <1>2. /\ at[t] = "idle" /\ phase = "up" /\ runctx[run[t]] = NoContext
        /\ c \in Contexts \ Referenced
        /\ state'[c] = "open" /\ \A d \in Contexts \ {c} : state'[d] = state[d]
        /\ workers' = workers \ {c}
        /\ Becomes(closers, closers', run[t], closers[run[t]] \cup {c})
        /\ \/ /\ Becomes(runctx, runctx', run[t], c)
              /\ Becomes(at, at', t, "found") /\ Becomes(uses, uses', t, c)
           \/ UNCHANGED <<runctx, at, uses>>
        /\ UNCHANGED <<platform, run, parent, value, frames, default, handlers, ending,
                       configuring, phase>>
    BY <1>1 DEF MakeRunContext, Create, Idle, Gets, Becomes, VarTypes, treeVars, callVars,
       defaultVars
  <1>3. /\ UNCHANGED <<Scopes, Nurseries>> /\ StackTypes'
        /\ UNCHANGED Handled /\ HandlerInv'
        /\ \A u \in Tasks : ScopeOf(u)' = ScopeOf(u)
    BY <1>2, SameFrames, SameHandlers DEF ScopeOf
  <1>4. \A u \in Tasks : Alive(u)' = Alive(u)
    BY <1>2 DEF Alive, Becomes
  <1>5. Fresh(c)
    BY <1>2, FreshFacts
  <1>6. \A u \in Tasks : at'[u] = "closing" <=> at[u] = "closing"
    BY <1>2 DEF Becomes
  <1>7. \A u \in Tasks : at[u] = "closing" => uses'[u] = uses[u]
    BY <1>2 DEF Becomes
  <1>8. VarTypes'
    BY <1>1, <1>2 DEF MakeRunContext, Create, Gets, VarTypes, ContextOrNone, callVars
  <1>9. UsesInv'
    BY <1>2, <1>5 DEF UsesInv, Becomes, Alive, Fresh
  <1>10. LifeInv'
    BY <1>2, <1>4 DEF LifeInv
  <1>11. TreeInv'
    BY <1>2, <1>3, <1>4 DEF TreeInv
  <1>12. RankInv'
    <2>1. PICK rank \in [Tasks -> Nat] : \A u \in Tasks : Alive(u) /\ run[u] # u =>
          rank[parent[u].task] < rank[u]
      BY DEF RankInv
    <2> QED
      BY <1>2, <1>4, <2>1 DEF RankInv
  <1>13. ScopeInv'
    <2>1. \A u \in Tasks, i \in 1..MaxFrames, d \in ContextOrNone :
            <<u, i, d>> \in Scopes =>
              /\ d # c /\ d \in Contexts /\ state'[d] = "open"
              /\ \A r \in Tasks : d \notin closers'[r]
      BY <1>2, <1>5 DEF ScopeInv, Becomes, Fresh
    <2> QED
      BY <1>3, <1>6, <1>7, <2>1 DEF ScopeInv
  <1>14. ClosingInv'
    BY <1>1, <1>2, <1>3, <1>5, <1>6, <1>7 DEF ClosingInv, Becomes, Fresh
  <1>15. DefaultInv'
    BY <1>2, <1>3 DEF DefaultInv
  <1>16. RunInv'
    <2>1. \A r \in Tasks : run[r] # r => runctx'[r] = NoContext /\ closers'[r] = {}
      BY <1>1, <1>2 DEF RunInv, Becomes
    <2>2. ASSUME NEW r \in Tasks \ ending
          PROVE  /\ \A d \in closers'[r] : state'[d] = "open"
                 /\ runctx'[r] # NoContext => runctx'[r] \in closers'[r]
      BY <1>1, <1>2, <1>5 DEF RunInv, Becomes, Fresh, VarTypes
    <2>3. \A r \in Tasks : closers'[r] \cap Handled = {}
      BY <1>1, <1>2, <1>5 DEF RunInv, Becomes, Fresh
    <2>4. \A r, q \in Tasks : r # q => closers'[r] \cap closers'[q] = {}
      BY <1>1, <1>2, <1>5 DEF RunInv, Becomes, Fresh
    <2> QED
      BY <1>2, <1>3, <2>1, <2>2, <2>3, <2>4 DEF RunInv
  <1>17. CallInv'
    <2>1. ASSUME NEW u \in Tasks, at[u] \in {"found", "running"}, u # t
          PROVE  \/ uses[u] = ScopeOf(u) \/ uses[u] \in Handled
                 \/ uses[u] = runctx'[run[u]]
      <3>1. CASE run[u] = run[t]
        BY <1>2, <2>1, <3>1 DEF CallInv, UsesInv
      <3>2. CASE run[u] # run[t]
        <4>1. run[u] \in Tasks
          BY <2>1 DEF LifeInv, Alive, VarTypes
        <4> QED
          BY <1>2, <2>1, <3>2, <4>1 DEF CallInv, Becomes
      <3> QED
        BY <3>1, <3>2
    <2>2. at'[t] \in {"found", "running"} => uses'[t] = runctx'[run[t]]
      BY <1>2 DEF Becomes
    <2>3. \A u \in Tasks \ {t} : at'[u] = at[u] /\ uses'[u] = uses[u]
      BY <1>2 DEF Becomes
    <2> QED
      BY <1>2, <1>3, <2>1, <2>2, <2>3 DEF CallInv
  <1>18. CloserInv'
    <2>1. \A r \in Tasks : closers[r] \subseteq closers'[r]
      BY <1>1, <1>2 DEF Becomes
    <2> QED
      BY <1>2, <1>3, <1>6, <1>7, <2>1 DEF CloserInv
  <1>19. ExitIsGraceful'
    BY <1>2 DEF ExitIsGraceful
  <1>20. ParentType' /\ ValueInv'
    BY <1>2, SameInv
  <1> QED
    BY <1>3, <1>8, <1>9, <1>10, <1>11, <1>12, <1>13, <1>14, <1>15, <1>16, <1>17, <1>18, <1>19, <1>20

\* A call enters its context, or fails.
LEMMA EnterContextStep ==
  ASSUME IInv, NEW t \in Tasks, EnterContext(t)
  PROVE  IInv'
  <1> USE DEF IInv
  <1>1. /\ at[t] = "found"
        /\ \A u \in Tasks \ {t} : at'[u] = at[u] /\ uses'[u] = uses[u]
        /\ \/ at'[t] = "running" /\ uses'[t] = uses[t]
           \/ at'[t] = "idle" /\ uses'[t] = NoContext
        /\ UNCHANGED <<platform, run, parent, value, frames, state, workers, default, handlers,
                       runctx, closers, ending, configuring, phase>>
    BY DEF EnterContext, VarTypes, treeVars, ctxVars, defaultVars, runVars
  <1>2. /\ UNCHANGED <<Scopes, Nurseries>> /\ StackTypes'
        /\ UNCHANGED Handled /\ HandlerInv'
        /\ \A u \in Tasks : ScopeOf(u)' = ScopeOf(u)
    BY <1>1, SameFrames, SameHandlers DEF ScopeOf
  <1>3. \A u \in Tasks : Alive(u)' = Alive(u)
    BY <1>1 DEF Alive
  <1>4. VarTypes'
    BY <1>1 DEF EnterContext, VarTypes, ContextOrNone
  <1>5. UsesInv'
    BY <1>1 DEF UsesInv, Alive
  <1>6. LifeInv'
    BY <1>1, <1>3 DEF LifeInv
  <1>7. TreeInv'
    BY <1>1, <1>2, <1>3 DEF TreeInv
  <1>8. RankInv'
    <2>1. PICK rank \in [Tasks -> Nat] : \A u \in Tasks : Alive(u) /\ run[u] # u =>
          rank[parent[u].task] < rank[u]
      BY DEF RankInv
    <2> QED
      BY <1>1, <1>3, <2>1 DEF RankInv
  <1>9. ScopeInv'
    BY <1>1, <1>2 DEF ScopeInv
  <1>10. ClosingInv'
    BY <1>1, <1>2 DEF ClosingInv
  <1>11. CallInv'
    BY <1>1, <1>2 DEF CallInv
  <1>12. CloserInv'
    BY <1>1, <1>2 DEF CloserInv
  <1>13. ParentType' /\ ValueInv' /\ DefaultInv' /\ RunInv' /\ ExitIsGraceful'
    BY <1>1, SameInv
  <1> QED
    BY <1>2, <1>4, <1>5, <1>6, <1>7, <1>8, <1>9, <1>10, <1>11, <1>12, <1>13

\* The contexts that have a handler once one is registered, or has run.
LEMMA HandledFacts ==
  ASSUME HandlerInv
  PROVE  /\ \A c \in Contexts : handlers' = Append(handlers, c) =>
              HandlerInv' /\ Handled' = Handled \cup {c}
         /\ Last(handlers) = NoContext => Handled = {NoContext}
         /\ handlers' = Front(handlers) /\ Last(handlers) # NoContext =>
              /\ HandlerInv' /\ Handled' \subseteq Handled
              /\ Handled \subseteq Handled' \cup {Last(handlers)}
  <1> DEFINE n == Len(handlers)
  <1>1. /\ handlers \in Seq(ContextOrNone) /\ handlers # <<>> /\ n \in Nat /\ n >= 1
        /\ DOMAIN handlers = 1..n /\ handlers[1] = NoContext
        /\ \A i \in 2..n : handlers[i] # NoContext
        /\ Last(handlers) = handlers[n]
    BY DEF HandlerInv, Last
  <1>2. ASSUME NEW c \in Contexts, handlers' = Append(handlers, c)
        PROVE  HandlerInv' /\ Handled' = Handled \cup {c}
    <2>1. /\ handlers' \in Seq(ContextOrNone) /\ Len(handlers') = n + 1
          /\ handlers'[n + 1] = c /\ \A i \in 1..n : handlers'[i] = handlers[i]
      BY <1>1, <1>2, SeqFacts DEF ContextOrNone
    <2>2. HandlerInv'
      BY <1>1, <2>1, DefaultContextAssumption DEF HandlerInv
    <2>3. DOMAIN handlers' = 1..(n + 1)
      BY <2>1
    <2>4. 1..(n + 1) = 1..n \cup {n + 1}
      BY <1>1
    <2>5. Handled' = Handled \cup {c}
      BY <1>1, <2>1, <2>3, <2>4 DEF Handled, Range
    <2> QED
      BY <2>2, <2>5
  <1>3. ASSUME Last(handlers) = NoContext
        PROVE  Handled = {NoContext}
    <2>1. n = 1
      <3>1. n \notin 2..n
        BY <1>1, <1>3
      <3>2. n \in Nat /\ n >= 1
        BY <1>1
      <3> HIDE DEF n
      <3> QED
        BY <3>1, <3>2
    <2> QED
      BY <1>1, <2>1 DEF Handled, Range
  <1>4. ASSUME handlers' = Front(handlers), Last(handlers) # NoContext
        PROVE  /\ HandlerInv' /\ Handled' \subseteq Handled
               /\ Handled \subseteq Handled' \cup {Last(handlers)}
    <2>1. n >= 2
      BY <1>1, <1>4
    <2>2. /\ handlers' \in Seq(ContextOrNone) /\ Len(handlers') = n - 1
          /\ \A i \in 1..(n - 1) : handlers'[i] = handlers[i]
      BY <1>1, <1>4, SeqFacts
    <2>3. HandlerInv'
      BY <1>1, <2>1, <2>2 DEF HandlerInv
    <2>4. DOMAIN handlers' = 1..(n - 1)
      BY <1>1, <2>1, <2>2
    <2>5. 1..n = 1..(n - 1) \cup {n}
      BY <1>1
    <2>6. /\ Handled' \subseteq Handled
          /\ Handled \subseteq Handled' \cup {Last(handlers)}
      BY <1>1, <2>2, <2>4, <2>5 DEF Handled, Range
    <2> QED
      BY <2>3, <2>6
  <1> QED
    BY <1>2, <1>3, <1>4

\* configure_default_context makes a context and registers its handler, or
\* fails before that.
LEMMA NewDefaultStep ==
  ASSUME IInv, NEW c \in Contexts, NewDefault(c)
  PROVE  IInv'
  <1> USE DEF IInv
  <1>1. /\ configuring /\ configuring' = FALSE
        /\ UNCHANGED <<platform, at, run, parent, value, frames, uses, runctx, closers, ending,
                       phase>>
    BY DEF NewDefault, treeVars, callVars, runVars
  <1>2. /\ UNCHANGED <<Scopes, Nurseries>> /\ StackTypes'
        /\ \A u \in Tasks : ScopeOf(u)' = ScopeOf(u)
    BY <1>1, SameFrames DEF ScopeOf
  <1>3. VarTypes'
    <2>1. state' \in [Contexts -> {"open", "closing", "closed"}]
      BY DEF NewDefault, Create, VarTypes, ctxVars
    <2>2. workers' \subseteq Contexts
      BY DEF NewDefault, Create, VarTypes, ctxVars
    <2>3. default' \in ContextOrNone
      BY DEF NewDefault, VarTypes, ContextOrNone
    <2>4. configuring' = FALSE
      BY DEF NewDefault
    <2> QED
      BY <1>1, <2>1, <2>2, <2>3, <2>4 DEF VarTypes
  <1>4. ParentType' /\ UsesInv' /\ LifeInv' /\ TreeInv' /\ RankInv' /\ ValueInv'
    BY <1>1, SameInv
  <1>5. ExitIsGraceful'
    BY <1>1 DEF DefaultInv, ExitIsGraceful
  <1>6. CASE UNCHANGED <<ctxVars, handlers, default>>
    <2>1. UNCHANGED Handled /\ HandlerInv'
      BY <1>6, SameHandlers
    <2>2. ScopeInv' /\ ClosingInv' /\ RunInv' /\ CallInv' /\ CloserInv'
      BY <1>1, <1>6, SameInv DEF ctxVars
    <2>3. DefaultInv'
      BY <1>1, <1>6, <2>1 DEF DefaultInv, ctxVars
    <2> QED
      BY <1>2, <1>3, <1>4, <1>5, <2>1, <2>2, <2>3
  <1>7. CASE /\ Create(c) /\ handlers' = Append(handlers, c) /\ default' \in {c, default}
    <2>1. Fresh(c)
      BY <1>7, FreshFacts DEF Create
    <2>2. HandlerInv' /\ Handled' = Handled \cup {c}
      BY <1>7, HandledFacts
    <2>3. /\ state'[c] = "open" /\ \A d \in Contexts \ {c} : state'[d] = state[d]
          /\ workers' = workers \ {c}
      BY <1>7 DEF Create, VarTypes
    <2>4. ScopeInv'
      BY <1>1, <1>2, <2>1, <2>2, <2>3 DEF ScopeInv, Fresh
    <2>5. ClosingInv'
      BY <1>1, <2>1, <2>2, <2>3 DEF ClosingInv, Fresh
    <2>6. DefaultInv'
      BY <1>1, <1>7, <2>2, <2>3 DEF DefaultInv
    <2>7. RunInv'
      BY <1>1, <2>1, <2>2, <2>3 DEF RunInv, Fresh, VarTypes
    <2>8. CallInv'
      BY <1>1, <1>2, <2>2 DEF CallInv
    <2>9. CloserInv'
      BY <1>1, <1>2, <2>2, <2>3 DEF CloserInv
    <2> QED
      BY <1>2, <1>3, <1>4, <1>5, <2>2, <2>4, <2>5, <2>6, <2>7, <2>8, <2>9
  <1> QED
    BY <1>6, <1>7 DEF NewDefault

\* A system task begins or ends the closing of a context of its run.
LEMMA CloseAtRunEndStep ==
  ASSUME IInv, NEW r \in Tasks, NEW c \in Contexts, CloseAtRunEnd(r, c)
  PROVE  IInv'
  <1> USE DEF IInv
  <1>1. /\ r \in ending /\ c \in closers[r]
        /\ \A d \in Contexts \ {c} : state'[d] = state[d]
        /\ \/ UNCHANGED <<workers, closers>>
           \/ workers' = workers \ {c} /\ Becomes(closers, closers', r, closers[r] \ {c})
        /\ UNCHANGED <<platform, at, run, parent, value, frames, uses, default, handlers,
                       runctx, ending, configuring, phase>>
    BY DEF CloseAtRunEnd, Aclose, Closed, Becomes, VarTypes, treeVars, callVars, defaultVars
  <1>2. /\ UNCHANGED <<Scopes, Nurseries>> /\ StackTypes'
        /\ UNCHANGED Handled /\ HandlerInv'
    BY <1>1, SameFrames, SameHandlers
  <1>3. /\ \A q \in Tasks : closers'[q] \subseteq closers[q]
        /\ \A q \in Tasks : \A d \in closers[q] : d # c => d \in closers'[q]
        /\ \A q \in Tasks \ {r} : closers'[q] = closers[q] /\ c \notin closers[q]
    BY <1>1 DEF RunInv, Becomes
  <1>4. VarTypes'
    BY <1>1 DEF CloseAtRunEnd, Aclose, Closed, VarTypes
  <1>5. ScopeInv'
    BY <1>1, <1>2, <1>3 DEF ScopeInv
  <1>6. ClosingInv'
    BY <1>1, <1>2, <1>3 DEF ClosingInv
  <1>7. DefaultInv'
    BY <1>1, <1>2 DEF DefaultInv, RunInv
  <1>8. RunInv'
    <2>1. \A q \in Tasks : run[q] # q => runctx[q] = NoContext /\ closers'[q] = {}
      BY <1>3 DEF RunInv
    <2>2. \A q \in Tasks \ ending : /\ \A d \in closers'[q] : state'[d] = "open"
                                    /\ runctx[q] # NoContext => runctx[q] \in closers'[q]
      BY <1>1, <1>3 DEF RunInv, VarTypes
    <2>3. \A q \in Tasks : closers'[q] \cap Handled = {}
      BY <1>3 DEF RunInv
    <2>4. \A p, q \in Tasks : p # q => closers'[p] \cap closers'[q] = {}
      BY <1>3 DEF RunInv
    <2> QED
      BY <1>1, <1>2, <2>1, <2>2, <2>3, <2>4 DEF RunInv
  <1>9. CloserInv'
    BY <1>1, <1>2, <1>3 DEF CloserInv
  <1>10. ExitIsGraceful'
    BY <1>1 DEF ExitIsGraceful
  <1>11. ParentType' /\ UsesInv' /\ LifeInv' /\ TreeInv' /\ RankInv' /\ ValueInv' /\ CallInv'
    BY <1>1, SameInv
  <1> QED
    BY <1>2, <1>4, <1>5, <1>6, <1>7, <1>8, <1>9, <1>10, <1>11

\* When the interpreter exits, only handlers are left to close anything.
LEMMA ExitFacts ==
  ASSUME IInv, phase # "up"
  PROVE  /\ \A t \in Tasks : /\ run[t] = NoTask /\ at[t] = "absent"
                             /\ runctx[t] = NoContext /\ closers[t] = {}
         /\ \A t \in Tasks, i \in 1..MaxFrames, c \in ContextOrNone : <<t, i, c>> \notin Scopes
         /\ workers \subseteq Handled
  <1> USE DEF IInv
  <1>1. \A t \in Tasks : run[t] = NoTask /\ at[t] = "absent"
    BY DEF DefaultInv, LifeInv, Alive
  <1>2. \A t \in Tasks : runctx[t] = NoContext /\ closers[t] = {}
    BY <1>1, DefaultContextAssumption DEF RunInv
  <1>3. \A t \in Tasks : frames[t] = <<>>
    BY <1>1 DEF UsesInv, Alive
  <1>4. ASSUME NEW t \in Tasks, NEW i \in 1..MaxFrames, NEW c \in ContextOrNone
        PROVE  <<t, i, c>> \notin Scopes
    <2>1. Len(frames[t]) = 0 /\ ~(i <= 0)
      BY <1>3, DefaultContextAssumption
    <2> QED
      BY <2>1, FrameFacts
  <1>5. workers \subseteq Handled
    BY <1>1, <1>2, <1>4 DEF CloserInv, VarTypes, ContextOrNone
  <1> QED
    BY <1>1, <1>2, <1>4, <1>5

\* An exit handler runs: that of a context, or multiprocessing's when no worker
\* is left.
LEMMA RunHandlerStep ==
  ASSUME IInv, RunHandler
  PROVE  IInv'
  <1> USE DEF IInv
  <1>1. /\ phase = "exiting" /\ phase' \in {"exiting", "down"}
        /\ UNCHANGED <<platform, at, run, parent, value, frames, uses, state, default, runctx,
                       closers, ending, configuring>>
    BY DEF RunHandler, treeVars, callVars, runVars
  <1>2. /\ UNCHANGED <<Scopes, Nurseries>> /\ StackTypes'
    BY <1>1, SameFrames
  <1>3. /\ \A t \in Tasks : at[t] = "absent" /\ closers[t] = {}
        /\ \A t \in Tasks, i \in 1..MaxFrames, c \in ContextOrNone : <<t, i, c>> \notin Scopes
        /\ workers \subseteq Handled
    BY <1>1, ExitFacts
  <1>4. /\ HandlerInv' /\ Handled' \subseteq Handled /\ workers' \subseteq workers
        /\ workers' \subseteq Handled' /\ (phase' = "down" => workers' = {})
    <2>1. CASE Last(handlers) = NoContext
      <3>1. phase' = "down" /\ UNCHANGED <<handlers, workers>>
        BY <2>1 DEF RunHandler
      <3>2. Handled = {NoContext} /\ UNCHANGED Handled /\ HandlerInv'
        BY <2>1, <3>1, HandledFacts, SameHandlers
      <3>3. workers = {}
        BY <1>3, <3>2, DefaultContextAssumption DEF VarTypes
      <3> QED
        BY <3>1, <3>2, <3>3
    <2>2. CASE Last(handlers) # NoContext
      <3>1. /\ workers' = workers \ {Last(handlers)} /\ handlers' = Front(handlers)
            /\ phase' = "exiting"
        BY <1>1, <2>2 DEF RunHandler
      <3> QED
        BY <1>3, <2>2, <3>1, HandledFacts
    <2> QED
      BY <2>1, <2>2
  <1>5. VarTypes'
    BY <1>1, <1>4 DEF VarTypes
  <1>6. ParentType' /\ UsesInv' /\ LifeInv' /\ TreeInv' /\ RankInv' /\ ValueInv'
    BY <1>1, SameInv
  <1>7. ScopeInv' /\ ClosingInv' /\ CallInv'
    BY <1>1, <1>2, <1>3 DEF ScopeInv, ClosingInv, CallInv
  <1>8. DefaultInv'
    BY <1>1, <1>4 DEF DefaultInv
  <1>9. RunInv'
    BY <1>1, <1>3 DEF RunInv
  <1>10. CloserInv' /\ ExitIsGraceful'
    BY <1>4 DEF CloserInv, ExitIsGraceful
  <1> QED
    BY <1>2, <1>4, <1>5, <1>6, <1>7, <1>8, <1>9, <1>10

-----------------------------------------------------------------------------
(***************************************************************************)
(* The theorems.                                                           *)
(***************************************************************************)

\* The invariant holds after the import.
LEMMA InitInv ==
  ASSUME Init
  PROVE  IInv
  <1> USE DEF Init
  <1>1. /\ \A t \in Tasks : /\ at[t] = "absent" /\ run[t] = NoTask /\ frames[t] = <<>>
                            /\ uses[t] = NoContext /\ value[t] = NoContext
                            /\ runctx[t] = NoContext /\ closers[t] = {}
        /\ NoTask \notin Tasks /\ NoContext \notin Contexts /\ FirstDefault \in Contexts
    BY DefaultContextAssumption
  <1>2. VarTypes
    <2>1. NoContext \in ContextOrNone /\ FirstDefault \in ContextOrNone
      BY <1>1 DEF ContextOrNone
    <2>2. state \in [Contexts -> {"open", "closing", "closed"}]
      OBVIOUS
    <2> QED
      BY <2>1, <2>2 DEF VarTypes
  <1>3. StackTypes
    BY <1>1, DefaultContextAssumption DEF StackTypes
  <1>4. ParentType
    BY DefaultContextAssumption DEF ParentType
  <1>5. UsesInv /\ LifeInv /\ TreeInv /\ CallInv /\ ClosingInv
    BY <1>1 DEF UsesInv, LifeInv, TreeInv, CallInv, ClosingInv, Alive
  <1>6. RankInv
    <2>1. [t \in Tasks |-> 0] \in [Tasks -> Nat]
      OBVIOUS
    <2> QED
      BY <1>1, <2>1 DEF RankInv, Alive
  <1>7. \A t \in Tasks, i \in 1..MaxFrames, c \in ContextOrNone :
          <<t, i, c>> \notin Scopes /\ <<t, i, c>> \notin Nurseries
    <2>1. ASSUME NEW t \in Tasks, NEW i \in 1..MaxFrames, NEW c \in ContextOrNone
          PROVE  <<t, i, c>> \notin Scopes /\ <<t, i, c>> \notin Nurseries
      <3>1. Len(frames[t]) = 0 /\ ~(i <= 0)
        BY <1>1, DefaultContextAssumption
      <3> QED
        BY <1>3, <3>1, FrameFacts
    <2> QED
      BY <2>1
  <1>8. ScopeInv /\ ValueInv
    BY <1>1, <1>7 DEF ScopeInv, ValueInv, ContextOrNone
  <1>9. HandlerInv
    <2>1. NoContext \in ContextOrNone /\ FirstDefault \in ContextOrNone
      BY <1>1 DEF ContextOrNone
    <2>2. CASE handlers = <<NoContext>>
      BY <2>1, <2>2 DEF HandlerInv
    <2>3. CASE handlers = <<NoContext, FirstDefault>>
      <3>1. /\ handlers \in Seq(ContextOrNone) /\ Len(handlers) = 2
            /\ handlers[1] = NoContext /\ handlers[2] = FirstDefault
        BY <2>1, <2>3
      <3> QED
        BY <1>1, <3>1 DEF HandlerInv
    <2> QED
      BY <2>2, <2>3
  <1>10. platform = "posix" => default = FirstDefault /\ FirstDefault \in Handled
    <2>1. platform = "posix" => 2 \in DOMAIN handlers /\ handlers[2] = FirstDefault
      OBVIOUS
    <2> QED
      BY <2>1 DEF Handled, Range
  <1>11. \A c \in Contexts : c \in Handled => state[c] = "open"
    <2>1. CASE platform = "posix"
      <3>1. Handled \subseteq {NoContext, FirstDefault}
        BY <2>1 DEF Handled, Range
      <3> QED
        BY <1>1, <2>1, <3>1
    <2>2. CASE platform # "posix"
      <3>1. Handled \subseteq {NoContext}
        BY <2>2 DEF Handled, Range
      <3> QED
        BY <1>1, <3>1
    <2> QED
      BY <2>1, <2>2
  <1>12. DefaultInv
    BY <1>1, <1>10, <1>11 DEF DefaultInv
  <1>13. RunInv
    BY <1>1 DEF RunInv
  <1>14. CloserInv /\ ExitIsGraceful
    BY DEF CloserInv, ExitIsGraceful
  <1> QED
    BY <1>2, <1>3, <1>4, <1>5, <1>6, <1>8, <1>9, <1>12, <1>13, <1>14 DEF IInv

\* Every step preserves it.
LEMMA NextInv ==
  ASSUME IInv, Next
  PROVE  IInv'
  <1>1. ASSUME NEW t \in Tasks, TaskStep(t)
        PROVE  IInv'
    <2>1. CASE \/ OpenNursery(t) \/ CloseNursery(t) \/ TaskEnds(t) \/ ExitScope(t) \/ ScopeClosed(t)
      BY <2>1, OpenNurseryStep, CloseNurseryStep, TaskEndsStep, ExitScopeStep, ScopeClosedStep
    <2>2. CASE GetContext(t) \/ EnterContext(t) \/ CallEnds(t)
      BY <2>2, GetContextStep, EnterContextStep, CallEndsStep
    <2>3. CASE \E c \in Contexts : EnterScope(t, c) \/ MakeRunContext(t, c)
      BY <2>3, EnterScopeStep, MakeRunContextStep
    <2>4. CASE \E p, child \in Tasks, depth \in 1..MaxFrames : Spawn(t, p, depth, child)
      BY <2>4, SpawnStep
    <2> QED
      BY <1>1, <2>1, <2>2, <2>3, <2>4 DEF TaskStep
  <1>2. ASSUME NEW r \in Tasks, RunStep(r)
        PROVE  IInv'
    BY <1>2, RunBeginsStep, RunEndsStep, CloseAtRunEndStep DEF RunStep
  <1>3. ASSUME MainThreadStep
        PROVE  IInv'
    BY <1>3, CheckDefaultStep, NewDefaultStep, ExitBeginsStep, RunHandlerStep DEF MainThreadStep
  <1> QED
    BY <1>1, <1>2, <1>3 DEF Next

LEMMA StutterInv ==
  ASSUME IInv, UNCHANGED vars
  PROVE  IInv'
  <1> USE DEF IInv, vars, treeVars, callVars, ctxVars, defaultVars, runVars
  <1>1. StackTypes' /\ HandlerInv'
    BY SameFrames, SameHandlers
  <1> QED
    BY <1>1, SameInv

\* The inductive invariant: who holds each context, along the tree of tasks.
THEOREM Invariant == Spec => []IInv
  <1>1. Init => IInv
    BY InitInv
  <1>2. IInv /\ [Next]_vars => IInv'
    BY NextInv, StutterInv
  <1> QED
    BY <1>1, <1>2, PTL DEF Spec

\* Type correctness.
THEOREM TypeCorrect == Spec => []TypeOK
  <1>1. IInv => TypeOK
    <2> SUFFICES ASSUME IInv
                 PROVE  TypeOK
      OBVIOUS
    <2>1. VarTypes /\ StackTypes /\ ParentType /\ UsesInv /\ HandlerInv
      BY DEF IInv
    <2>2. \A t \in Tasks : /\ parent[t].task \in Tasks \cup {NoTask}
                           /\ parent[t].depth \in 0..MaxFrames
      BY <2>1 DEF ParentType
    <2>3. frames \in [Tasks -> Seq([kind : {"scope", "nursery"}, ctx : ContextOrNone])]
      BY <2>1 DEF StackTypes, Frame
    <2> QED
      BY <2>1, <2>2, <2>3 DEF TypeOK, VarTypes, UsesInv, HandlerInv, Alive
  <1> QED
    BY <1>1, Invariant, PTL

\* A call of run_sync never finds its context closing, and a context never
\* closes under one, however tasks start each other in the nurseries of their
\* run: a child has the value of the nursery, and the scope cannot be left
\* before it ends.
THEOREM CallsNeverLoseContext == Spec => []CallsKeepContext
  <1>1. IInv => CallsKeepContext
    BY CallFacts DEF IInv, CallsKeepContext
  <1> QED
    BY <1>1, Invariant, PTL

\* atexit closes every context with workers before multiprocessing's handler
\* would terminate them.
THEOREM ExitAlwaysGraceful == Spec => []ExitIsGraceful
  <1>1. IInv => ExitIsGraceful
    BY DEF IInv
  <1> QED
    BY <1>1, Invariant, PTL

\* Idle workers belong to a context that an exit handler, a system task, a task
\* on its way out of a scope, or an open scope will close.
THEOREM WorkersAlwaysHaveCloser == Spec => []WorkersHaveCloser
  <1>1. ASSUME IInv
        PROVE  WorkersHaveCloser
    <2>1. VarTypes /\ StackTypes /\ CloserInv
      BY <1>1 DEF IInv
    <2>2. ASSUME NEW t \in Tasks, NEW i \in 1..MaxFrames, NEW c \in workers, <<t, i, c>> \in Scopes
          PROVE  \E j \in DOMAIN frames[t] : frames[t][j] = [kind |-> "scope", ctx |-> c]
      <3>1. c \in ContextOrNone
        BY <2>1 DEF VarTypes, ContextOrNone
      <3>2. i <= Len(frames[t]) /\ frames[t][i].kind = "scope" /\ frames[t][i].ctx = c
        BY <2>1, <2>2, <3>1, OpenedFacts DEF Scopes
      <3>3. i \in DOMAIN frames[t]
        BY <2>1, <3>2, StackFacts, DefaultContextAssumption
      <3>4. i \in 1..Len(frames[t])
        BY <2>1, <3>2, StackFacts, DefaultContextAssumption
      <3>5. frames[t][i] = [kind |-> "scope", ctx |-> c]
        BY <2>1, <3>2, <3>4, StackFacts DEF Frame
      <3> QED
        BY <3>3, <3>5
    <2> QED
      BY <2>1, <2>2 DEF WorkersHaveCloser, CloserInv, Handled
  <1> QED
    BY <1>1, Invariant, PTL
=============================================================================

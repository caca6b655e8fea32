------------------------- MODULE ForkSiblingsProofs -------------------------
(***************************************************************************)
(* Theorems about ForkSiblings, for every number of workers.               *)
(***************************************************************************)
EXTENDS ForkSiblings, TLAPS

\* A worker that has not been forked has neither a process nor pipes.
UnforkedInv ==
  \A w \in Workers : w > forked =>
    proc[w] = "none" /\ sendEnds[w] = {} /\ recvEnds[w] = {}

IInv == TypeOK /\ UnforkedInv /\ OnlyYoungerHold

-----------------------------------------------------------------------------
LEMMA InitInv == Init => IInv
  <1> SUFFICES ASSUME Init PROVE IInv
    OBVIOUS
  <1>1. TypeOK
    <2>1. forked \in 0..NumWorkers
      BY ForkSiblingsAssumption DEF Init
    <2>2. closing \in BOOLEAN /\ mainUp \in BOOLEAN
      BY Zenon DEF Init
    <2>3. job \in [Workers -> BOOLEAN]
      BY Zenon DEF Init
    <2>4. /\ proc \in [Workers -> {"none"}] /\ call \in [Workers -> {"none"}]
          /\ answer \in [Workers -> {"none"}]
          /\ sendEnds \in [Workers -> SUBSET Holders]
          /\ recvEnds \in [Workers -> SUBSET Holders]
      BY DEF Init
    <2> QED
      BY <2>1, <2>2, <2>3, <2>4 DEF TypeOK
  <1>2. UnforkedInv /\ OnlyYoungerHold
    BY DEF Init, UnforkedInv, OnlyYoungerHold
  <1> QED
    BY <1>1, <1>2 DEF IInv

\* Steps that leave the pipe ends alone, and take no process to its start or
\* its end.
LEMMA QuietStep ==
  ASSUME IInv, TypeOK', UNCHANGED <<forked, ends>>,
         \A v \in Workers : /\ (v > forked => proc'[v] = proc[v])
                            /\ (Alive(v) => Alive(v)')
                            /\ (proc[v] = "boot" => proc'[v] = "boot")
  PROVE  IInv'
  BY DEF IInv, TypeOK, UnforkedInv, OnlyYoungerHold, Alive, ends, Workers, Holders

\* A process ends and lets go of everything it holds.
LEMMA GoneStep ==
  ASSUME IInv, NEW w \in Workers, Alive(w), Gone(w), UNCHANGED job,
         answer' \in [Workers -> {"none", "result", "sentinel"}]
  PROVE  IInv'
  <1>1. TypeOK'
    BY DEF IInv, TypeOK, Gone, Without, Holders
  <1>2. UnforkedInv'
    BY DEF IInv, TypeOK, UnforkedInv, Gone, Without, Alive
  <1>3. OnlyYoungerHold'
    BY DEF IInv, TypeOK, OnlyYoungerHold, Gone, Without, Alive
  <1> QED
    BY <1>1, <1>2, <1>3 DEF IInv

\* Steps of the main process that only remove holders.
LEMMA CloseStep ==
  ASSUME IInv, TypeOK', UNCHANGED <<forked, proc>>,
         \A v \in Workers : sendEnds'[v] \subseteq sendEnds[v] /\ recvEnds'[v] \subseteq recvEnds[v]
  PROVE  IInv'
  <1>1. UnforkedInv'
    BY DEF IInv, UnforkedInv
  <1>2. OnlyYoungerHold'
    BY DEF IInv, OnlyYoungerHold, Alive
  <1> QED
    BY <1>1, <1>2 DEF IInv

\* The new worker is younger than all whose ends it inherits.
LEMMA ForkStep == IInv /\ Fork => IInv'
  <1> SUFFICES ASSUME IInv, Fork PROVE IInv'
    OBVIOUS
  <1> DEFINE w == forked + 1
  <1>1. w \in Workers /\ forked \in Nat /\ proc[w] = "none"
    BY ForkSiblingsAssumption DEF IInv, TypeOK, UnforkedInv, Fork, Workers
  <1>2. TypeOK'
    BY <1>1 DEF IInv, TypeOK, Fork, Inherited, Workers, Holders
  <1>3. UnforkedInv'
    BY <1>1 DEF IInv, TypeOK, UnforkedInv, Fork, Inherited, Workers, Holders, Main
  <1>4. ASSUME NEW x \in Workers, NEW v \in Workers, v \in (sendEnds[x] \cup recvEnds[x])'
        PROVE  Alive(v)' /\ (x < v \/ (x = v /\ proc'[v] = "boot"))
    <2>1. CASE v \in sendEnds[x] \cup recvEnds[x]
      <3>1. v # w
        BY <2>1, <1>1 DEF IInv, OnlyYoungerHold, Alive
      <3> QED
        BY <2>1, <3>1 DEF IInv, TypeOK, OnlyYoungerHold, Alive, Fork
    <2>2. CASE v \notin sendEnds[x] \cup recvEnds[x]
      <3>1. v = w
        BY <2>2, <1>1, <1>4 DEF IInv, TypeOK, Fork, Inherited, Main, Workers
      <3>2. proc'[v] = "boot" /\ Alive(v)'
        BY <3>1, <1>1 DEF IInv, TypeOK, Fork, Alive
      <3>3. x <= w
        <4>1. CASE x > w
          <5>1. sendEnds[x] = {} /\ recvEnds[x] = {} /\ x # w
            BY <4>1, <1>1 DEF IInv, UnforkedInv, Workers
          <5>2. sendEnds'[x] = {} /\ recvEnds'[x] = {}
            BY <5>1 DEF Fork, Inherited, Main
          <5> QED
            BY <5>2, <1>4
        <4> QED
          BY <4>1, <1>1 DEF Workers
      <3> QED
        BY <3>1, <3>2, <3>3, <1>1 DEF Workers
    <2> QED
      BY <2>1, <2>2
  <1>5. OnlyYoungerHold'
    BY <1>4 DEF OnlyYoungerHold
  <1> QED
    BY <1>2, <1>3, <1>5 DEF IInv

\* A child that has closed its own ends holds those of its elders only.
LEMMA BootStep == ASSUME IInv, NEW w \in Workers, Boot(w) PROVE IInv'
  <1>1. TypeOK'
    BY DEF IInv, TypeOK, Boot, Holders
  <1>2. UnforkedInv'
    BY DEF IInv, TypeOK, UnforkedInv, Boot, Workers
  <1>3. OnlyYoungerHold'
    BY DEF IInv, TypeOK, OnlyYoungerHold, Boot, Alive
  <1> QED
    BY <1>1, <1>2, <1>3 DEF IInv

\* A step of a call, of the cache or of the shutdown of one worker.
LEMMA MainStepInv ==
  ASSUME IInv, NEW w \in Workers, MainStep(w) \/ Take(w) \/ Cancel(w)
  PROVE  IInv'
  <1>1. CASE SendJob(w) \/ ReceiveAnswer(w) \/ Discard(w) \/ Take(w) \/ Cancel(w)
    <2>1. TypeOK'
      BY <1>1 DEF IInv, TypeOK, SendJob, ReceiveAnswer, Discard, Take, Cancel, ends
    <2>2. UNCHANGED <<forked, ends, proc>>
      BY <1>1 DEF SendJob, ReceiveAnswer, Discard, Take, Cancel
    <2> QED
      BY <2>1, <2>2, QuietStep DEF Alive
  <1>2. CASE ReceiveEof(w) \/ ShutdownWorker(w)
    <2>1. TypeOK'
      BY <1>2 DEF IInv, TypeOK, ReceiveEof, ShutdownWorker
    <2>2. \A v \in Workers : sendEnds'[v] \subseteq sendEnds[v] /\ recvEnds'[v] \subseteq recvEnds[v]
      BY <1>2 DEF IInv, TypeOK, ReceiveEof, ShutdownWorker
    <2> QED
      BY <1>2, <2>1, <2>2, CloseStep DEF ReceiveEof, ShutdownWorker
  <1> QED
    BY <1>1, <1>2 DEF MainStep

\* A worker goes on or ends.
LEMMA WorkerStepInv ==
  ASSUME IInv, NEW w \in Workers,
         WorkerStep(w) \/ Fault(w) \/ Spin(w) \/ IdleTimeout(w) \/ Die(w)
  PROVE  IInv'
  <1> DEFINE OnwardStep(place) == /\ proc[w] \notin {"none", "boot", "dead"}
                                  /\ Goto(w, place)
  <1>1. ASSUME NEW place \in {"poll", "job", "put", "retire", "drain", "leave", "spin"},
               OnwardStep(place),
               job' \in [Workers -> BOOLEAN],
               answer' \in [Workers -> {"none", "result", "sentinel"}]
        PROVE  IInv'
    <2>1. TypeOK'
      BY <1>1 DEF IInv, TypeOK, Goto, ends
    <2>2. w <= forked
      BY <1>1 DEF IInv, TypeOK, UnforkedInv, Workers
    <2>3. \A v \in Workers : /\ (v > forked => proc'[v] = proc[v])
                             /\ (Alive(v) => Alive(v)')
                             /\ (proc[v] = "boot" => proc'[v] = "boot")
      BY <1>1, <2>2 DEF IInv, TypeOK, Goto, Alive, Workers
    <2> QED
      BY <1>1, <2>1, <2>3, QuietStep DEF Goto
  <1>2. CASE UserReturns(w) \/ Fault(w) \/ Spin(w) \/ IdleTimeout(w)
    BY <1>1, <1>2 DEF UserReturns, Fault, Spin, IdleTimeout, IInv, TypeOK
  <1>3. CASE ReceiveJob(w)
    BY <1>1, <1>3 DEF ReceiveJob, IInv, TypeOK
  <1>4. CASE SendResult(w) \/ SendLongResult(w)
    BY <1>1, <1>4, GoneStep DEF SendResult, SendLongResult, Alive, IInv, TypeOK
  <1>5. CASE MeetEof(w) \/ Leave(w) \/ Killed(w) \/ Die(w)
    BY <1>5, GoneStep DEF MeetEof, Leave, Killed, Die, Alive, IInv, TypeOK
  <1>6. CASE Boot(w)
    BY <1>6, BootStep
  <1> QED
    BY <1>2, <1>3, <1>4, <1>5, <1>6 DEF WorkerStep

-----------------------------------------------------------------------------
(***************************************************************************)
(* Jobs and results.                                                       *)
(***************************************************************************)

\* Nothing was ever sent to or by a worker that has not been forked.
FreshInv ==
  \A w \in Workers : proc[w] = "none" =>
    call[w] = "none" /\ ~job[w] /\ answer[w] = "none"

\* While its answer is awaited, a job is in one place: in the job pipe, at work
\* or, as a result, in the result pipe.
InOnePlace ==
  \A w \in Workers : call[w] = "recv" =>
    /\ job[w] => proc[w] \notin {"job", "put"} /\ answer[w] # "result"
    /\ proc[w] \in {"job", "put"} => answer[w] # "result"

ExchangeInv == FreshInv /\ InOnePlace /\ OneExchange

\* ExchangeInv speaks of one worker at a time.
LEMMA OtherWorkers ==
  ASSUME ExchangeInv, NEW w \in Workers,
         \A v \in Workers : v # w =>
           /\ proc'[v] = proc[v] /\ call'[v] = call[v]
           /\ job'[v] = job[v] /\ answer'[v] = answer[v],
         proc'[w] = "none" => call'[w] = "none" /\ ~job'[w] /\ answer'[w] = "none",
         call'[w] = "recv" =>
           /\ job'[w] => proc'[w] \notin {"job", "put"} /\ answer'[w] # "result"
           /\ proc'[w] \in {"job", "put"} => answer'[w] # "result",
         call'[w] \in {"idle", "send"} =>
           ~job'[w] /\ answer'[w] # "result" /\ proc'[w] \notin {"job", "put"}
  PROVE  ExchangeInv'
  <1>1. FreshInv'
    BY DEF ExchangeInv, FreshInv
  <1>2. InOnePlace'
    BY DEF ExchangeInv, InOnePlace
  <1>3. OneExchange'
    BY DEF ExchangeInv, OneExchange
  <1> QED
    BY <1>1, <1>2, <1>3 DEF ExchangeInv

LEMMA ExchangeStep ==
  ASSUME IInv, ExchangeInv, Next
  PROVE  ExchangeInv'
  <1>1. CASE Fork
    <2> DEFINE w == forked + 1
    <2>1. w \in Workers /\ proc[w] = "none"
      BY <1>1, ForkSiblingsAssumption DEF IInv, TypeOK, UnforkedInv, Fork, Workers
    <2>2. ~job[w] /\ answer[w] = "none"
      BY <2>1 DEF ExchangeInv, FreshInv
    <2>3. /\ proc' = [proc EXCEPT ![w] = "boot"] /\ call' = [call EXCEPT ![w] = "send"]
          /\ job' = job /\ answer' = answer
      BY <1>1 DEF Fork
    <2> HIDE DEF w
    <2> QED
      BY <2>1, <2>2, <2>3, OtherWorkers DEF IInv, TypeOK
  <1>2. CASE Shutdown \/ MainCrash
    BY <1>2 DEF Shutdown, MainCrash, ExchangeInv, FreshInv, InOnePlace, OneExchange
  <1>3. ASSUME NEW w \in Workers, MainStep(w) \/ Take(w) \/ Cancel(w)
        PROVE  ExchangeInv'
    <2>1. /\ proc[w] = "none" => call[w] = "none" /\ ~job[w] /\ answer[w] = "none"
          /\ call[w] = "recv" =>
               /\ job[w] => proc[w] \notin {"job", "put"} /\ answer[w] # "result"
               /\ proc[w] \in {"job", "put"} => answer[w] # "result"
          /\ call[w] \in {"idle", "send"} =>
               ~job[w] /\ answer[w] # "result" /\ proc[w] \notin {"job", "put"}
      BY DEF ExchangeInv, FreshInv, InOnePlace, OneExchange
    <2>2. CASE SendJob(w)
      BY <2>1, <2>2, OtherWorkers DEF SendJob, IInv, TypeOK
    <2>3. CASE ReceiveAnswer(w)
      BY <2>1, <2>3, OtherWorkers DEF ReceiveAnswer, IInv, TypeOK
    <2>4. CASE ReceiveEof(w) \/ Discard(w) \/ Cancel(w)
      BY <2>1, <2>4, OtherWorkers DEF ReceiveEof, Discard, Cancel, IInv, TypeOK
    <2>5. CASE ShutdownWorker(w) \/ Take(w)
      BY <2>1, <2>5, OtherWorkers DEF ShutdownWorker, Take, IInv, TypeOK
    <2> QED
      BY <1>3, <2>2, <2>3, <2>4, <2>5 DEF MainStep
  <1>4. ASSUME NEW w \in Workers,
               WorkerStep(w) \/ Fault(w) \/ Spin(w) \/ IdleTimeout(w) \/ Die(w)
        PROVE  ExchangeInv'
    <2>1. /\ proc[w] = "none" => call[w] = "none" /\ ~job[w] /\ answer[w] = "none"
          /\ call[w] = "recv" =>
               /\ job[w] => proc[w] \notin {"job", "put"} /\ answer[w] # "result"
               /\ proc[w] \in {"job", "put"} => answer[w] # "result"
          /\ call[w] \in {"idle", "send"} =>
               ~job[w] /\ answer[w] # "result" /\ proc[w] \notin {"job", "put"}
      BY DEF ExchangeInv, FreshInv, InOnePlace, OneExchange
    <2>2. CASE Boot(w) \/ UserReturns(w) \/ Fault(w) \/ Spin(w) \/ IdleTimeout(w)
      BY <2>1, <2>2, OtherWorkers
      DEF Boot, UserReturns, Fault, Spin, IdleTimeout, Goto, IInv, TypeOK
    <2>3. CASE ReceiveJob(w)
      BY <2>1, <2>3, OtherWorkers DEF ReceiveJob, Goto, IInv, TypeOK
    <2>4. CASE SendResult(w) \/ SendLongResult(w)
      BY <2>1, <2>4, OtherWorkers DEF SendResult, SendLongResult, Goto, Gone, IInv, TypeOK
    <2>5. CASE MeetEof(w) \/ Leave(w) \/ Killed(w) \/ Die(w)
      BY <2>1, <2>5, OtherWorkers
      DEF MeetEof, Leave, Killed, Die, Alive, Gone, IInv, TypeOK
    <2> QED
      BY <1>4, <2>2, <2>3, <2>4, <2>5 DEF WorkerStep
  <1> QED
    BY <1>1, <1>2, <1>3, <1>4 DEF Next

LEMMA ExchangeStutter ==
  ASSUME ExchangeInv, UNCHANGED vars
  PROVE  ExchangeInv'
  BY DEF vars, ExchangeInv, FreshInv, InOnePlace, OneExchange

-----------------------------------------------------------------------------
LEMMA NextInv == IInv /\ [Next]_vars => IInv'
  <1> SUFFICES ASSUME IInv, [Next]_vars PROVE IInv'
    OBVIOUS
  <1>1. CASE Fork
    BY <1>1, ForkStep
  <1>2. CASE Shutdown
    BY <1>2, QuietStep DEF Shutdown, IInv, TypeOK, Alive, ends
  <1>3. CASE MainCrash
    <2>1. TypeOK'
      BY <1>3 DEF MainCrash, Without, IInv, TypeOK, Holders
    <2> QED
      BY <1>3, <2>1, CloseStep DEF MainCrash, Without
  <1>4. CASE \E w \in Workers : MainStep(w) \/ Take(w) \/ Cancel(w)
    BY <1>4, MainStepInv
  <1>5. CASE \E w \in Workers :
               WorkerStep(w) \/ Fault(w) \/ Spin(w) \/ IdleTimeout(w) \/ Die(w)
    BY <1>5, WorkerStepInv
  <1>6. CASE UNCHANGED vars
    BY <1>6, QuietStep DEF vars, ends, IInv, TypeOK, Alive
  <1> QED
    BY <1>1, <1>2, <1>3, <1>4, <1>5, <1>6 DEF Next

-----------------------------------------------------------------------------
\* The inductive invariant holds in every reachable state of any number of
\* forked workers.
THEOREM InvariantHolds == SafeSpec => []IInv
  BY InitInv, NextInv, PTL DEF SafeSpec

\* Every variable keeps its type; only holders that exist hold an end.
THEOREM TypeCorrect == SafeSpec => []TypeOK
  BY InvariantHolds, PTL DEF IInv

\* No worker's pipe ends are ever held by an elder sibling, or by itself once
\* it runs user code, so the workers can always end one after the other
\* (ForkProcWorker._run closes its own ends and no others).
THEOREM NoCycleOfHolders == SafeSpec => []OnlyYoungerHold
  BY InvariantHolds, PTL DEF IInv

\* However calls are cancelled, workers fail and the main process forks, closes
\* or crashes, no job is sent to a worker that is not through with the last one,
\* and no result waits there for the wrong call.
THEOREM ExchangesDoNotOverlap == SafeSpec => []OneExchange
  <1>1. Init => ExchangeInv
    BY DEF Init, ExchangeInv, FreshInv, InOnePlace, OneExchange
  <1>2. IInv /\ ExchangeInv /\ [Next]_vars => ExchangeInv'
    BY ExchangeStep, ExchangeStutter
  <1>3. ExchangeInv => OneExchange
    BY DEF ExchangeInv
  <1> QED
    BY <1>1, <1>2, <1>3, InvariantHolds, PTL DEF SafeSpec
=============================================================================

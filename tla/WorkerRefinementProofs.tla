----------------------- MODULE WorkerRefinementProofs -----------------------
(***************************************************************************)
(* WorkerProc implements WorkerContract: the initial states map to initial *)
(* states, and every step from a state of the invariant maps to a step of  *)
(* the contract or leaves its variables unchanged.                         *)
(***************************************************************************)
EXTENDS WorkerRefinement, WorkerProcProofs

\* The contract's variables, as functions of the variables of WorkerProc.
barVars == <<phaseBar, Alive, job, ran, outcome>>

\* A fresh handle maps to a contract that has not started.
LEMMA InitRefines == Init => Contract!Init
  BY DEF Init, Contract!Init, phaseBar, Alive, Jobs, Contract!Jobs

\* The steps of either side that the caller of run_sync cannot tell apart.
LEMMA InternalSteps ==
  ASSUME IInv,
         \/ FinishStart \/ WriteChunk \/ WriteBroken \/ WriteClosed
         \/ ReadChunk \/ ReadEof \/ ReadTruncated \/ Cancel
         \/ Shutdown \/ GraceExpired
  PROVE  UNCHANGED barVars
  BY DEF FinishStart, WriteChunk, WriteBroken, WriteClosed, ReadChunk, ReadEof,
         ReadTruncated, Cancel, Shutdown, GraceExpired, AwaitEnd, KillAndRaise,
         callVars, procVars, barVars, phaseBar, Alive

LEMMA InternalWorkerSteps ==
  ASSUME IInv,
         \/ Boot \/ RunInit \/ Spin \/ PollTrue \/ PollTimeout \/ RecvEof
         \/ (\E size \in Sizes : JobDone(size)) \/ ResultUnsendable
         \/ SendBroken \/ RunRetire \/ CloseRecv \/ SendSentinel \/ CloseSend
         \/ Drain \/ DrainEof \/ ExitHangs
  PROVE  UNCHANGED barVars
  BY DEF Boot, RunInit, Spin, PollTrue, PollTimeout, RecvEof, JobDone, ResultUnsendable,
         SendBroken, RunRetire, CloseRecv, SendSentinel, CloseSend, Drain,
         DrainEof, ExitHangs, Fault, Graceful, Goto,
         callVars, procVars, barVars, phaseBar, Alive

LEMMA LaunchSteps ==
  ASSUME IInv, Start \/ StartFork \/ StartAborted
  PROVE  Contract!Launch
  BY DEF IInv, EndsInv, Start, StartFork, StartAborted, procVars,
         Contract!Launch, phaseBar, Alive

LEMMA SubmitSteps ==
  ASSUME IInv,
         \/ \E size \in Sizes, cancellable \in BOOLEAN : Submit(size, cancellable)
         \/ SubmitUnpicklable
  PROVE  Contract!Submit
  BY DEF Submit, SubmitUnpicklable, procVars, Contract!Submit, phaseBar, Alive

LEMMA EndSteps == ASSUME IInv, Exit \/ Die PROVE Contract!Terminate
  BY DEF Exit, Die, End, Goto, callVars, Contract!Terminate, phaseBar, Alive

LEMMA OrphanStep == ASSUME IInv, MainCrash PROVE Contract!Orphan
  BY DEF MainCrash, procVars, Contract!Orphan, phaseBar, Alive

LEMMA RecvChunkRefines ==
  ASSUME IInv, RecvChunk
  PROVE  Contract!Begin \/ UNCHANGED barVars
  <1>1. /\ pc = "recv" /\ call # "discarded" /\ UNCHANGED callVars
        /\ jobPipe \in Seq(Chunks) /\ jobPipe # <<>>
    BY DEF RecvChunk, IInv, TypeOK, EndsInv
  <1>2. CASE Head(jobPipe).last
    <2>1. /\ job \in Jobs /\ ran[job] = "no" /\ call \in {"recv", "wait", "crashed"}
          /\ Head(jobPipe).msg = job
      BY <1>1, <1>2, TailFacts DEF IInv, TypeOK, JobPipeInv, ProgressInv, Jobs
    <2>2. pc' = "run" /\ ran' = [ran EXCEPT ![job] = "started"]
      BY <1>2, <2>1 DEF RecvChunk, Goto
    <2> QED
      BY <1>1, <2>1, <2>2
      DEF Contract!Begin, Contract!Jobs, Jobs, phaseBar, Alive, callVars
  <1>3. CASE ~Head(jobPipe).last
    BY <1>1, <1>3 DEF RecvChunk, callVars, barVars, phaseBar, Alive
  <1> QED
    BY <1>2, <1>3

LEMMA SendChunkRefines ==
  ASSUME IInv, SendChunk
  PROVE  Contract!Finish \/ UNCHANGED barVars
  <1>1. /\ pc = "send" /\ wjob = job /\ job \in Jobs /\ ran[job] = "started"
        /\ call \in {"recv", "wait", "crashed"} /\ UNCHANGED callVars
    BY DEF SendChunk, IInv, TypeOK, ProgressInv, Jobs
  <1>2. \/ pc' = "retire" /\ ran' = [ran EXCEPT ![job] = "finished"]
        \/ pc' = pc /\ ran' = ran
    BY <1>1 DEF SendChunk, Goto
  <1> QED
    BY <1>1, <1>2 DEF Contract!Finish, Contract!Jobs, Jobs, callVars, barVars,
                      phaseBar, Alive

LEMMA ReadMessageRefines ==
  ASSUME IInv, ReadMessage
  PROVE  Contract!ReturnOutcome \/ UNCHANGED barVars
  <1>1. /\ call = "recv" /\ UNCHANGED procVars /\ 1 \in 1..Len(resPipe)
        /\ Head(resPipe) = resPipe[1] /\ Head(resPipe).last
    BY TailFacts DEF ReadMessage, IInv, TypeOK
  <1>2. CASE call' = "wait"
    BY <1>1, <1>2 DEF ReadMessage, AwaitEnd, KillAndRaise, procVars, barVars,
                      phaseBar, Alive
  <1>3. CASE call' # "wait"
    <2>1. Head(resPipe).msg = job /\ ran[job] = "finished"
      BY <1>1, <1>3 DEF ReadMessage, AwaitEnd, KillAndRaise, IInv, ResPipeInv
    <2> QED
      BY <1>1, <1>3, <2>1 DEF ReadMessage, AwaitEnd, KillAndRaise, procVars,
                              Contract!ReturnOutcome, phaseBar, Alive
  <1> QED
    BY <1>2, <1>3

LEMMA WaitDoneRefines ==
  ASSUME IInv, WaitDone
  PROVE  \/ Contract!ReturnNone
         \/ \E error \in {"broken", "oserror"} : Contract!RaiseBroken(error)
         \/ \E error \in {"cancelled", "unloadable", "closed"} :
              Contract!RaiseOther(error)
  <1>1. /\ call = "wait" /\ call' = "discarded" /\ ~Alive /\ pending \in Waited
        /\ outcome' = [outcome EXCEPT ![job] = pending]
        /\ UNCHANGED <<job, procVars>>
    BY DEF WaitDone, Alive, IInv, OutcomeInv
  <1>2. CASE pending = "retry"
    BY <1>1, <1>2 DEF IInv, OutcomeInv, procVars, Contract!ReturnNone, phaseBar,
                      Alive
  <1>3. CASE pending \in Lost
    BY <1>1, <1>3 DEF IInv, OutcomeInv, procVars, Lost, Contract!RaiseBroken,
                      phaseBar, Alive
  <1>4. CASE pending \in {"cancelled", "unloadable", "closed"}
    BY <1>1, <1>4 DEF procVars, Contract!RaiseOther, phaseBar, Alive
  <1> QED
    BY <1>1, <1>2, <1>3, <1>4 DEF Waited

\* Every step of WorkerProc is a step of the contract, or invisible to it.
LEMMA NextRefines ==
  IInv /\ [Next]_vars => [Contract!Next]_(Contract!contractVars)
  <1> SUFFICES ASSUME IInv, [Next]_vars
               PROVE  Contract!Next \/ UNCHANGED barVars
    BY DEF Contract!contractVars, barVars
  <1>1. CASE MainStep
    BY <1>1, InternalSteps, ReadMessageRefines, WaitDoneRefines
    DEF MainStep, Contract!Next
  <1>2. CASE WorkerStep
    BY <1>2, InternalWorkerSteps, RecvChunkRefines, SendChunkRefines, EndSteps
    DEF WorkerStep, Contract!Next
  <1>3. CASE Environment
    BY <1>3, InternalSteps, InternalWorkerSteps, LaunchSteps, SubmitSteps,
       EndSteps, OrphanStep
    DEF Environment, Contract!Next
  <1>4. CASE UNCHANGED vars
    BY <1>4 DEF vars, callVars, procVars, barVars, phaseBar, Alive
  <1> QED
    BY <1>1, <1>2, <1>3, <1>4 DEF Next

\* Whatever the message sizes, the pipe capacity and the start method, the
\* handle and its process implement AbstractWorker's contract.
THEOREM ContractImplemented == SafeSpec => ImplementsContract
  BY InitRefines, NextRefines, InvariantHolds, PTL
  DEF SafeSpec, ImplementsContract, Contract!Spec
=============================================================================

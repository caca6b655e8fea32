-------------------------- MODULE WorkerProcProofs --------------------------
(***************************************************************************)
(* Theorems about WorkerProc, for every number of jobs, every set of       *)
(* message sizes, every pipe capacity and either start method.  All of     *)
(* them follow from one inductive invariant, IInv.                         *)
(***************************************************************************)
EXTENDS WorkerProc, TLAPS

\* Where the worker still holds its end of the job pipe (of the result pipe).
Reading == {"boot", "init", "poll", "recv", "run", "send", "retire", "cleanup",
            "drain", "spin"}
Writing == {"boot", "init", "poll", "recv", "run", "send", "retire", "cleanup",
            "sentinel", "closing", "spin"}
Gone == {"exiting", "stuck", "dead"}
Leaving == {"closing"} \cup Gone
Faulty == {"fault", "raised", "killed"}
Lost == {"broken", "oserror"}
Waited == {"retry", "closed", "unloadable", "cancelled"} \cup Lost

\* The worker has answered every job it has begun.
Settled == wjob = 0 \/ ran[wjob] = "finished"

\* Which pipe ends are open, and when the process exists.
EndsInv ==
  /\ pc \in Reading => "w_recv_pipe" \in open
  /\ pc \in Writing => "w_send_pipe" \in open
  /\ call # "crashed" => "recv_pipe" \in open
  /\ call = "recv" => "send_pipe" \in open
  /\ call = "new" => pc = "absent"
  /\ pc = "absent" => call \in {"new", "discarded", "crashed"}
  /\ call = "discarded" => pc \in {"absent", "dead"}

\* The worker is at the latest job or an earlier one, and where it is in its
\* loop tells whether it has answered it.
ProgressInv ==
  /\ wjob <= job
  /\ \A j \in Jobs : j > wjob => ran[j] = "no"
  /\ pc \in {"absent", "boot", "init"} => wjob = 0
  /\ pc \in {"run", "send"} =>
       /\ wjob > 0 /\ ran[wjob] = "started" /\ wjob = job
       /\ call \in {"recv", "wait", "crashed"}
  /\ pc = "send" => wunsent > 0
  /\ pc \in {"poll", "recv", "retire", "cleanup", "sentinel", "closing"} => Settled

\* The job pipe holds chunks of one job, which the worker has not begun.
JobPipeInv ==
  /\ call \in {"send", "recv", "wait"} => job > 0
  /\ call = "send" => wjob < job /\ unsent > 0
  /\ jobPipe # <<>> =>
       /\ wjob < job /\ job > 0
       /\ call \in {"send", "recv", "wait", "discarded", "crashed"}
  /\ \A i \in 1..Len(jobPipe) :
       /\ jobPipe[i].msg = job
       /\ jobPipe[i].last => i = Len(jobPipe) /\ call # "send"

\* The result pipe holds chunks of the latest job's result, then at most one
\* sentinel, which only a worker that is leaving has sent.
ResPipeInv ==
  \A i \in 1..Len(resPipe) :
    /\ resPipe[i].msg = None =>
         resPipe[i].last /\ pc \in Leaving /\ i = Len(resPipe) /\ Settled
    /\ resPipe[i].msg # None =>
         /\ resPipe[i].msg = job /\ wjob = job
         /\ call \in {"recv", "wait", "discarded", "crashed"}
         /\ resPipe[i].last =>
              /\ ran[job] = "finished"
              /\ \A k \in 1..Len(resPipe) : k > i => resPipe[k].msg = None

\* Whoever waits for a result that was sent still finds it in the pipe, and
\* whoever meets a worker that left cleanly still finds its sentinel.
DeliveryInv ==
  /\ call = "recv" /\ ran[job] = "finished" =>
       \E i \in 1..Len(resPipe) : resPipe[i].msg = job /\ resPipe[i].last
  /\ cause \in {"idle", "retire"} /\ pc \in Leaving
       /\ call \in {"starting", "ready", "send", "recv"} =>
       \E i \in 1..Len(resPipe) : resPipe[i].msg = None

\* Why the worker left its loop.
CauseInv ==
  /\ pc \in {"absent", "boot", "init", "poll", "recv", "run", "send", "retire",
             "spin"} => cause = "none"
  /\ pc \in {"cleanup", "sentinel", "closing"} => cause \in {"idle", "retire"}
  /\ pc = "drain" => cause = "fault"
  /\ pc \in Gone => cause # "none"
  /\ cause = "closed" => "send_pipe" \notin open \/ "recv_pipe" \notin open

\* What run_sync has decided to return or to raise is right, and stays right
\* while it waits for the process to end.
OutcomeInv ==
  /\ call = "wait" => pending \in Waited
  /\ call = "wait" /\ pending = "retry" =>
       ran[job] = "no" /\ pc \in {"sentinel"} \cup Leaving
  /\ call = "wait" /\ pending \in Lost =>
       ran[job] # "finished" /\ cause \in Faulty /\ pc \in {"drain"} \cup Gone
  /\ \A j \in Jobs :
       /\ outcome[j] # "stale"
       /\ outcome[j] = "retry" => call = "discarded" /\ ran[j] = "no"
       /\ outcome[j] \in Lost =>
            call = "discarded" /\ ran[j] # "finished" /\ cause \in Faulty

IInv ==
  /\ TypeOK /\ EndsInv /\ ProgressInv /\ JobPipeInv /\ ResPipeInv
  /\ DeliveryInv /\ CauseInv /\ OutcomeInv

-----------------------------------------------------------------------------
(***************************************************************************)
(* Facts about sequences and chunks.                                       *)
(***************************************************************************)

\* What Append does to the elements of a sequence.
LEMMA AppendFacts ==
  ASSUME NEW S, NEW q \in Seq(S), NEW e \in S
  PROVE  /\ Append(q, e) \in Seq(S)
         /\ Len(Append(q, e)) = Len(q) + 1
         /\ \A i \in 1..Len(q) : Append(q, e)[i] = q[i]
         /\ Append(q, e)[Len(q) + 1] = e
  OBVIOUS

\* What Tail does to the elements of a sequence.
LEMMA TailFacts ==
  ASSUME NEW S, NEW q \in Seq(S), q # <<>>
  PROVE  /\ Tail(q) \in Seq(S)
         /\ Len(q) > 0 /\ Len(Tail(q)) = Len(q) - 1
         /\ \A i \in 1..Len(Tail(q)) : Tail(q)[i] = q[i + 1]
         /\ Head(q) = q[1] /\ q[1] \in S
  OBVIOUS

\* The fields of a chunk.
LEMMA ChunkFacts ==
  ASSUME NEW m \in Jobs \cup {None}, NEW n
  PROVE  /\ Chunk(m, n) \in Chunks
         /\ Chunk(m, n).msg = m
         /\ Chunk(m, n).last <=> n = 1
  BY Zenon DEF Chunk, Chunks

-----------------------------------------------------------------------------
(***************************************************************************)
(* The initial states, then one lemma for each action: it preserves IInv.  *)
(***************************************************************************)

\* The state before start satisfies the invariant.
LEMMA InitIInv == Init => IInv
  <1> SUFFICES ASSUME Init PROVE IInv
    OBVIOUS
  <1>1. TypeOK
    <2>1. call \in Calls /\ pc \in PCs /\ cause \in Causes
      BY DEF Init, Calls, PCs, Causes
    <2>2. /\ job \in 0..MaxJobs /\ wjob \in 0..MaxJobs
          /\ unsent \in Nat /\ got \in Nat /\ wgot \in Nat /\ wunsent \in Nat
      BY WorkerProcAssumption DEF Init
    <2>3. killable \in BOOLEAN /\ signalled \in BOOLEAN
      BY Zenon DEF Init
    <2>4. /\ pending \in Outcomes \cup {"none"} /\ outcome \in [Jobs -> Outcomes]
          /\ ran \in [Jobs -> {"no", "started", "finished"}]
      BY DEF Init, Outcomes
    <2>5. open \subseteq PipeEnds
      BY DEF Init, PipeEnds
    <2>6. /\ jobPipe \in Seq(Chunks) /\ resPipe \in Seq(Chunks)
          /\ Len(jobPipe) <= PipeCap /\ Len(resPipe) <= PipeCap
      BY WorkerProcAssumption DEF Init
    <2> QED
      BY <2>1, <2>2, <2>3, <2>4, <2>5, <2>6 DEF TypeOK
  <1>2. EndsInv /\ CauseInv
    BY DEF Init, EndsInv, CauseInv, MainEnds, Reading, Writing, Gone
  <1>3. ProgressInv /\ JobPipeInv
    BY DEF Init, ProgressInv, JobPipeInv, Jobs
  <1>4. ResPipeInv /\ DeliveryInv
    BY DEF Init, ResPipeInv, DeliveryInv
  <1>5. OutcomeInv
    BY DEF Init, OutcomeInv, Lost
  <1> QED
    BY <1>1, <1>2, <1>3, <1>4, <1>5 DEF IInv

\* Start preserves the invariant.
LEMMA StartStep == ASSUME IInv, Start PROVE IInv'
  <1>1. TypeOK'
    BY WorkerProcAssumption
    DEF IInv, pipeVars, Jobs, MainEnds, WorkerEnds, InheritedEnds, PipeEnds,
        Start, Outcomes, Calls, PCs, Causes, Chunks, TypeOK
  <1>2. EndsInv' /\ CauseInv' /\ OutcomeInv'
    BY DEF IInv, pipeVars, Jobs, MainEnds, WorkerEnds, InheritedEnds,
           PipeEnds, Start, Chunks, TypeOK, Reading, Writing, Gone, Leaving,
           Faulty, Lost, Waited, EndsInv, CauseInv, OutcomeInv
  <1>3. ProgressInv' /\ JobPipeInv'
    BY DEF IInv, pipeVars, Jobs, MainEnds, WorkerEnds, InheritedEnds,
           PipeEnds, Start, Chunks, TypeOK, Reading, Writing, Settled,
           EndsInv, ProgressInv, JobPipeInv
  <1>4. ResPipeInv' /\ DeliveryInv'
    BY DEF IInv, pipeVars, Jobs, None, MainEnds, WorkerEnds, InheritedEnds,
           PipeEnds, Start, Chunks, TypeOK, Reading, Writing, Gone, Leaving,
           Settled, EndsInv, ResPipeInv, DeliveryInv
  <1> QED
    BY <1>1, <1>2, <1>3, <1>4 DEF IInv

\* StartFork preserves the invariant.
LEMMA StartForkStep == ASSUME IInv, StartFork PROVE IInv'
  <1>1. TypeOK'
    BY WorkerProcAssumption
    DEF IInv, pipeVars, Jobs, MainEnds, WorkerEnds, InheritedEnds, PipeEnds,
        StartFork, Outcomes, Calls, PCs, Causes, Chunks, TypeOK
  <1>2. EndsInv' /\ CauseInv' /\ OutcomeInv'
    BY DEF IInv, pipeVars, Jobs, MainEnds, WorkerEnds, InheritedEnds,
           PipeEnds, StartFork, Chunks, TypeOK, Reading, Writing, Gone,
           Leaving, Faulty, Lost, Waited, EndsInv, CauseInv, OutcomeInv
  <1>3. ProgressInv' /\ JobPipeInv'
    BY DEF IInv, pipeVars, Jobs, MainEnds, WorkerEnds, InheritedEnds,
           PipeEnds, StartFork, Chunks, TypeOK, Reading, Writing, Settled,
           EndsInv, ProgressInv, JobPipeInv
  <1>4. ResPipeInv' /\ DeliveryInv'
    BY DEF IInv, pipeVars, Jobs, None, MainEnds, WorkerEnds, InheritedEnds,
           PipeEnds, StartFork, Chunks, TypeOK, Reading, Writing, Gone,
           Leaving, Settled, EndsInv, ResPipeInv, DeliveryInv
  <1> QED
    BY <1>1, <1>2, <1>3, <1>4 DEF IInv

\* StartAborted preserves the invariant.
LEMMA StartAbortedStep == ASSUME IInv, StartAborted PROVE IInv'
  <1>1. TypeOK'
    BY WorkerProcAssumption
    DEF IInv, procVars, pipeVars, Jobs, MainEnds, WorkerEnds, InheritedEnds,
        PipeEnds, StartAborted, Outcomes, Calls, PCs, Causes, Chunks, TypeOK
  <1>2. EndsInv' /\ CauseInv' /\ OutcomeInv'
    BY DEF IInv, procVars, pipeVars, Jobs, StartAborted, Reading, Writing,
           Gone, Leaving, Faulty, Lost, Waited, EndsInv, CauseInv, OutcomeInv
  <1>3. ProgressInv' /\ JobPipeInv'
    BY DEF IInv, procVars, pipeVars, Jobs, StartAborted, Settled, ProgressInv,
           JobPipeInv
  <1>4. ResPipeInv' /\ DeliveryInv'
    BY DEF IInv, procVars, pipeVars, None, StartAborted, Gone, Leaving,
           Settled, ResPipeInv, DeliveryInv
  <1> QED
    BY <1>1, <1>2, <1>3, <1>4 DEF IInv

\* FinishStart preserves the invariant.
LEMMA FinishStartStep == ASSUME IInv, FinishStart PROVE IInv'
  <1>1. TypeOK'
    BY WorkerProcAssumption
    DEF IInv, procVars, pipeVars, Jobs, MainEnds, WorkerEnds, InheritedEnds,
        PipeEnds, FinishStart, Outcomes, Calls, PCs, Causes, Chunks, TypeOK
  <1>2. EndsInv' /\ CauseInv' /\ OutcomeInv'
    BY DEF IInv, procVars, pipeVars, Jobs, FinishStart, Reading, Writing,
           Gone, Leaving, Faulty, Lost, Waited, EndsInv, CauseInv, OutcomeInv
  <1>3. ProgressInv' /\ JobPipeInv'
    BY DEF IInv, procVars, pipeVars, Jobs, FinishStart, Settled, ProgressInv,
           JobPipeInv
  <1>4. ResPipeInv' /\ DeliveryInv'
    BY DEF IInv, procVars, pipeVars, None, FinishStart, Gone, Leaving,
           Settled, ResPipeInv, DeliveryInv
  <1> QED
    BY <1>1, <1>2, <1>3, <1>4 DEF IInv

\* Submit preserves the invariant.
LEMMA SubmitStep ==
  ASSUME IInv, NEW size \in Sizes, NEW cancellable \in BOOLEAN,
         Submit(size, cancellable)
  PROVE  IInv'
  <1>1. TypeOK'
    BY WorkerProcAssumption
    DEF IInv, procVars, pipeVars, Jobs, MainEnds, WorkerEnds, InheritedEnds,
        PipeEnds, Submit, Outcomes, Calls, PCs, Causes, Chunks, TypeOK
  <1>2. EndsInv' /\ CauseInv' /\ OutcomeInv'
    BY WorkerProcAssumption
    DEF IInv, procVars, pipeVars, Jobs, Submit, Reading, Writing, Gone,
        Leaving, Faulty, Lost, Waited, EndsInv, CauseInv, OutcomeInv
  <1>3. ProgressInv' /\ JobPipeInv'
    BY WorkerProcAssumption
    DEF IInv, procVars, pipeVars, Jobs, MainEnds, WorkerEnds, InheritedEnds,
        PipeEnds, Submit, Chunks, TypeOK, Settled, ProgressInv, JobPipeInv
  <1>4. ResPipeInv' /\ DeliveryInv'
    BY WorkerProcAssumption
    DEF IInv, procVars, pipeVars, None, Submit, Gone, Leaving, Settled,
        ResPipeInv, DeliveryInv
  <1> QED
    BY <1>1, <1>2, <1>3, <1>4 DEF IInv

\* SubmitUnpicklable preserves the invariant.
LEMMA SubmitUnpicklableStep == ASSUME IInv, SubmitUnpicklable PROVE IInv'
  <1>1. TypeOK'
    BY WorkerProcAssumption
    DEF IInv, procVars, pipeVars, Jobs, MainEnds, WorkerEnds, InheritedEnds,
        PipeEnds, SubmitUnpicklable, Outcomes, Calls, PCs, Causes, Chunks,
        TypeOK
  <1>2. EndsInv' /\ CauseInv' /\ OutcomeInv'
    BY DEF IInv, procVars, pipeVars, Jobs, SubmitUnpicklable, Reading,
           Writing, Gone, Leaving, Faulty, Lost, Waited, EndsInv, CauseInv,
           OutcomeInv
  <1>3. ProgressInv' /\ JobPipeInv'
    BY DEF IInv, procVars, pipeVars, Jobs, MainEnds, WorkerEnds,
           InheritedEnds, PipeEnds, SubmitUnpicklable, Chunks, TypeOK,
           Settled, ProgressInv, JobPipeInv
  <1>4. ResPipeInv' /\ DeliveryInv'
    BY DEF IInv, procVars, pipeVars, None, SubmitUnpicklable, Gone, Leaving,
           Settled, ResPipeInv, DeliveryInv
  <1> QED
    BY <1>1, <1>2, <1>3, <1>4 DEF IInv

\* WriteChunk preserves the invariant.
LEMMA WriteChunkStep == ASSUME IInv, WriteChunk PROVE IInv'
  <1>1. TypeOK'
    BY AppendFacts, ChunkFacts, WorkerProcAssumption
    DEF IInv, procVars, Jobs, MainEnds, WorkerEnds, InheritedEnds, PipeEnds,
        JobReaders, WriteChunk, Outcomes, Calls, PCs, Causes, TypeOK,
        JobPipeInv
  <1>2. EndsInv' /\ CauseInv' /\ OutcomeInv'
    BY DEF IInv, procVars, Jobs, JobReaders, WriteChunk, Reading, Writing,
           Gone, Leaving, Faulty, Lost, Waited, EndsInv, CauseInv, OutcomeInv
  <1>3. ProgressInv' /\ JobPipeInv'
    BY AppendFacts, ChunkFacts
    DEF IInv, procVars, Jobs, MainEnds, WorkerEnds, InheritedEnds, PipeEnds,
        JobReaders, WriteChunk, TypeOK, Settled, ProgressInv, JobPipeInv
  <1>4. ResPipeInv'
    BY AppendFacts, ChunkFacts
    DEF IInv, procVars, None, JobReaders, WriteChunk, Gone, Leaving, Settled,
        ResPipeInv
  <1>5. DeliveryInv'
    <2>1. /\ call = "send" /\ call' \in {"send", "recv"}
          /\ UNCHANGED <<job, ran, pc, cause, resPipe>>
      BY DEF WriteChunk, procVars
    <2>2. ran[job] = "no"
      BY <2>1 DEF IInv, TypeOK, JobPipeInv, ProgressInv, Jobs
    <2> QED
      BY <2>1, <2>2 DEF IInv, DeliveryInv
  <1> QED
    BY <1>1, <1>2, <1>3, <1>4, <1>5 DEF IInv

\* WriteBroken preserves the invariant.
LEMMA WriteBrokenStep == ASSUME IInv, WriteBroken PROVE IInv'
  <1>1. /\ call = "send" /\ call' = "wait" /\ pending' = "retry"
        /\ UNCHANGED <<job, outcome, procVars, pipeVars, open>>
    BY DEF WriteBroken, AwaitEnd
  <1>2. TypeOK'
    BY DEF IInv, WriteBroken, TypeOK, AwaitEnd, procVars, pipeVars, Outcomes, Calls
  <1>3. EndsInv' /\ CauseInv'
    BY <1>1 DEF IInv, EndsInv, CauseInv, procVars
  <1>4. ProgressInv' /\ JobPipeInv'
    BY <1>1 DEF IInv, ProgressInv, Settled, JobPipeInv, procVars, pipeVars
  <1>5. ResPipeInv' /\ DeliveryInv'
    BY <1>1 DEF IInv, ResPipeInv, Settled, DeliveryInv, procVars, pipeVars
  <1>6. OutcomeInv'
    <2>1. ran[job] = "no"
      BY <1>1 DEF IInv, TypeOK, JobPipeInv, ProgressInv, Jobs
    <2>2. pc \in {"sentinel"} \cup Leaving
      BY <1>1 DEF WriteBroken, IInv, TypeOK, PCs, EndsInv, JobReaders, Reading,
                  Leaving, Gone
    <2> QED
      BY <1>1, <2>1, <2>2 DEF IInv, OutcomeInv, Waited, Lost, procVars
  <1> QED
    BY <1>2, <1>3, <1>4, <1>5, <1>6 DEF IInv

\* WriteClosed preserves the invariant.
LEMMA WriteClosedStep == ASSUME IInv, WriteClosed PROVE IInv'
  <1>1. TypeOK'
    BY WorkerProcAssumption
    DEF IInv, procVars, pipeVars, Jobs, MainEnds, WorkerEnds, InheritedEnds,
        PipeEnds, AwaitEnd, KillAndRaise, WriteClosed, Outcomes, Calls, PCs,
        Causes, Chunks, TypeOK
  <1>2. EndsInv' /\ CauseInv' /\ OutcomeInv'
    BY DEF IInv, procVars, pipeVars, Jobs, AwaitEnd, KillAndRaise,
           WriteClosed, Reading, Writing, Gone, Leaving, Faulty, Lost, Waited,
           EndsInv, CauseInv, OutcomeInv
  <1>3. ProgressInv' /\ JobPipeInv'
    BY DEF IInv, procVars, pipeVars, Jobs, AwaitEnd, KillAndRaise,
           WriteClosed, Settled, ProgressInv, JobPipeInv
  <1>4. ResPipeInv' /\ DeliveryInv'
    BY DEF IInv, procVars, pipeVars, None, AwaitEnd, KillAndRaise,
           WriteClosed, Gone, Leaving, Settled, ResPipeInv, DeliveryInv
  <1> QED
    BY <1>1, <1>2, <1>3, <1>4 DEF IInv

\* ReadChunk preserves the invariant.
LEMMA ReadChunkStep == ASSUME IInv, ReadChunk PROVE IInv'
  <1>1. /\ UNCHANGED <<call, job, pc, ran, cause>>
        /\ resPipe # <<>> /\ ~Head(resPipe).last /\ Head(resPipe).msg # None
    BY TailFacts DEF ReadChunk, procVars, IInv, TypeOK, ResPipeInv
  <1>2. TypeOK'
    BY TailFacts, WorkerProcAssumption DEF IInv, ReadChunk, TypeOK, procVars
  <1>3. EndsInv' /\ CauseInv' /\ OutcomeInv'
    BY DEF IInv, ReadChunk, EndsInv, CauseInv, OutcomeInv, procVars
  <1>4. ProgressInv' /\ JobPipeInv'
    BY DEF IInv, ReadChunk, ProgressInv, Settled, JobPipeInv, procVars
  <1>5. ResPipeInv'
    BY TailFacts DEF IInv, ReadChunk, TypeOK, ResPipeInv, Settled, procVars
  <1>6. DeliveryInv'
    <2>1. ASSUME NEW i \in 1..Len(resPipe),
                 resPipe[i].msg = None \/ resPipe[i].last
          PROVE  i - 1 \in 1..Len(resPipe') /\ resPipe'[i - 1] = resPipe[i]
      BY <1>1, <2>1, TailFacts DEF ReadChunk, IInv, TypeOK
    <2> QED
      BY <1>1, <2>1 DEF IInv, DeliveryInv
  <1> QED
    BY <1>2, <1>3, <1>4, <1>5, <1>6 DEF IInv

\* The message that ends here is the sentinel, and then no result was sent
\* before it, or the result of the latest job.
LEMMA ReadMessageStep == ASSUME IInv, ReadMessage PROVE IInv'
  <1> DEFINE m == Head(resPipe).msg
  <1>1. /\ call = "recv" /\ job \in Jobs /\ 1 \in 1..Len(resPipe)
        /\ Head(resPipe).last /\ Head(resPipe) = resPipe[1]
        /\ UNCHANGED <<procVars, jobPipe, open>>
    BY TailFacts DEF ReadMessage, IInv, TypeOK, JobPipeInv, Jobs
  <1>2. /\ resPipe' \in Seq(Chunks) /\ Len(resPipe') = Len(resPipe) - 1
        /\ \A i \in 1..Len(resPipe') : resPipe'[i] = resPipe[i + 1]
    BY TailFacts DEF ReadMessage, IInv, TypeOK
  <1>3. CASE m = None
    <2>1. /\ call' = "wait" /\ pending' = "retry"
          /\ UNCHANGED <<job, unsent, killable, outcome, got, signalled>>
      BY <1>3 DEF ReadMessage, AwaitEnd, KillAndRaise
    <2>2. pc \in Leaving /\ Len(resPipe) = 1 /\ Settled
      BY <1>1, <1>3 DEF IInv, ResPipeInv
    <2>3. ran[job] # "finished"
      BY <1>1, <1>3, <2>2 DEF IInv, DeliveryInv, Jobs, None
    <2>4. ran[job] = "no"
      BY <1>1, <2>2, <2>3 DEF IInv, TypeOK, ProgressInv, Settled, Jobs
    <2>5. TypeOK'
      BY <1>1, <1>2, <2>1, WorkerProcAssumption
      DEF IInv, TypeOK, Calls, Outcomes, procVars
    <2>6. EndsInv' /\ CauseInv'
      BY <1>1, <2>1 DEF IInv, EndsInv, CauseInv, procVars
    <2>7. ProgressInv' /\ JobPipeInv'
      BY <1>1, <2>1 DEF IInv, ProgressInv, JobPipeInv, procVars, Settled
    <2>8. ResPipeInv' /\ DeliveryInv'
      BY <1>2, <2>1, <2>2 DEF ResPipeInv, DeliveryInv
    <2>9. OutcomeInv'
      BY <1>1, <2>1, <2>2, <2>4 DEF IInv, OutcomeInv, procVars, Waited, Lost
    <2> QED
      BY <2>5, <2>6, <2>7, <2>8, <2>9 DEF IInv
  <1>4. CASE m # None
    <2>1. /\ m = job /\ wjob = job /\ ran[job] = "finished"
          /\ \A i \in 1..Len(resPipe') : resPipe'[i].msg = None
      BY <1>1, <1>2, <1>4 DEF IInv, ResPipeInv
    <2>2. \/ /\ call' = "ready" /\ outcome' = [outcome EXCEPT ![job] = "value"]
             /\ UNCHANGED <<job, unsent, got, killable, pending, signalled>>
          \/ /\ call' = "wait" /\ pending' = "unloadable" /\ signalled' = TRUE
             /\ UNCHANGED <<job, unsent, killable, outcome, got>>
      BY <1>4, <2>1 DEF ReadMessage, AwaitEnd, KillAndRaise
    <2>3. jobPipe = <<>>
      BY <1>1, <2>1 DEF IInv, TypeOK, JobPipeInv
    <2>4. TypeOK'
      <3>1. /\ call' \in Calls /\ pending' \in Outcomes \cup {"none"}
            /\ outcome' \in [Jobs -> Outcomes]
        BY <1>1, <2>2 DEF IInv, TypeOK, Calls, Outcomes
      <3>2. UNCHANGED <<job, unsent, killable, got>> /\ signalled' \in BOOLEAN
        BY <2>2 DEF IInv, TypeOK
      <3> QED
        BY <1>1, <1>2, <3>1, <3>2, WorkerProcAssumption DEF IInv, TypeOK, procVars
    <2>5. EndsInv' /\ CauseInv'
      BY <1>1, <2>2 DEF IInv, EndsInv, CauseInv, procVars
    <2>6. ProgressInv' /\ JobPipeInv'
      BY <1>1, <2>1, <2>2, <2>3
      DEF IInv, ProgressInv, JobPipeInv, procVars, Settled
    <2>7. ResPipeInv'
      BY <1>1, <1>2, <2>1, <2>2 DEF IInv, ResPipeInv, procVars, Settled
    <2>8. DeliveryInv'
      BY <1>1, <1>2, <1>4, <2>1, <2>2 DEF IInv, TypeOK, DeliveryInv, procVars
    <2>9. OutcomeInv'
      BY <1>1, <2>1, <2>2 DEF IInv, TypeOK, OutcomeInv, procVars, Waited, Lost
    <2> QED
      BY <2>4, <2>5, <2>6, <2>7, <2>8, <2>9 DEF IInv
  <1> QED
    BY <1>3, <1>4

\* An empty result pipe without a writer: the latest job's result was never
\* completed, and the worker did not leave cleanly, or its sentinel would
\* still be there.
LEMMA EofMeansFailure ==
  ASSUME IInv, call = "recv", ResEof
  PROVE  ran[job] # "finished" /\ pc \in {"drain"} \cup Gone /\ cause \in Faulty
  <1>1. ran[job] # "finished"
    BY DEF ResEof, IInv, TypeOK, DeliveryInv
  <1>2. pc \in {"drain"} \cup Gone
    BY DEF ResEof, IInv, TypeOK, PCs, EndsInv, ResWriters, Writing, Gone
  <1>3. cause \in Faulty
    BY <1>2 DEF ResEof, IInv, TypeOK, Causes, EndsInv, DeliveryInv, CauseInv,
                Gone, Leaving, Faulty
  <1> QED
    BY <1>1, <1>2, <1>3

\* ReadEof preserves the invariant.
LEMMA ReadEofStep == ASSUME IInv, ReadEof PROVE IInv'
  <1>1. /\ call = "recv" /\ call' = "wait" /\ pending' = "broken"
        /\ UNCHANGED <<job, outcome, procVars, pipeVars>>
    BY DEF ReadEof, AwaitEnd
  <1>2. TypeOK'
    BY DEF IInv, ReadEof, AwaitEnd, TypeOK, procVars, pipeVars, Outcomes, Calls
  <1>3. EndsInv' /\ CauseInv'
    BY <1>1 DEF IInv, ReadEof, EndsInv, CauseInv, procVars
  <1>4. ProgressInv' /\ JobPipeInv'
    BY <1>1 DEF IInv, ProgressInv, Settled, JobPipeInv, procVars, pipeVars
  <1>5. ResPipeInv' /\ DeliveryInv'
    BY <1>1 DEF IInv, ResPipeInv, Settled, DeliveryInv, procVars, pipeVars
  <1>6. OutcomeInv'
    BY <1>1, EofMeansFailure
    DEF ReadEof, IInv, OutcomeInv, Waited, Lost, procVars
  <1> QED
    BY <1>2, <1>3, <1>4, <1>5, <1>6 DEF IInv

\* ReadTruncated preserves the invariant.
LEMMA ReadTruncatedStep == ASSUME IInv, ReadTruncated PROVE IInv'
  <1>1. /\ call = "recv" /\ call' = "wait" /\ pending' = "oserror"
        /\ UNCHANGED <<job, outcome, procVars, pipeVars, open>>
    BY DEF ReadTruncated, KillAndRaise, AwaitEnd
  <1>2. TypeOK'
    BY DEF IInv, ReadTruncated, KillAndRaise, AwaitEnd, TypeOK, procVars,
           pipeVars, Outcomes, Calls
  <1>3. EndsInv' /\ CauseInv'
    BY <1>1 DEF IInv, EndsInv, CauseInv, procVars
  <1>4. ProgressInv' /\ JobPipeInv'
    BY <1>1 DEF IInv, ProgressInv, Settled, JobPipeInv, procVars, pipeVars
  <1>5. ResPipeInv' /\ DeliveryInv'
    BY <1>1 DEF IInv, ResPipeInv, Settled, DeliveryInv, procVars, pipeVars
  <1>6. OutcomeInv'
    BY <1>1, EofMeansFailure
    DEF ReadTruncated, IInv, OutcomeInv, Waited, Lost, procVars
  <1> QED
    BY <1>2, <1>3, <1>4, <1>5, <1>6 DEF IInv

\* Cancel preserves the invariant.
LEMMA CancelStep == ASSUME IInv, Cancel PROVE IInv'
  <1>1. TypeOK'
    BY WorkerProcAssumption
    DEF IInv, procVars, pipeVars, Jobs, MainEnds, WorkerEnds, InheritedEnds,
        PipeEnds, AwaitEnd, KillAndRaise, Cancel, Outcomes, Calls, PCs,
        Causes, Chunks, TypeOK
  <1>2. EndsInv' /\ CauseInv' /\ OutcomeInv'
    BY DEF IInv, procVars, pipeVars, Jobs, AwaitEnd, KillAndRaise, Cancel,
           Reading, Writing, Gone, Leaving, Faulty, Lost, Waited, EndsInv,
           CauseInv, OutcomeInv
  <1>3. ProgressInv' /\ JobPipeInv'
    BY DEF IInv, procVars, pipeVars, Jobs, AwaitEnd, KillAndRaise, Cancel,
           Settled, ProgressInv, JobPipeInv
  <1>4. ResPipeInv' /\ DeliveryInv'
    BY DEF IInv, procVars, pipeVars, None, AwaitEnd, KillAndRaise, Cancel,
           Gone, Leaving, Settled, ResPipeInv, DeliveryInv
  <1> QED
    BY <1>1, <1>2, <1>3, <1>4 DEF IInv

\* WaitDone preserves the invariant.
LEMMA WaitDoneStep == ASSUME IInv, WaitDone PROVE IInv'
  <1>1. TypeOK'
    BY WorkerProcAssumption
    DEF IInv, procVars, pipeVars, Jobs, MainEnds, WorkerEnds, InheritedEnds,
        PipeEnds, WaitDone, Outcomes, Calls, PCs, Causes, Chunks, TypeOK,
        Gone, Leaving, Faulty, Lost, Waited, OutcomeInv
  <1>2. EndsInv' /\ CauseInv' /\ OutcomeInv'
    BY DEF IInv, procVars, pipeVars, Jobs, WaitDone, Reading, Writing, Gone,
           Leaving, Faulty, Lost, Waited, EndsInv, CauseInv, OutcomeInv
  <1>3. ProgressInv' /\ JobPipeInv'
    BY DEF IInv, procVars, pipeVars, Jobs, WaitDone, Settled, ProgressInv,
           JobPipeInv
  <1>4. ResPipeInv' /\ DeliveryInv'
    BY DEF IInv, procVars, pipeVars, None, WaitDone, Gone, Leaving, Settled,
           ResPipeInv, DeliveryInv
  <1> QED
    BY <1>1, <1>2, <1>3, <1>4 DEF IInv

\* Shutdown preserves the invariant.
LEMMA ShutdownStep == ASSUME IInv, Shutdown PROVE IInv'
  <1>1. TypeOK'
    BY WorkerProcAssumption
    DEF IInv, callVars, procVars, pipeVars, Jobs, MainEnds, WorkerEnds,
        InheritedEnds, PipeEnds, Shutdown, Outcomes, Calls, PCs, Causes,
        Chunks, TypeOK
  <1>2. EndsInv' /\ CauseInv' /\ OutcomeInv'
    BY DEF IInv, callVars, procVars, pipeVars, Jobs, Shutdown, Reading,
           Writing, Gone, Leaving, Faulty, Lost, Waited, EndsInv, CauseInv,
           OutcomeInv
  <1>3. ProgressInv' /\ JobPipeInv'
    BY DEF IInv, callVars, procVars, pipeVars, Jobs, Shutdown, Settled,
           ProgressInv, JobPipeInv
  <1>4. ResPipeInv' /\ DeliveryInv'
    BY DEF IInv, callVars, procVars, pipeVars, None, Shutdown, Gone, Leaving,
           Settled, ResPipeInv, DeliveryInv
  <1> QED
    BY <1>1, <1>2, <1>3, <1>4 DEF IInv

\* GraceExpired preserves the invariant.
LEMMA GraceExpiredStep == ASSUME IInv, GraceExpired PROVE IInv'
  <1>1. TypeOK'
    BY WorkerProcAssumption
    DEF IInv, callVars, procVars, pipeVars, Jobs, MainEnds, WorkerEnds,
        InheritedEnds, PipeEnds, GraceExpired, Outcomes, Calls, PCs, Causes,
        Chunks, TypeOK
  <1>2. EndsInv' /\ CauseInv' /\ OutcomeInv'
    BY DEF IInv, callVars, procVars, pipeVars, Jobs, GraceExpired, Reading,
           Writing, Gone, Leaving, Faulty, Lost, Waited, EndsInv, CauseInv,
           OutcomeInv
  <1>3. ProgressInv' /\ JobPipeInv'
    BY DEF IInv, callVars, procVars, pipeVars, Jobs, GraceExpired, Settled,
           ProgressInv, JobPipeInv
  <1>4. ResPipeInv' /\ DeliveryInv'
    BY DEF IInv, callVars, procVars, pipeVars, None, GraceExpired, Gone,
           Leaving, Settled, ResPipeInv, DeliveryInv
  <1> QED
    BY <1>1, <1>2, <1>3, <1>4 DEF IInv

\* MainCrash preserves the invariant.
LEMMA MainCrashStep == ASSUME IInv, MainCrash PROVE IInv'
  <1>1. TypeOK'
    BY WorkerProcAssumption
    DEF IInv, procVars, pipeVars, Jobs, MainEnds, WorkerEnds, InheritedEnds,
        PipeEnds, MainCrash, Outcomes, Calls, PCs, Causes, Chunks, TypeOK
  <1>2. EndsInv' /\ CauseInv' /\ OutcomeInv'
    BY DEF IInv, procVars, pipeVars, Jobs, MainEnds, MainCrash, Reading,
           Writing, Gone, Leaving, Faulty, Lost, Waited, EndsInv, CauseInv,
           OutcomeInv
  <1>3. ProgressInv' /\ JobPipeInv'
    BY DEF IInv, procVars, pipeVars, Jobs, MainEnds, MainCrash, Settled,
           ProgressInv, JobPipeInv
  <1>4. ResPipeInv' /\ DeliveryInv'
    BY DEF IInv, procVars, pipeVars, None, MainEnds, MainCrash, Gone, Leaving,
           Settled, ResPipeInv, DeliveryInv
  <1> QED
    BY <1>1, <1>2, <1>3, <1>4 DEF IInv

\* Boot preserves the invariant.
LEMMA BootStep == ASSUME IInv, Boot PROVE IInv'
  <1>1. TypeOK'
    BY WorkerProcAssumption
    DEF IInv, callVars, pipeVars, Jobs, MainEnds, WorkerEnds, InheritedEnds,
        PipeEnds, Goto, Boot, Outcomes, Calls, PCs, Causes, Chunks, TypeOK
  <1>2. EndsInv' /\ CauseInv' /\ OutcomeInv'
    BY DEF IInv, callVars, pipeVars, Jobs, InheritedEnds, Goto, Boot, Reading,
           Writing, Gone, Leaving, Faulty, Lost, Waited, EndsInv, CauseInv,
           OutcomeInv
  <1>3. ProgressInv' /\ JobPipeInv'
    BY DEF IInv, callVars, pipeVars, Jobs, InheritedEnds, Goto, Boot, Settled,
           ProgressInv, JobPipeInv
  <1>4. ResPipeInv' /\ DeliveryInv'
    BY DEF IInv, callVars, pipeVars, None, InheritedEnds, Goto, Boot, Gone,
           Leaving, Settled, ResPipeInv, DeliveryInv
  <1> QED
    BY <1>1, <1>2, <1>3, <1>4 DEF IInv

\* RunInit preserves the invariant.
LEMMA RunInitStep == ASSUME IInv, RunInit PROVE IInv'
  <1>1. TypeOK'
    BY WorkerProcAssumption
    DEF IInv, callVars, pipeVars, Jobs, MainEnds, WorkerEnds, InheritedEnds,
        PipeEnds, Goto, Fault, Graceful, RunInit, Outcomes, Calls, PCs,
        Causes, Chunks, TypeOK, Gone, CauseInv
  <1>2. EndsInv' /\ CauseInv' /\ OutcomeInv'
    BY DEF IInv, callVars, pipeVars, Jobs, WorkerEnds, Goto, Fault, Graceful,
           RunInit, Reading, Writing, Gone, Leaving, Faulty, Lost, Waited,
           EndsInv, CauseInv, OutcomeInv
  <1>3. ProgressInv' /\ JobPipeInv'
    BY DEF IInv, callVars, pipeVars, Jobs, WorkerEnds, Goto, Fault, Graceful,
           RunInit, Settled, ProgressInv, JobPipeInv
  <1>4. ResPipeInv' /\ DeliveryInv'
    BY DEF IInv, callVars, pipeVars, None, WorkerEnds, Goto, Fault, Graceful,
           RunInit, Gone, Leaving, Settled, ResPipeInv, DeliveryInv
  <1> QED
    BY <1>1, <1>2, <1>3, <1>4 DEF IInv

\* Spin preserves the invariant.
LEMMA SpinStep == ASSUME IInv, Spin PROVE IInv'
  <1>1. TypeOK'
    BY WorkerProcAssumption
    DEF IInv, callVars, pipeVars, Jobs, MainEnds, WorkerEnds, InheritedEnds,
        PipeEnds, Goto, Spin, Outcomes, Calls, PCs, Causes, Chunks, TypeOK
  <1>2. EndsInv' /\ CauseInv' /\ OutcomeInv'
    BY DEF IInv, callVars, pipeVars, Jobs, Goto, Spin, Reading, Writing, Gone,
           Leaving, Faulty, Lost, Waited, EndsInv, CauseInv, OutcomeInv
  <1>3. ProgressInv' /\ JobPipeInv'
    BY DEF IInv, callVars, pipeVars, Jobs, Goto, Spin, Settled, ProgressInv,
           JobPipeInv
  <1>4. ResPipeInv' /\ DeliveryInv'
    BY DEF IInv, callVars, pipeVars, None, Goto, Spin, Gone, Leaving, Settled,
           ResPipeInv, DeliveryInv
  <1> QED
    BY <1>1, <1>2, <1>3, <1>4 DEF IInv

\* PollTrue preserves the invariant.
LEMMA PollTrueStep == ASSUME IInv, PollTrue PROVE IInv'
  <1>1. TypeOK'
    BY WorkerProcAssumption
    DEF IInv, callVars, pipeVars, Jobs, MainEnds, WorkerEnds, InheritedEnds,
        PipeEnds, JobWriters, JobEof, Goto, PollTrue, Outcomes, Calls, PCs,
        Causes, Chunks, TypeOK
  <1>2. EndsInv' /\ CauseInv' /\ OutcomeInv'
    BY DEF IInv, callVars, pipeVars, Jobs, JobWriters, JobEof, Goto, PollTrue,
           Reading, Writing, Gone, Leaving, Faulty, Lost, Waited, EndsInv,
           CauseInv, OutcomeInv
  <1>3. ProgressInv' /\ JobPipeInv'
    BY DEF IInv, callVars, pipeVars, Jobs, JobWriters, JobEof, Goto, PollTrue,
           Settled, ProgressInv, JobPipeInv
  <1>4. ResPipeInv' /\ DeliveryInv'
    BY DEF IInv, callVars, pipeVars, None, JobWriters, JobEof, Goto, PollTrue,
           Gone, Leaving, Settled, ResPipeInv, DeliveryInv
  <1> QED
    BY <1>1, <1>2, <1>3, <1>4 DEF IInv

\* PollTimeout preserves the invariant.
LEMMA PollTimeoutStep == ASSUME IInv, PollTimeout PROVE IInv'
  <1>1. TypeOK'
    BY WorkerProcAssumption
    DEF IInv, callVars, pipeVars, Jobs, MainEnds, WorkerEnds, InheritedEnds,
        PipeEnds, JobWriters, JobEof, Goto, PollTimeout, Outcomes, Calls, PCs,
        Causes, Chunks, TypeOK
  <1>2. EndsInv' /\ CauseInv' /\ OutcomeInv'
    BY DEF IInv, callVars, pipeVars, Jobs, MainEnds, WorkerEnds,
           InheritedEnds, PipeEnds, JobWriters, JobEof, Goto, PollTimeout,
           Chunks, TypeOK, Reading, Writing, Gone, Leaving, Faulty, Lost,
           Waited, EndsInv, CauseInv, OutcomeInv
  <1>3. ProgressInv' /\ JobPipeInv'
    BY DEF IInv, callVars, pipeVars, Jobs, JobWriters, JobEof, Goto,
           PollTimeout, Settled, ProgressInv, JobPipeInv
  <1>4. ResPipeInv' /\ DeliveryInv'
    BY DEF IInv, callVars, pipeVars, None, JobWriters, JobEof, Goto,
           PollTimeout, Gone, Leaving, Settled, ResPipeInv, DeliveryInv
  <1> QED
    BY <1>1, <1>2, <1>3, <1>4 DEF IInv

\* RecvChunk preserves the invariant.
LEMMA RecvChunkStep == ASSUME IInv, RecvChunk PROVE IInv'
  <1>1. /\ pc = "recv" /\ jobPipe \in Seq(Chunks) /\ jobPipe # <<>>
        /\ call # "discarded"
        /\ UNCHANGED <<callVars, resPipe, open, cause, wunsent, signalled>>
    BY DEF RecvChunk, IInv, TypeOK, EndsInv
  <1>2. /\ Head(jobPipe).msg = job /\ job \in Jobs /\ ran[job] = "no"
        /\ wjob < job /\ wjob \in 0..MaxJobs
    BY <1>1, TailFacts DEF IInv, TypeOK, JobPipeInv, ProgressInv, Jobs
  <1>3. jobPipe' \in Seq(Chunks) /\ Len(jobPipe') <= PipeCap
    BY <1>1, TailFacts, WorkerProcAssumption DEF RecvChunk, IInv, TypeOK
  <1>4. CASE Head(jobPipe).last
    <2>1. /\ pc' = "run" /\ wjob' = job /\ wgot' = wgot + 1
          /\ ran' = [ran EXCEPT ![job] = "started"]
      BY <1>2, <1>4 DEF RecvChunk, Goto
    <2>2. call \in {"recv", "wait", "crashed"} /\ jobPipe' = <<>>
      BY <1>1, <1>4, TailFacts DEF RecvChunk, IInv, JobPipeInv
    <2>3. TypeOK'
      BY <1>1, <1>2, <1>3, <2>1 DEF IInv, TypeOK, PCs, callVars
    <2>4. EndsInv' /\ CauseInv'
      BY <1>1, <2>1 DEF IInv, EndsInv, CauseInv, callVars, Reading, Writing, Gone
    <2>5. ProgressInv'
      BY <1>1, <1>2, <2>1, <2>2 DEF IInv, TypeOK, ProgressInv, Settled, callVars
    <2>6. JobPipeInv'
      BY <1>1, <1>2, <2>1, <2>2 DEF IInv, JobPipeInv, callVars
    <2>7. ResPipeInv' /\ DeliveryInv'
      BY <1>1, <1>2, <2>1
      DEF IInv, TypeOK, ResPipeInv, DeliveryInv, Leaving, Gone, callVars
    <2>8. OutcomeInv'
      BY <1>1, <1>2, <2>1
      DEF IInv, TypeOK, OutcomeInv, Leaving, Gone, callVars
    <2> QED
      BY <2>3, <2>4, <2>5, <2>6, <2>7, <2>8 DEF IInv
  <1>5. CASE ~Head(jobPipe).last
    <2>1. UNCHANGED <<pc, wjob, ran>> /\ wgot' = wgot + 1
      BY <1>5 DEF RecvChunk
    <2>2. TypeOK'
      BY <1>1, <1>3, <2>1 DEF IInv, TypeOK, PCs, callVars
    <2>3. EndsInv' /\ CauseInv' /\ OutcomeInv'
      BY <1>1, <2>1 DEF IInv, EndsInv, CauseInv, OutcomeInv, callVars
    <2>4. ProgressInv' /\ ResPipeInv' /\ DeliveryInv'
      BY <1>1, <2>1
      DEF IInv, ProgressInv, ResPipeInv, DeliveryInv, Settled, callVars
    <2>5. JobPipeInv'
      BY <1>1, <1>2, <2>1, TailFacts DEF RecvChunk, IInv, JobPipeInv, callVars
    <2> QED
      BY <2>2, <2>3, <2>4, <2>5 DEF IInv
  <1> QED
    BY <1>4, <1>5

\* RecvEof preserves the invariant.
LEMMA RecvEofStep == ASSUME IInv, RecvEof PROVE IInv'
  <1>1. TypeOK'
    BY WorkerProcAssumption
    DEF IInv, callVars, pipeVars, Jobs, MainEnds, WorkerEnds, InheritedEnds,
        PipeEnds, JobWriters, JobEof, Goto, Fault, Graceful, RecvEof,
        Outcomes, Calls, PCs, Causes, Chunks, TypeOK
  <1>2. EndsInv' /\ CauseInv' /\ OutcomeInv'
    BY DEF IInv, callVars, pipeVars, Jobs, MainEnds, WorkerEnds,
           InheritedEnds, PipeEnds, JobWriters, JobEof, Goto, Fault, Graceful,
           RecvEof, Chunks, TypeOK, Reading, Writing, Gone, Leaving, Faulty,
           Lost, Waited, EndsInv, CauseInv, OutcomeInv
  <1>3. ProgressInv' /\ JobPipeInv'
    BY DEF IInv, callVars, pipeVars, Jobs, WorkerEnds, JobWriters, JobEof,
           Goto, Fault, Graceful, RecvEof, Settled, ProgressInv, JobPipeInv
  <1>4. ResPipeInv' /\ DeliveryInv'
    BY DEF IInv, callVars, pipeVars, None, WorkerEnds, JobWriters, JobEof,
           Goto, Fault, Graceful, RecvEof, Gone, Leaving, Settled, ResPipeInv,
           DeliveryInv
  <1> QED
    BY <1>1, <1>2, <1>3, <1>4 DEF IInv

\* JobDone preserves the invariant.
LEMMA JobDoneStep ==
  ASSUME IInv, NEW size \in Sizes, JobDone(size)
  PROVE  IInv'
  <1>1. TypeOK'
    BY WorkerProcAssumption
    DEF IInv, callVars, pipeVars, Jobs, MainEnds, WorkerEnds, InheritedEnds,
        PipeEnds, Goto, JobDone, Outcomes, Calls, PCs, Causes, Chunks, TypeOK
  <1>2. EndsInv' /\ CauseInv' /\ OutcomeInv'
    BY WorkerProcAssumption
    DEF IInv, callVars, pipeVars, Jobs, Goto, JobDone, Reading, Writing, Gone,
        Leaving, Faulty, Lost, Waited, EndsInv, CauseInv, OutcomeInv
  <1>3. ProgressInv' /\ JobPipeInv'
    BY WorkerProcAssumption
    DEF IInv, callVars, pipeVars, Jobs, Goto, JobDone, Settled, ProgressInv,
        JobPipeInv
  <1>4. ResPipeInv' /\ DeliveryInv'
    BY WorkerProcAssumption
    DEF IInv, callVars, pipeVars, None, Goto, JobDone, Gone, Leaving, Settled,
        ResPipeInv, DeliveryInv
  <1> QED
    BY <1>1, <1>2, <1>3, <1>4 DEF IInv

\* ResultUnsendable preserves the invariant.
LEMMA ResultUnsendableStep == ASSUME IInv, ResultUnsendable PROVE IInv'
  <1>1. TypeOK'
    <2>1. pc' \in PCs /\ cause' \in Causes /\ open' \subseteq PipeEnds
      BY DEF ResultUnsendable, Goto, IInv, TypeOK, Fault, Graceful, PCs, Causes
    <2> QED
      BY <2>1 DEF ResultUnsendable, IInv, TypeOK, callVars, pipeVars
  <1>2. EndsInv' /\ CauseInv' /\ OutcomeInv'
    BY DEF IInv, callVars, pipeVars, Jobs, MainEnds, WorkerEnds,
           InheritedEnds, PipeEnds, Goto, Fault, Graceful, ResultUnsendable, Chunks,
           TypeOK, Reading, Writing, Gone, Leaving, Faulty, Lost, Waited,
           EndsInv, CauseInv, OutcomeInv
  <1>3. ProgressInv' /\ JobPipeInv'
    BY DEF IInv, callVars, pipeVars, Jobs, WorkerEnds, Goto, Fault, Graceful,
           ResultUnsendable, Settled, ProgressInv, JobPipeInv
  <1>4. ResPipeInv' /\ DeliveryInv'
    BY DEF IInv, callVars, pipeVars, None, WorkerEnds, Goto, Fault, Graceful,
           ResultUnsendable, Gone, Leaving, Settled, ResPipeInv, DeliveryInv
  <1> QED
    BY <1>1, <1>2, <1>3, <1>4 DEF IInv

\* SendChunk preserves the invariant.
LEMMA SendChunkStep == ASSUME IInv, SendChunk PROVE IInv'
  <1> DEFINE c == Chunk(wjob, wunsent)
  <1>1. /\ pc = "send" /\ wjob \in Jobs /\ wjob = job /\ wunsent \in Nat \ {0}
        /\ ran[job] = "started" /\ call \in {"recv", "wait", "crashed"}
        /\ resPipe \in Seq(Chunks)
    BY DEF SendChunk, IInv, TypeOK, ProgressInv, Jobs
  <1>2. c \in Chunks /\ c.msg = job /\ (c.last <=> wunsent = 1)
    BY <1>1, ChunkFacts
  <1>3. /\ resPipe' = Append(resPipe, c) /\ Len(resPipe) < PipeCap
        /\ wunsent' = wunsent - 1
        /\ UNCHANGED <<callVars, jobPipe, open, signalled, wjob, wgot, cause>>
    BY DEF SendChunk
  <1>4. \/ /\ wunsent = 1 /\ pc' = "retire"
           /\ ran' = [ran EXCEPT ![job] = "finished"]
        \/ wunsent # 1 /\ pc' = pc /\ ran' = ran
    BY <1>1 DEF SendChunk, Goto
  <1> HIDE DEF c
  <1>5. /\ resPipe' \in Seq(Chunks) /\ Len(resPipe') = Len(resPipe) + 1
        /\ \A i \in 1..Len(resPipe) : resPipe'[i] = resPipe[i]
        /\ resPipe'[Len(resPipe) + 1] = c
    BY <1>1, <1>2, <1>3, AppendFacts
  <1>6. ran'[job] = IF wunsent = 1 THEN "finished" ELSE "started"
    BY <1>1, <1>4 DEF IInv, TypeOK
  <1>7. TypeOK'
    BY <1>1, <1>3, <1>4, <1>5, WorkerProcAssumption
    DEF IInv, TypeOK, callVars, PCs
  <1>8. EndsInv' /\ CauseInv'
    BY <1>1, <1>3, <1>4
    DEF IInv, EndsInv, CauseInv, callVars, Reading, Writing, Gone
  <1>9. ProgressInv'
    <2>1. \A j \in Jobs : j > job => ran'[j] = "no"
      BY <1>1, <1>4 DEF IInv, TypeOK, ProgressInv, Jobs
    <2>2. CASE wunsent = 1
      BY <1>1, <1>3, <1>4, <1>6, <2>1, <2>2
      DEF IInv, ProgressInv, callVars, Settled
    <2>3. CASE wunsent # 1
      BY <1>1, <1>3, <1>4, <2>3 DEF IInv, ProgressInv, callVars
    <2> QED
      BY <2>2, <2>3
  <1>10. JobPipeInv'
    BY <1>3 DEF IInv, JobPipeInv, callVars
  <1>11. \A i \in 1..Len(resPipe) : resPipe[i].msg = job /\ ~resPipe[i].last
    BY <1>1 DEF IInv, ResPipeInv, Leaving, Gone
  <1>12. ResPipeInv'
    <2>1. \A i \in 1..Len(resPipe') :
            /\ resPipe'[i].msg = job
            /\ resPipe'[i].last => i = Len(resPipe') /\ wunsent = 1
      BY <1>1, <1>2, <1>5, <1>11
    <2>2. job # None
      BY <1>1 DEF Jobs, None
    <2> QED
      BY <1>1, <1>3, <1>5, <1>6, <2>1, <2>2 DEF ResPipeInv, callVars
  <1>13. DeliveryInv'
    BY <1>1, <1>2, <1>3, <1>4, <1>5, <1>11
    DEF IInv, DeliveryInv, CauseInv, callVars, Leaving, Gone
  <1>14. OutcomeInv'
    BY <1>1, <1>3, <1>4
    DEF IInv, OutcomeInv, callVars, TypeOK, Leaving, Gone, Jobs
  <1> QED
    BY <1>7, <1>8, <1>9, <1>10, <1>12, <1>13, <1>14 DEF IInv

\* SendBroken preserves the invariant.
LEMMA SendBrokenStep == ASSUME IInv, SendBroken PROVE IInv'
  <1>1. TypeOK'
    BY WorkerProcAssumption
    DEF IInv, callVars, pipeVars, Jobs, MainEnds, WorkerEnds, InheritedEnds,
        PipeEnds, ResReaders, Goto, Graceful, SendBroken, Outcomes, Calls,
        PCs, Causes, Chunks, TypeOK
  <1>2. EndsInv' /\ CauseInv' /\ OutcomeInv'
    BY DEF IInv, callVars, pipeVars, Jobs, MainEnds, WorkerEnds,
           InheritedEnds, PipeEnds, ResReaders, Goto, Graceful, SendBroken,
           Chunks, TypeOK, Reading, Writing, Gone, Leaving, Faulty, Lost,
           Waited, EndsInv, CauseInv, OutcomeInv
  <1>3. ProgressInv' /\ JobPipeInv'
    BY DEF IInv, callVars, pipeVars, Jobs, WorkerEnds, ResReaders, Goto,
           Graceful, SendBroken, Settled, ProgressInv, JobPipeInv
  <1>4. ResPipeInv' /\ DeliveryInv'
    BY DEF IInv, callVars, pipeVars, None, WorkerEnds, ResReaders, Goto,
           Graceful, SendBroken, Gone, Leaving, Settled, ResPipeInv,
           DeliveryInv
  <1> QED
    BY <1>1, <1>2, <1>3, <1>4 DEF IInv

\* RunRetire preserves the invariant.
LEMMA RunRetireStep == ASSUME IInv, RunRetire PROVE IInv'
  <1>1. TypeOK'
    <2>1. pc' \in PCs /\ cause' \in Causes /\ open' \subseteq PipeEnds
      BY DEF RunRetire, Goto, IInv, TypeOK, Fault, Graceful, PCs, Causes
    <2> QED
      BY <2>1 DEF RunRetire, IInv, TypeOK, callVars, pipeVars
  <1>2. EndsInv' /\ CauseInv' /\ OutcomeInv'
    BY DEF IInv, callVars, pipeVars, Jobs, MainEnds, WorkerEnds,
           InheritedEnds, PipeEnds, Goto, Fault, Graceful, RunRetire, Chunks,
           TypeOK, Reading, Writing, Gone, Leaving, Faulty, Lost, Waited,
           EndsInv, CauseInv, OutcomeInv
  <1>3. ProgressInv' /\ JobPipeInv'
    BY DEF IInv, callVars, pipeVars, Jobs, WorkerEnds, Goto, Fault, Graceful,
           RunRetire, Settled, ProgressInv, JobPipeInv
  <1>4. ResPipeInv' /\ DeliveryInv'
    BY DEF IInv, callVars, pipeVars, None, WorkerEnds, Goto, Fault, Graceful,
           RunRetire, Gone, Leaving, Settled, ResPipeInv, DeliveryInv
  <1> QED
    BY <1>1, <1>2, <1>3, <1>4 DEF IInv

\* CloseRecv preserves the invariant.
LEMMA CloseRecvStep == ASSUME IInv, CloseRecv PROVE IInv'
  <1>1. TypeOK'
    BY WorkerProcAssumption
    DEF IInv, callVars, pipeVars, Jobs, MainEnds, WorkerEnds, InheritedEnds,
        PipeEnds, Goto, CloseRecv, Outcomes, Calls, PCs, Causes, Chunks,
        TypeOK
  <1>2. EndsInv' /\ CauseInv' /\ OutcomeInv'
    BY DEF IInv, callVars, pipeVars, Jobs, Goto, CloseRecv, Reading, Writing,
           Gone, Leaving, Faulty, Lost, Waited, EndsInv, CauseInv, OutcomeInv
  <1>3. ProgressInv' /\ JobPipeInv'
    BY DEF IInv, callVars, pipeVars, Jobs, Goto, CloseRecv, Settled,
           ProgressInv, JobPipeInv
  <1>4. ResPipeInv' /\ DeliveryInv'
    BY DEF IInv, callVars, pipeVars, None, Goto, CloseRecv, Gone, Leaving,
           Settled, ResPipeInv, DeliveryInv
  <1> QED
    BY <1>1, <1>2, <1>3, <1>4 DEF IInv

\* SendSentinel preserves the invariant.
LEMMA SendSentinelStep == ASSUME IInv, SendSentinel PROVE IInv'
  <1>1. /\ pc = "sentinel" /\ resPipe \in Seq(Chunks)
        /\ UNCHANGED <<callVars, jobPipe, open, wjob, ran, cause>>
    BY DEF SendSentinel, IInv, TypeOK
  <1>2. pc' \in {"closing", "exiting"}
    BY DEF SendSentinel, Goto
  <1>3. EndsInv' /\ CauseInv' /\ OutcomeInv'
    BY <1>1, <1>2 DEF IInv, EndsInv, CauseInv, OutcomeInv, callVars, Reading,
                      Writing, Leaving, Gone, Lost
  <1>4. ProgressInv' /\ JobPipeInv'
    BY <1>1, <1>2 DEF IInv, ProgressInv, JobPipeInv, Settled, callVars
  <1>5. CASE ResReaders # {}
    <2> DEFINE c == Chunk(None, 1)
    <2>1. c \in Chunks /\ c.msg = None /\ c.last
      BY ChunkFacts
    <2>2. /\ resPipe' = Append(resPipe, c) /\ pc' = "closing"
          /\ Len(resPipe) < PipeCap
      BY <1>5 DEF SendSentinel, Goto
    <2> HIDE DEF c
    <2>3. /\ resPipe' \in Seq(Chunks) /\ Len(resPipe') = Len(resPipe) + 1
          /\ \A i \in 1..Len(resPipe) : resPipe'[i] = resPipe[i]
          /\ resPipe'[Len(resPipe) + 1] = c
      BY <1>1, <2>1, <2>2, AppendFacts
    <2>4. TypeOK'
      BY <1>1, <2>2, <2>3, WorkerProcAssumption
      DEF SendSentinel, IInv, TypeOK, PCs, callVars
    <2>5. ResPipeInv'
      BY <1>1, <2>1, <2>2, <2>3
      DEF IInv, ResPipeInv, ProgressInv, Settled, callVars, Leaving, Gone
    <2>6. DeliveryInv'
      BY <1>1, <2>1, <2>3 DEF IInv, DeliveryInv, callVars
    <2> QED
      BY <1>3, <1>4, <2>4, <2>5, <2>6 DEF IInv
  <1>6. CASE ResReaders = {}
    <2>1. resPipe' = resPipe /\ pc' = "exiting" /\ call = "crashed"
      BY <1>6 DEF SendSentinel, Goto, IInv, EndsInv, ResReaders
    <2>2. TypeOK'
      BY <1>1, <2>1 DEF SendSentinel, IInv, TypeOK, PCs, callVars
    <2>3. DeliveryInv' /\ ResPipeInv'
      BY <1>1, <2>1
      DEF IInv, DeliveryInv, ResPipeInv, Settled, callVars, Leaving, Gone
    <2> QED
      BY <1>3, <1>4, <2>2, <2>3 DEF IInv
  <1> QED
    BY <1>5, <1>6

\* CloseSend preserves the invariant.
LEMMA CloseSendStep == ASSUME IInv, CloseSend PROVE IInv'
  <1>1. TypeOK'
    BY WorkerProcAssumption
    DEF IInv, callVars, pipeVars, Jobs, MainEnds, WorkerEnds, InheritedEnds,
        PipeEnds, Goto, CloseSend, Outcomes, Calls, PCs, Causes, Chunks,
        TypeOK
  <1>2. EndsInv' /\ CauseInv' /\ OutcomeInv'
    BY DEF IInv, callVars, pipeVars, Jobs, Goto, CloseSend, Reading, Writing,
           Gone, Leaving, Faulty, Lost, Waited, EndsInv, CauseInv, OutcomeInv
  <1>3. ProgressInv' /\ JobPipeInv'
    BY DEF IInv, callVars, pipeVars, Jobs, Goto, CloseSend, Settled,
           ProgressInv, JobPipeInv
  <1>4. ResPipeInv' /\ DeliveryInv'
    BY DEF IInv, callVars, pipeVars, None, Goto, CloseSend, Gone, Leaving,
           Settled, ResPipeInv, DeliveryInv
  <1> QED
    BY <1>1, <1>2, <1>3, <1>4 DEF IInv

\* Drain preserves the invariant.
LEMMA DrainStep == ASSUME IInv, Drain PROVE IInv'
  <1>1. TypeOK'
    BY TailFacts, WorkerProcAssumption
    DEF IInv, callVars, procVars, Jobs, MainEnds, WorkerEnds, InheritedEnds,
        PipeEnds, Drain, Outcomes, Calls, PCs, Causes, Chunks, TypeOK
  <1>2. EndsInv' /\ CauseInv' /\ OutcomeInv'
    BY TailFacts
    DEF IInv, callVars, procVars, Jobs, Drain, Reading, Writing, Gone,
        Leaving, Faulty, Lost, Waited, EndsInv, CauseInv, OutcomeInv
  <1>3. ProgressInv' /\ JobPipeInv'
    BY TailFacts
    DEF IInv, callVars, procVars, Jobs, Drain, Settled, ProgressInv,
        JobPipeInv
  <1>4. ResPipeInv' /\ DeliveryInv'
    BY TailFacts
    DEF IInv, callVars, procVars, None, Drain, Gone, Leaving, Settled,
        ResPipeInv, DeliveryInv
  <1> QED
    BY <1>1, <1>2, <1>3, <1>4 DEF IInv

\* DrainEof preserves the invariant.
LEMMA DrainEofStep == ASSUME IInv, DrainEof PROVE IInv'
  <1>1. TypeOK'
    BY WorkerProcAssumption
    DEF IInv, callVars, pipeVars, Jobs, MainEnds, WorkerEnds, InheritedEnds,
        PipeEnds, JobWriters, JobEof, Goto, DrainEof, Outcomes, Calls, PCs,
        Causes, Chunks, TypeOK
  <1>2. EndsInv' /\ CauseInv' /\ OutcomeInv'
    BY DEF IInv, callVars, pipeVars, Jobs, JobWriters, JobEof, Goto, DrainEof,
           Reading, Writing, Gone, Leaving, Faulty, Lost, Waited, EndsInv,
           CauseInv, OutcomeInv
  <1>3. ProgressInv' /\ JobPipeInv'
    BY DEF IInv, callVars, pipeVars, Jobs, JobWriters, JobEof, Goto, DrainEof,
           Settled, ProgressInv, JobPipeInv
  <1>4. ResPipeInv' /\ DeliveryInv'
    BY DEF IInv, callVars, pipeVars, Jobs, None, MainEnds, WorkerEnds,
           InheritedEnds, PipeEnds, JobWriters, JobEof, Goto, DrainEof,
           Chunks, TypeOK, Gone, Leaving, Settled, ResPipeInv, DeliveryInv,
           CauseInv
  <1> QED
    BY <1>1, <1>2, <1>3, <1>4 DEF IInv

\* Exit preserves the invariant.
LEMMA ExitStep == ASSUME IInv, Exit PROVE IInv'
  <1>1. TypeOK'
    BY WorkerProcAssumption
    DEF IInv, callVars, pipeVars, Jobs, MainEnds, WorkerEnds, InheritedEnds,
        PipeEnds, Goto, End, Exit, Outcomes, Calls, PCs, Causes, Chunks,
        TypeOK
  <1>2. EndsInv' /\ CauseInv' /\ OutcomeInv'
    BY DEF IInv, callVars, pipeVars, Jobs, WorkerEnds, InheritedEnds, Goto,
           End, Exit, Reading, Writing, Gone, Leaving, Faulty, Lost, Waited,
           EndsInv, CauseInv, OutcomeInv
  <1>3. ProgressInv' /\ JobPipeInv'
    BY DEF IInv, callVars, pipeVars, Jobs, WorkerEnds, InheritedEnds, Goto,
           End, Exit, Settled, ProgressInv, JobPipeInv
  <1>4. ResPipeInv' /\ DeliveryInv'
    BY DEF IInv, callVars, pipeVars, None, WorkerEnds, InheritedEnds, Goto,
           End, Exit, Gone, Leaving, Settled, ResPipeInv, DeliveryInv
  <1> QED
    BY <1>1, <1>2, <1>3, <1>4 DEF IInv

\* ExitHangs preserves the invariant.
LEMMA ExitHangsStep == ASSUME IInv, ExitHangs PROVE IInv'
  <1>1. TypeOK'
    BY WorkerProcAssumption
    DEF IInv, callVars, pipeVars, Jobs, MainEnds, WorkerEnds, InheritedEnds,
        PipeEnds, Goto, ExitHangs, Outcomes, Calls, PCs, Causes, Chunks,
        TypeOK
  <1>2. EndsInv' /\ CauseInv' /\ OutcomeInv'
    BY DEF IInv, callVars, pipeVars, Jobs, Goto, ExitHangs, Reading, Writing,
           Gone, Leaving, Faulty, Lost, Waited, EndsInv, CauseInv, OutcomeInv
  <1>3. ProgressInv' /\ JobPipeInv'
    BY DEF IInv, callVars, pipeVars, Jobs, Goto, ExitHangs, Settled,
           ProgressInv, JobPipeInv
  <1>4. ResPipeInv' /\ DeliveryInv'
    BY DEF IInv, callVars, pipeVars, None, Goto, ExitHangs, Gone, Leaving,
           Settled, ResPipeInv, DeliveryInv
  <1> QED
    BY <1>1, <1>2, <1>3, <1>4 DEF IInv

\* Die preserves the invariant.
LEMMA DieStep == ASSUME IInv, Die PROVE IInv'
  <1>1. TypeOK'
    BY WorkerProcAssumption
    DEF IInv, callVars, pipeVars, Jobs, MainEnds, WorkerEnds, InheritedEnds,
        PipeEnds, Goto, End, Alive, Die, Outcomes, Calls, PCs, Causes, Chunks,
        TypeOK
  <1>2. EndsInv' /\ CauseInv' /\ OutcomeInv'
    BY DEF IInv, callVars, pipeVars, Jobs, WorkerEnds, InheritedEnds, Goto,
           End, Alive, Die, Reading, Writing, Gone, Leaving, Faulty, Lost,
           Waited, EndsInv, CauseInv, OutcomeInv
  <1>3. ProgressInv' /\ JobPipeInv'
    BY DEF IInv, callVars, pipeVars, Jobs, WorkerEnds, InheritedEnds, Goto,
           End, Alive, Die, Settled, ProgressInv, JobPipeInv
  <1>4. ResPipeInv' /\ DeliveryInv'
    BY DEF IInv, callVars, pipeVars, None, WorkerEnds, InheritedEnds, Goto,
           End, Alive, Die, Gone, Leaving, Settled, ResPipeInv, DeliveryInv
  <1> QED
    BY <1>1, <1>2, <1>3, <1>4 DEF IInv

-----------------------------------------------------------------------------
(***************************************************************************)
(* The theorems.                                                           *)
(***************************************************************************)

\* Every step of either process, of a caller or of the environment preserves
\* the invariant.
LEMMA NextIInv == IInv /\ [Next]_vars => IInv'
  <1> SUFFICES ASSUME IInv, [Next]_vars PROVE IInv'
    OBVIOUS
  <1>1. CASE MainStep
    BY <1>1, FinishStartStep, WriteChunkStep, WriteBrokenStep,
       WriteClosedStep, ReadChunkStep, ReadMessageStep, ReadEofStep,
       ReadTruncatedStep, WaitDoneStep DEF MainStep
  <1>2. CASE WorkerStep
    BY <1>2, BootStep, RunInitStep, PollTrueStep, RecvChunkStep, RecvEofStep,
       JobDoneStep, ResultUnsendableStep, SendChunkStep, SendBrokenStep, RunRetireStep,
       CloseRecvStep, SendSentinelStep, CloseSendStep, DrainStep,
       DrainEofStep, ExitStep DEF WorkerStep
  <1>3. CASE Environment
    BY <1>3, StartStep, StartForkStep, StartAbortedStep, SubmitStep,
       SubmitUnpicklableStep, CancelStep, ShutdownStep, GraceExpiredStep,
       MainCrashStep, PollTimeoutStep, SpinStep, ExitHangsStep, DieStep DEF
       Environment
  <1>4. CASE UNCHANGED vars
    BY <1>4 DEF vars, callVars, procVars, pipeVars, IInv, TypeOK, EndsInv,
                ProgressInv, JobPipeInv, ResPipeInv, DeliveryInv, CauseInv,
                OutcomeInv, Settled
  <1> QED
    BY <1>1, <1>2, <1>3, <1>4 DEF Next

\* The inductive invariant holds in every reachable state.
THEOREM InvariantHolds == SafeSpec => []IInv
  BY InitIInv, NextIInv, PTL DEF SafeSpec

\* Every variable keeps its type; in particular neither pipe ever holds more
\* than its capacity.
THEOREM TypeCorrect == SafeSpec => []TypeOK
  <1>1. IInv => TypeOK
    BY DEF IInv
  <1> QED
    BY <1>1, InvariantHolds, PTL

\* A job that run_sync hands back for another worker was never begun, so
\* WorkerContext.run_sync may submit it again without running it twice.
THEOREM RetriedJobsNeverRan == SafeSpec => []RetryNeverRan
  <1>1. IInv => RetryNeverRan
    BY DEF IInv, OutcomeInv, RetryNeverRan
  <1> QED
    BY <1>1, InvariantHolds, PTL

\* A job whose result was sent is never reported as a dead worker or handed
\* back: the pipe is read to its end before the worker is given up.
THEOREM FinishedJobsAreDelivered == SafeSpec => []FinishedIsDelivered
  <1>1. IInv => FinishedIsDelivered
    BY DEF IInv, OutcomeInv, FinishedIsDelivered, Lost
  <1> QED
    BY <1>1, InvariantHolds, PTL

\* The Outcome that run_sync returns is that of the job it sent.
THEOREM ResultsMatchJobs == SafeSpec => []ResultMatchesJob
  <1>1. IInv => ResultMatchesJob
    BY DEF IInv, OutcomeInv, ResultMatchesJob
  <1> QED
    BY <1>1, InvariantHolds, PTL

\* A worker that run_sync gives up leaves no process behind.
THEOREM DiscardedWorkersAreDead == SafeSpec => []DiscardedIsDead
  <1>1. IInv => DiscardedIsDead
    BY DEF IInv, EndsInv, DiscardedIsDead, Alive
  <1> QED
    BY <1>1, InvariantHolds, PTL

\* A worker that timed out, retired or was shut down is never reported as
\* broken, even to a job that slipped into its pipe while it was leaving.
THEOREM CleanExitsAreNotBroken == SafeSpec => []CleanExitNeverBroken
  <1>1. IInv => CleanExitNeverBroken
    BY DEF IInv, OutcomeInv, CleanExitNeverBroken, Lost, Faulty
  <1> QED
    BY <1>1, InvariantHolds, PTL
=============================================================================

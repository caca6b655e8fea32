----------------------------- MODULE WorkerProc -----------------------------
(***************************************************************************)
(* One worker process and the handle the main process keeps for it: the    *)
(* class SpawnProcWorker (and its fork variant) on one side, the function  *)
(* worker_behavior on the other, joined by two one-way pipes.  The main    *)
(* side is one coroutine at a time (call), the worker is one sequential    *)
(* process (pc); every await, blocking call or user callable is a point    *)
(* where the two interleave.                                               *)
(*                                                                         *)
(* A message is a number of chunks.  Its first chunk is the 4-byte header, *)
(* unless the whole message is one chunk (header and payload written by a  *)
(* single write).  A pipe holds at most PipeCap chunks.                    *)
(***************************************************************************)
EXTENDS Naturals, Sequences

CONSTANTS
  MaxJobs,       \* bound: how many jobs are submitted to this worker
  Sizes,         \* the message lengths considered, in chunks
  PipeCap,       \* how many chunks a pipe buffers
  StartMethods,  \* "spawn" (forkserver is alike), "fork", or a choice of both
  EagerCleanups  \* values of EAGER_CLEANUP in _trio_parallel_workers

ASSUME WorkerProcAssumption ==
  /\ MaxJobs \in Nat
  /\ Sizes \subseteq Nat \ {0}
  /\ PipeCap \in Nat \ {0}
  /\ StartMethods \subseteq {"spawn", "fork"}
  /\ EagerCleanups \subseteq BOOLEAN /\ EagerCleanups # {}

VARIABLES
  call,      \* where the main coroutine is in the handle's methods
  job,       \* number of the latest job submitted (0: none yet)
  unsent,    \* chunks of that job still to be written
  got,       \* chunks of the incoming message already read
  killable,  \* is the running call cancellable (kill_on_cancel)?
  pending,   \* what run_sync will do once the process has been waited for
  outcome,   \* what run_sync returned or raised for each job
  open,      \* the open pipe ends, the copies held by either process
  jobPipe,   \* chunks in the pipe main -> worker
  resPipe,   \* chunks in the pipe worker -> main
  signalled, \* SIGKILL has been sent by the main process
  pc,        \* where the worker is in worker_behavior
  wjob,      \* the job the worker received last
  wgot,      \* chunks of the incoming job already read
  wunsent,   \* chunks of the result still to be written
  ran,       \* history: how far the worker got with each job
  cause      \* history: why the worker left its loop

callVars == <<call, job, unsent, got, killable, pending, outcome>>
procVars == <<pc, wjob, wgot, wunsent, ran, cause>>
pipeVars == <<jobPipe, resPipe>>
vars == <<callVars, procVars, pipeVars, open, signalled>>

Jobs == 1..MaxJobs
None == 0   \* the message dumps(None), sent by a worker that is leaving

(***************************************************************************)
(* The pipe ends.  The main process owns send_pipe and recv_pipe and, until *)
(* start has returned, its copies of the child's two ends.  A forked child *)
(* also inherits copies of the main process's ends.                        *)
(***************************************************************************)
MainEnds == {"send_pipe", "recv_pipe", "child_recv_pipe", "child_send_pipe"}
WorkerEnds == {"w_recv_pipe", "w_send_pipe"}
InheritedEnds == {"w_main_send_pipe", "w_main_recv_pipe"}
PipeEnds == MainEnds \cup WorkerEnds \cup InheritedEnds

JobReaders == {"child_recv_pipe", "w_recv_pipe"} \cap open
JobWriters == {"send_pipe", "w_main_send_pipe"} \cap open
ResReaders == {"recv_pipe", "w_main_recv_pipe"} \cap open
ResWriters == {"child_send_pipe", "w_send_pipe"} \cap open

\* A read sees end-of-file once the pipe is empty and nobody can write to it.
JobEof == jobPipe = <<>> /\ JobWriters = {}
ResEof == resPipe = <<>> /\ ResWriters = {}

Chunk(msg, left) == [msg |-> msg, last |-> left = 1]

Init ==
  /\ call = "new" /\ job = 0 /\ unsent = 0 /\ got = 0
  /\ killable = FALSE /\ pending = "none"
  /\ outcome = [j \in Jobs |-> "pending"]
  /\ open = MainEnds
  /\ jobPipe = <<>> /\ resPipe = <<>>
  /\ signalled = FALSE
  /\ pc = "absent" /\ wjob = 0 /\ wgot = 0 /\ wunsent = 0
  /\ ran = [j \in Jobs |-> "no"]
  /\ cause = "none"

-----------------------------------------------------------------------------
(***************************************************************************)
(* The main process: SpawnProcWorker.                                      *)
(***************************************************************************)

\* start: proc.start has run in a thread; the process exists.
Start ==
  /\ call = "new" /\ "spawn" \in StartMethods
  /\ call' = "starting" /\ pc' = "boot"
  /\ open' = open \cup WorkerEnds
  /\ UNCHANGED <<job, unsent, got, killable, pending, outcome, pipeVars,
                 signalled, wjob, wgot, wunsent, ran, cause>>

\* ForkProcWorker.start: proc.start forks in the event loop's own thread, and
\* the child's ends are closed here before anyone else has a turn.
StartFork ==
  /\ call = "new" /\ "fork" \in StartMethods
  /\ call' = "ready" /\ pc' = "boot"
  /\ open' = {"send_pipe", "recv_pipe"} \cup WorkerEnds \cup InheritedEnds
  /\ UNCHANGED <<job, unsent, got, killable, pending, outcome, pipeVars,
                 signalled, wjob, wgot, wunsent, ran, cause>>

\* start: cancelled before the process exists, or proc.start raised.
StartAborted ==
  /\ call = "new"
  /\ call' = "discarded"
  /\ UNCHANGED <<job, unsent, got, killable, pending, outcome, procVars,
                 pipeVars, open, signalled>>

\* Faulty variant of FinishStart: this process keeps the child's ends.
FinishStartKeepsEnds ==
  /\ call = "starting"
  /\ call' = "ready"
  /\ UNCHANGED <<job, unsent, got, killable, pending, outcome, procVars,
                 pipeVars, open, signalled>>

\* start: back in the event loop, close the child's ends in this process.
FinishStart ==
  /\ call = "starting"
  /\ call' = "ready"
  /\ open' = open \ {"child_send_pipe", "child_recv_pipe"}
  /\ UNCHANGED <<job, unsent, got, killable, pending, outcome, procVars,
                 pipeVars, signalled>>

\* run_sync(job): the job is pickled and about to be sent.
Submit(size, cancellable) ==
  /\ call = "ready" /\ job < MaxJobs
  /\ call' = "send"
  /\ job' = job + 1
  /\ unsent' = size
  /\ got' = 0
  /\ killable' = cancellable
  /\ UNCHANGED <<pending, outcome, procVars, pipeVars, open, signalled>>

\* run_sync(job): dumps raised; the Error is returned and the worker stays
\* usable.
SubmitUnpicklable ==
  /\ call = "ready" /\ job < MaxJobs
  /\ job' = job + 1
  /\ outcome' = [outcome EXCEPT ![job'] = "unpicklable"]
  /\ UNCHANGED <<call, unsent, got, killable, pending, procVars, pipeVars,
                 open, signalled>>

\* run_sync stops using the worker and waits for the process to end, shielded
\* from cancellation; afterwards it returns None or raises.
AwaitEnd(why) ==
  /\ call' = "wait"
  /\ pending' = why
  /\ UNCHANGED <<job, unsent, killable, outcome>>

\* run_sync, except BaseException: kill, then wait, then raise.
KillAndRaise(why) ==
  /\ AwaitEnd(why)
  /\ signalled' = TRUE

\* Faulty variant of WriteChunk: a write to a full pipe is not held back.
WriteChunkToFullPipe ==
  /\ call = "send"
  /\ "send_pipe" \in open /\ JobReaders # {}
  /\ jobPipe' = Append(jobPipe, Chunk(job, unsent))
  /\ unsent' = unsent - 1
  /\ call' = IF unsent = 1 THEN "recv" ELSE "send"
  /\ UNCHANGED <<job, got, killable, pending, outcome, procVars, resPipe,
                 open, signalled>>

\* FdStream.send_all: one successful write; after the last one run_sync goes
\* on to receive the result.
WriteChunk ==
  /\ call = "send"
  /\ "send_pipe" \in open /\ JobReaders # {}
  /\ Len(jobPipe) < PipeCap
  /\ jobPipe' = Append(jobPipe, Chunk(job, unsent))
  /\ unsent' = unsent - 1
  /\ call' = IF unsent = 1 THEN "recv" ELSE "send"
  /\ UNCHANGED <<job, got, killable, pending, outcome, procVars, resPipe,
                 open, signalled>>

\* FdStream.send_all: EPIPE.  The worker has closed its end, so this job must
\* be given to another worker: run_sync will return None.
WriteBroken ==
  /\ call = "send"
  /\ "send_pipe" \in open /\ JobReaders = {}
  /\ AwaitEnd("retry")
  /\ UNCHANGED <<got, procVars, pipeVars, open, signalled>>

\* FdStream.send_all: EBADF, the handle was shut down before this call.
WriteClosed ==
  /\ call = "send"
  /\ "send_pipe" \notin open
  /\ KillAndRaise("closed")
  /\ UNCHANGED <<got, procVars, pipeVars, open>>

\* FdChannel.receive: a chunk that does not complete the message.
ReadChunk ==
  /\ call = "recv"
  /\ resPipe # <<>> /\ ~Head(resPipe).last
  /\ resPipe' = Tail(resPipe)
  /\ got' = got + 1
  /\ UNCHANGED <<call, job, unsent, killable, pending, outcome, procVars,
                 jobPipe, open, signalled>>

\* FdChannel.receive completes a message and loads it: the Outcome of a job
\* is returned, None means the worker is leaving and did not see the job.
ReadMessage ==
  /\ call = "recv"
  /\ resPipe # <<>> /\ Head(resPipe).last
  /\ resPipe' = Tail(resPipe)
  /\ \/ /\ Head(resPipe).msg = None
        /\ AwaitEnd("retry")
        /\ UNCHANGED <<got, signalled>>
     \/ /\ Head(resPipe).msg # None
        /\ call' = "ready"
        /\ outcome' = [outcome EXCEPT ![job] =
                         IF Head(resPipe).msg = job THEN "value" ELSE "stale"]
        /\ UNCHANGED <<job, unsent, got, killable, pending, signalled>>
     \/ /\ Head(resPipe).msg # None
        /\ KillAndRaise("unloadable")   \* loads raised
        /\ UNCHANGED got
  /\ UNCHANGED <<procVars, jobPipe, open>>

\* Faulty variant of ReadEof: the worker is replaced without asking how far it
\* got.
ReadEofRetries ==
  /\ call = "recv"
  /\ ResEof /\ got <= 1
  /\ open' = open \ {"send_pipe"}
  /\ AwaitEnd("retry")
  /\ UNCHANGED <<got, procVars, pipeVars, signalled>>

\* Faulty variant of ReadEof: the end of the process is noticed before the
\* pipe has been read to its end.
ReadEofUndrained ==
  /\ call = "recv"
  /\ ResWriters = {} /\ got <= 1
  /\ open' = open \ {"send_pipe"}
  /\ AwaitEnd("broken")
  /\ UNCHANGED <<got, procVars, pipeVars, signalled>>

\* FdChannel._recv_exactly: end-of-file where a message or a payload should
\* start is EndOfChannel.  run_sync closes its send end, so that a worker
\* draining its pipe can end, and waits to raise BrokenWorkerProcessError.
ReadEof ==
  /\ call = "recv"
  /\ ResEof /\ got <= 1
  /\ open' = open \ {"send_pipe"}
  /\ AwaitEnd("broken")
  /\ UNCHANGED <<got, procVars, pipeVars, signalled>>

\* FdChannel._recv_exactly: end-of-file inside a payload is an OSError.
ReadTruncated ==
  /\ call = "recv"
  /\ ResEof /\ got > 1
  /\ KillAndRaise("oserror")
  /\ UNCHANGED <<got, procVars, pipeVars, open>>

\* Faulty variant of Cancel: the call is abandoned as a thread would be.
CancelAbandons ==
  /\ call \in {"send", "recv"}
  /\ killable
  /\ call' = "ready"
  /\ outcome' = [outcome EXCEPT ![job] = "cancelled"]
  /\ UNCHANGED <<job, unsent, got, killable, pending, procVars, pipeVars, open,
                 signalled>>

\* A cancellation is delivered at a checkpoint of send or receive.
Cancel ==
  /\ call \in {"send", "recv"}
  /\ killable
  /\ KillAndRaise("cancelled")
  /\ UNCHANGED <<got, procVars, pipeVars, open>>

\* Faulty variant of WaitDone: the process is not waited for.
WaitDoneEarly ==
  /\ call = "wait"
  /\ call' = "discarded"
  /\ outcome' = [outcome EXCEPT ![job] = pending]
  /\ UNCHANGED <<job, unsent, got, killable, pending, procVars, pipeVars,
                 open, signalled>>

\* wait: the sentinel is readable and the process is joined.  A worker that
\* made run_sync return None or raise is not put back into the cache.
WaitDone ==
  /\ call = "wait"
  /\ pc = "dead"
  /\ call' = "discarded"
  /\ outcome' = [outcome EXCEPT ![job] = pending]
  /\ UNCHANGED <<job, unsent, got, killable, pending, procVars, pipeVars,
                 open, signalled>>

\* shutdown, called by WorkerProcCache.shutdown on idle workers.
Shutdown ==
  /\ call = "ready"
  /\ open' = open \ {"send_pipe"}
  /\ UNCHANGED <<callVars, procVars, pipeVars, signalled>>

\* Faulty variant of GraceExpired: the worker is left running.
GraceExpiredSpares ==
  /\ call = "ready"
  /\ "send_pipe" \notin open
  /\ pc # "dead"
  /\ UNCHANGED vars

\* WorkerProcCache.shutdown: the grace period is over and the worker has not
\* ended.
GraceExpired ==
  /\ call = "ready"
  /\ "send_pipe" \notin open
  /\ pc # "dead"
  /\ signalled' = TRUE
  /\ UNCHANGED <<callVars, procVars, pipeVars, open>>

\* The main process dies; the kernel closes all it had open.
MainCrash ==
  /\ call \notin {"crashed", "discarded"}
  /\ call' = "crashed"
  /\ open' = open \ MainEnds
  /\ UNCHANGED <<job, unsent, got, killable, pending, outcome, procVars,
                 pipeVars, signalled>>

-----------------------------------------------------------------------------
(***************************************************************************)
(* The worker process: worker_behavior.                                    *)
(***************************************************************************)

Goto(p) == pc' = p

\* Faulty variant of Boot: a forked child keeps the ends it inherited.
BootKeepsEnds ==
  /\ pc = "boot"
  /\ Goto("init")
  /\ UNCHANGED <<callVars, pipeVars, open, signalled, wjob, wgot, wunsent, ran,
                 cause>>

\* ForkProcWorker._run closes the inherited ends; a spawned child has none.
Boot ==
  /\ pc = "boot"
  /\ Goto("init")
  /\ open' = open \ InheritedEnds
  /\ UNCHANGED <<callVars, pipeVars, signalled, wjob, wgot, wunsent, ran, cause>>

\* except BaseException: close the result pipe, then drain the job pipe.
Fault ==
  /\ Goto("drain")
  /\ open' = open \ {"w_send_pipe"}
  /\ cause' = "fault"

\* except (BrokenPipeError, EOFError): close both ends and return.
Graceful(why) ==
  /\ Goto("exiting")
  /\ open' = open \ WorkerEnds
  /\ cause' = why

\* init() returns or raises; EOFError and BrokenPipeError are taken for a
\* closed pipe.
RunInit ==
  /\ pc = "init"
  /\ \/ Goto("poll") /\ UNCHANGED <<open, cause>>
     \/ Fault
     \/ Graceful("raised")
  /\ UNCHANGED <<callVars, pipeVars, signalled, wjob, wgot, wunsent, ran>>

\* A user callable (init, the job, retire) never returns.
Spin ==
  /\ pc \in {"init", "run", "retire"}
  /\ Goto("spin")
  /\ UNCHANGED <<callVars, pipeVars, open, signalled, wjob, wgot, wunsent,
                 ran, cause>>

\* safe_poll is true: there is data, or end-of-file.
PollTrue ==
  /\ pc = "poll"
  /\ jobPipe # <<>> \/ JobEof
  /\ Goto("recv")
  /\ wgot' = 0
  /\ UNCHANGED <<callVars, pipeVars, open, signalled, wjob, wunsent, ran, cause>>

\* safe_poll is false: idle_timeout has passed and the pipe is empty.
PollTimeout ==
  /\ pc = "poll"
  /\ jobPipe = <<>> /\ ~JobEof
  /\ Goto("cleanup")
  /\ cause' = "idle"
  /\ UNCHANGED <<callVars, pipeVars, open, signalled, wjob, wgot, wunsent, ran>>

\* recv_bytes reads one more chunk; a complete job is run at once.
RecvChunk ==
  /\ pc = "recv"
  /\ jobPipe # <<>>
  /\ jobPipe' = Tail(jobPipe)
  /\ wgot' = wgot + 1
  /\ \/ /\ Head(jobPipe).last
        /\ Goto("run")
        /\ wjob' = Head(jobPipe).msg
        /\ ran' = [ran EXCEPT ![wjob'] = "started"]
     \/ /\ ~Head(jobPipe).last
        /\ UNCHANGED <<pc, wjob, ran>>
  /\ UNCHANGED <<callVars, resPipe, open, signalled, wunsent, cause>>

\* recv_bytes meets end-of-file: EOFError where a message or a payload should
\* start, OSError inside a payload.
RecvEof ==
  /\ pc = "recv"
  /\ JobEof
  /\ IF wgot <= 1 THEN Graceful("closed") ELSE Fault
  /\ UNCHANGED <<callVars, pipeVars, signalled, wjob, wgot, wunsent, ran>>

\* handle_job and safe_dumps: the job returned or raised, the Outcome is
\* pickled and has a size.
JobDone(size) ==
  /\ pc = "run"
  /\ Goto("send")
  /\ wunsent' = size
  /\ UNCHANGED <<callVars, pipeVars, open, signalled, wjob, wgot, ran, cause>>

\* safe_dumps: neither the Outcome nor the Error of pickling it can be pickled,
\* and what dumps raised is treated as any exception in the loop.
ResultUnsendable ==
  /\ pc = "run"
  /\ Fault \/ Graceful("raised")
  /\ UNCHANGED <<callVars, pipeVars, signalled, wjob, wgot, wunsent, ran>>

\* send_bytes: a blocking write of one chunk of the result.
SendChunk ==
  /\ pc = "send"
  /\ ResReaders # {} /\ Len(resPipe) < PipeCap
  /\ resPipe' = Append(resPipe, Chunk(wjob, wunsent))
  /\ wunsent' = wunsent - 1
  /\ \/ /\ wunsent = 1
        /\ Goto("retire")
        /\ ran' = [ran EXCEPT ![wjob] = "finished"]
     \/ /\ wunsent # 1
        /\ UNCHANGED <<pc, ran>>
  /\ UNCHANGED <<callVars, jobPipe, open, signalled, wjob, wgot, cause>>

\* send_bytes: BrokenPipeError, the main process is gone.
SendBroken ==
  /\ pc = "send"
  /\ ResReaders = {}
  /\ Graceful("closed")
  /\ UNCHANGED <<callVars, pipeVars, signalled, wjob, wgot, wunsent, ran>>

\* retire() is false, is true, or raises.
RunRetire ==
  /\ pc = "retire"
  /\ \/ Goto("poll") /\ UNCHANGED <<open, cause>>
     \/ Goto("cleanup") /\ cause' = "retire" /\ UNCHANGED open
     \/ Fault
     \/ Graceful("raised")
  /\ UNCHANGED <<callVars, pipeVars, signalled, wjob, wgot, wunsent, ran>>

\* else: close the job pipe first, so that no later write gets through; the
\* tests turn that off.
CloseRecv ==
  /\ pc = "cleanup"
  /\ Goto("sentinel")
  /\ \E eager \in EagerCleanups :
       open' = IF eager THEN open \ {"w_recv_pipe"} ELSE open
  /\ UNCHANGED <<callVars, pipeVars, signalled, wjob, wgot, wunsent, ran, cause>>

\* Faulty variant of SendSentinel: nothing is sent.
SendSentinelSkipped ==
  /\ pc = "sentinel"
  /\ Goto("closing")
  /\ UNCHANGED <<callVars, pipeVars, open, signalled, wjob, wgot, wunsent, ran,
                 cause>>

\* else: send the sentinel for a job that got through before that.  A
\* BrokenPipeError here is outside the try block and ends the process.
SendSentinel ==
  /\ pc = "sentinel"
  /\ \/ /\ ResReaders # {} /\ Len(resPipe) < PipeCap
        /\ resPipe' = Append(resPipe, Chunk(None, 1))
        /\ Goto("closing")
     \/ /\ ResReaders = {}
        /\ Goto("exiting")
        /\ UNCHANGED resPipe
  /\ UNCHANGED <<callVars, jobPipe, open, signalled, wjob, wgot, wunsent, ran,
                 cause>>

\* else: close the result pipe and return.
CloseSend ==
  /\ pc = "closing"
  /\ Goto("exiting")
  /\ open' = open \ {"w_send_pipe"}
  /\ UNCHANGED <<callVars, pipeVars, signalled, wjob, wgot, wunsent, ran, cause>>

\* except BaseException: discard what the main process still sends.
Drain ==
  /\ pc = "drain"
  /\ jobPipe # <<>>
  /\ jobPipe' = Tail(jobPipe)
  /\ UNCHANGED <<callVars, procVars, resPipe, open, signalled>>

\* except BaseException: the main process closed the pipe, raise again.
DrainEof ==
  /\ pc = "drain"
  /\ JobEof
  /\ Goto("exiting")
  /\ UNCHANGED <<callVars, pipeVars, open, signalled, wjob, wgot, wunsent, ran,
                 cause>>

\* The process ends and the kernel closes its ends.
End ==
  /\ Goto("dead")
  /\ open' = open \ (WorkerEnds \cup InheritedEnds)

Exit ==
  /\ pc = "exiting"
  /\ End
  /\ UNCHANGED <<callVars, pipeVars, signalled, wjob, wgot, wunsent, ran, cause>>

\* Interpreter shutdown in the worker does not come to an end (a non-daemon
\* thread left behind by a job, an atexit function).
ExitHangs ==
  /\ pc = "exiting"
  /\ Goto("stuck")
  /\ UNCHANGED <<callVars, pipeVars, open, signalled, wjob, wgot, wunsent, ran,
                 cause>>

Alive == pc \notin {"absent", "dead"}

\* The process is destroyed: by an outside signal, or by the job itself
\* (a segfault, os._exit).
Die ==
  /\ Alive
  /\ End
  /\ cause' = "killed"
  /\ UNCHANGED <<callVars, pipeVars, signalled, wjob, wgot, wunsent, ran>>

\* The SIGKILL sent by the main process takes effect.
Killed == signalled /\ Die

-----------------------------------------------------------------------------
(***************************************************************************)
(* The specification.                                                      *)
(***************************************************************************)

\* What the event loop does without being asked again.
MainStep ==
  \/ FinishStart \/ WriteChunk \/ WriteBroken \/ WriteClosed
  \/ ReadChunk \/ ReadMessage \/ ReadEof \/ ReadTruncated \/ WaitDone

\* What the worker's own thread does, while user callables return.
WorkerStep ==
  \/ Boot \/ RunInit \/ PollTrue \/ RecvChunk \/ RecvEof
  \/ (\E size \in Sizes : JobDone(size)) \/ ResultUnsendable
  \/ SendChunk \/ SendBroken \/ RunRetire
  \/ CloseRecv \/ SendSentinel \/ CloseSend \/ Drain \/ DrainEof \/ Exit

\* What callers, timers and the outside world may do.
Environment ==
  \/ Start \/ StartFork \/ StartAborted
  \/ \E size \in Sizes, cancellable \in BOOLEAN : Submit(size, cancellable)
  \/ SubmitUnpicklable \/ Cancel \/ Shutdown \/ GraceExpired \/ MainCrash
  \/ PollTimeout \/ Spin \/ ExitHangs \/ Die

Next == MainStep \/ WorkerStep \/ Environment

\* The event loop runs a task that can run, the operating system runs a
\* process that can run and delivers SIGKILL, a finite grace period ends.
Fairness ==
  /\ WF_vars(MainStep)
  /\ WF_vars(WorkerStep)
  /\ WF_vars(Killed)
  /\ WF_vars(GraceExpired)

SafeSpec == Init /\ [][Next]_vars
Spec == SafeSpec /\ Fairness

\* The caller cancels every call it may cancel.
CancelSpec == Spec /\ WF_vars(Cancel)

-----------------------------------------------------------------------------
(***************************************************************************)
(* Properties.                                                             *)
(***************************************************************************)

Outcomes == {"pending", "value", "stale", "unpicklable", "retry", "broken",
             "oserror", "closed", "unloadable", "cancelled"}
Calls == {"new", "starting", "ready", "send", "recv", "wait", "discarded",
          "crashed"}
PCs == {"absent", "boot", "init", "poll", "recv", "run", "send", "retire",
        "cleanup", "sentinel", "closing", "drain", "exiting", "spin", "stuck",
        "dead"}
Causes == {"none", "idle", "retire", "closed", "raised", "fault", "killed"}
Chunks == [msg : Jobs \cup {None}, last : BOOLEAN]

\* The values each variable ranges over.
TypeOK ==
  /\ call \in Calls /\ pc \in PCs /\ cause \in Causes
  /\ job \in 0..MaxJobs /\ wjob \in 0..MaxJobs
  /\ unsent \in Nat /\ got \in Nat /\ wgot \in Nat /\ wunsent \in Nat
  /\ killable \in BOOLEAN /\ signalled \in BOOLEAN
  /\ pending \in Outcomes \cup {"none"}
  /\ outcome \in [Jobs -> Outcomes]
  /\ ran \in [Jobs -> {"no", "started", "finished"}]
  /\ open \subseteq PipeEnds
  /\ jobPipe \in Seq(Chunks) /\ resPipe \in Seq(Chunks)
  /\ Len(jobPipe) <= PipeCap /\ Len(resPipe) <= PipeCap

\* run_sync returns None only for a job the worker never began: the caller
\* submits it again to another worker, and it must not run twice.
RetryNeverRan == \A j \in Jobs : outcome[j] = "retry" => ran[j] = "no"

\* A job that ran to its end and whose result was sent is not reported as a
\* failure of the worker, however soon the worker retires, faults or dies.
FinishedIsDelivered ==
  \A j \in Jobs : outcome[j] \in {"retry", "broken", "oserror"}
                  => ran[j] # "finished"

\* run_sync never returns the Outcome of another job.
ResultMatchesJob == \A j \in Jobs : outcome[j] # "stale"

\* A worker that is given up (its call was cancelled, raised, or returned
\* None) leaves no living process behind.
DiscardedIsDead == call = "discarded" => ~Alive

\* A worker that left its loop cleanly (idle timeout, retirement, closed pipe)
\* is never reported as broken; only a failed or destroyed one is.
CleanExitNeverBroken ==
  \A j \in Jobs : outcome[j] \in {"broken", "oserror"}
                  => cause \in {"fault", "raised", "killed"}

\* run_sync comes to an end, unless the job itself (or retire, or the end of
\* the interpreter) hangs in the worker.
CallReturns ==
  call \in {"send", "recv", "wait"}
    ~> \/ call \in {"ready", "discarded", "crashed"}
       \/ call \in {"send", "recv"} /\ pc = "spin"
       \/ pc = "stuck"

\* A worker that is told to shut down ends, whatever it is doing.
ShutdownEnds ==
  (call = "ready" /\ "send_pipe" \notin open)
    ~> (pc = "dead" \/ call # "ready")

\* When the main process dies its workers end by themselves, unless a user
\* callable or the end of the interpreter hangs.
NoOrphan == call = "crashed" ~> ~Alive \/ pc \in {"spin", "stuck"}

\* What BrokenWorkerError documents: run_sync raises it when the worker dies
\* unexpectedly.  (A death inside a long result is a bare OSError.)
DeathIsBrokenWorker == \A j \in Jobs : outcome[j] # "oserror"

\* What reference.rst documents: a deadlocked call can be cancelled by
\* terminating the process.  (Not while run_sync waits, shielded, for a worker
\* it has not killed.)
CancelledCallEnds ==
  call \in {"send", "recv", "wait"} /\ killable
    ~> call \in {"ready", "discarded", "crashed"}
=============================================================================

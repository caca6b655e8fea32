---------------------------- MODULE WindowsWorker ----------------------------
(***************************************************************************)
(* A worker on Windows.  start waits for the worker's acknowledgement and   *)
(* for the end of its process at once, in a nursery of two tasks of which   *)
(* each cancels the other.  The pipes carry whole messages: a read takes    *)
(* one part of a long message and leaves the rest to a second read.         *)
(* WorkerProc has the rest of a worker's life.                              *)
(***************************************************************************)
EXTENDS Naturals, Sequences

CONSTANTS
  MaxJobs,   \* bound: how many jobs are submitted to the worker
  MaxParts   \* 2: a message that is longer than DEFAULT_RECEIVE_SIZE is
             \* taken in two parts

ASSUME WindowsWorkerAssumption == MaxJobs \in Nat /\ MaxParts \in {1, 2}

VARIABLES
  main,       \* where start or run_sync is
  ack,        \* where the task wait_for_ack is
  waiter,     \* where the task that waits for the process is
  nursery,    \* has the nursery's own scope been cancelled?
  cancelled,  \* has the scope around start or run_sync been cancelled?
  job,        \* number of the latest job
  outcome,    \* what run_sync did with it
  ends,       \* the main process has its pipe ends open
  jobs,       \* messages on the way to the worker
  results,    \* messages on their way back: their parts, and the parts left
  signalled,  \* the main process has terminated the worker
  proc        \* where the worker process is

startVars == <<ack, waiter, nursery>>
callVars == <<job, outcome>>
pipeVars == <<ends, jobs, results>>
vars == <<main, startVars, cancelled, callVars, pipeVars, signalled, proc>>

Ack == MaxJobs + 1   \* the message ACK
None == 0            \* the sentinel, dumps(None)
Messages == 0..Ack

Init ==
  /\ main = "new"
  /\ ack = "none" /\ waiter = "none" /\ nursery = FALSE
  /\ cancelled = FALSE
  /\ job = 0 /\ outcome = "none"
  /\ ends = TRUE /\ jobs = <<>> /\ results = <<>>
  /\ signalled = FALSE
  /\ proc = "absent"

\* There is no process, and so the worker's pipe ends are closed.
Ended == proc \in {"absent", "dead"}
Message(msg, parts) == [msg |-> msg, parts |-> parts, left |-> parts]

-----------------------------------------------------------------------------
(***************************************************************************)
(* PipeReceiveChannel and PipeSendChannel.                                 *)
(***************************************************************************)

\* Faulty variant of TakePart: the end of a message is not told from its middle.
TakePartOfStream == results' = [results EXCEPT ![1].left = @ - 1]

\* readinto_overlapped takes a part of the first message; if that is not all of
\* it, the read fails with ERROR_MORE_DATA.
TakePart ==
  results' = IF Head(results).left = 1
               THEN Tail(results)
               ELSE [results EXCEPT ![1].left = @ - 1]

\* BrokenPipeError of a read: the other end is closed and nothing is left.
EndOfChannel == results = <<>> /\ Ended

-----------------------------------------------------------------------------
(***************************************************************************)
(* SpawnProcWorker.start.                                                  *)
(***************************************************************************)

\* The scope around the call is cancelled.
Cancel ==
  /\ ~cancelled /\ main \notin {"ready", "dropped"}
  /\ cancelled' = TRUE
  /\ UNCHANGED <<main, startVars, callVars, pipeVars, signalled, proc>>

\* proc.start runs in a thread, which is waited for.
Start ==
  /\ main = "new"
  /\ \/ main' = "thread" /\ proc' = "boot"
     \/ main' = "dropped" /\ UNCHANGED proc   \* it raises, or was cancelled
  /\ UNCHANGED <<startVars, cancelled, callVars, pipeVars, signalled>>

\* The child's ends are closed here, the nursery is opened.
OpenNursery ==
  /\ main = "thread"
  /\ main' = "acking" /\ ack' = "receive" /\ waiter' = "waiting"
  /\ UNCHANGED <<nursery, cancelled, callVars, pipeVars, signalled, proc>>

\* Faulty variant of AckReceived: the other task is not cancelled.
AckReceivedAlone ==
  /\ ack = "receive" /\ results # <<>>
  /\ TakePart
  /\ ack' = "passed"
  /\ UNCHANGED <<main, waiter, nursery, cancelled, callVars, ends, jobs, signalled,
                 proc>>

\* wait_for_ack has the message and cancels the other task.
AckReceived ==
  /\ ack = "receive" /\ results # <<>>
  /\ TakePart
  /\ ack' = "passed" /\ nursery' = TRUE
  /\ UNCHANGED <<main, waiter, cancelled, callVars, ends, jobs, signalled, proc>>

\* wait_for_ack meets the end of the pipe or is cancelled: it terminates the
\* process and waits for its end, shielded.
AckFails(why) ==
  /\ ack = "receive"
  /\ IF why = "eof" THEN EndOfChannel ELSE nursery \/ cancelled
  /\ signalled' = TRUE
  /\ ack' = why
  /\ UNCHANGED <<main, waiter, nursery, cancelled, callVars, pipeVars, proc>>

\* The process has ended, and wait returns its exit code; start cancels
\* wait_for_ack.
Exited ==
  /\ waiter = "waiting" /\ proc = "dead"
  /\ waiter' = "exited" /\ nursery' = TRUE
  /\ UNCHANGED <<main, ack, cancelled, callVars, pipeVars, signalled, proc>>

\* wait_for_ack is over: the shielded wait before it raises as well.
AckFailed == ack \in {"eof", "cancelled"} /\ proc = "dead"
AckEnded == ack = "passed" \/ AckFailed

\* wait is cancelled, by either scope or because wait_for_ack has raised.
WaitCancelled ==
  /\ waiter = "waiting"
  /\ nursery \/ cancelled \/ AckFailed
  /\ waiter' = "cancelled"
  /\ UNCHANGED <<main, ack, nursery, cancelled, callVars, pipeVars, signalled, proc>>

\* The exception that leaves the nursery: an end of the pipe, or a cancellation
\* that is not only the nursery's own.
NurseryRaises ==
  \/ ack = "eof"
  \/ cancelled /\ (ack = "cancelled" \/ waiter = "cancelled")

\* Faulty variant of NurseryEnds: the exit code is not looked at.
NurseryEndsUnchecked ==
  /\ main = "acking" /\ AckEnded /\ waiter # "waiting"
  /\ main' = IF NurseryRaises THEN "dropped" ELSE "ready"
  /\ UNCHANGED <<startVars, cancelled, callVars, pipeVars, signalled, proc>>

\* The nursery ends; start raises if it does, or if there is an exit code, and
\* then nothing refers to the worker any more.
NurseryEnds ==
  /\ main = "acking" /\ AckEnded /\ waiter # "waiting"
  /\ main' = IF NurseryRaises \/ waiter = "exited" THEN "dropped" ELSE "ready"
  /\ UNCHANGED <<startVars, cancelled, callVars, pipeVars, signalled, proc>>

\* Faulty variant of Collect: the pipe ends stay open.
CollectNothing == FALSE /\ UNCHANGED vars

\* A worker object that is not referred to is collected, and its ends closed.
Collect ==
  /\ main = "dropped" /\ ends
  /\ ends' = FALSE
  /\ UNCHANGED <<main, startVars, cancelled, callVars, jobs, results, signalled, proc>>

-----------------------------------------------------------------------------
(***************************************************************************)
(* SpawnProcWorker.run_sync.                                               *)
(***************************************************************************)

\* Another call, with a scope of its own, and PipeSendChannel.send: the whole
\* message is written, or the worker has closed its end.
Submit ==
  /\ main = "ready" /\ job < MaxJobs
  /\ job' = job + 1 /\ cancelled' = FALSE
  /\ IF Ended
       THEN main' = "wait" /\ outcome' = "retry" /\ UNCHANGED jobs
       ELSE main' = "recv" /\ jobs' = Append(jobs, job') /\ UNCHANGED outcome
  /\ UNCHANGED <<startVars, ends, results, signalled, proc>>

Returned(msg) ==
  IF msg = None THEN main' = "wait" /\ outcome' = "retry"
                ELSE main' = "ready" /\ outcome' = IF msg = job THEN "value" ELSE "stale"

\* PipeReceiveChannel.receive, first read.
Receive ==
  /\ main = "recv" /\ results # <<>>
  /\ TakePart
  /\ IF Head(results).left = 1
       THEN Returned(Head(results).msg)
       ELSE main' = "more" /\ UNCHANGED outcome
  /\ UNCHANGED <<startVars, cancelled, job, ends, jobs, signalled, proc>>

\* Faulty variant of ReceiveMore: the second read is not shielded.
ReceiveMoreUnshielded ==
  /\ main = "more"
  /\ \/ results # <<>> /\ TakePart /\ Returned(Head(results).msg) /\ UNCHANGED signalled
     \/ /\ cancelled /\ signalled' = TRUE
        /\ main' = "wait" /\ outcome' = "cancelled" /\ UNCHANGED results
  /\ UNCHANGED <<startVars, cancelled, job, ends, jobs, proc>>

\* PipeReceiveChannel.receive: the rest of a long message, whose size is known,
\* shielded from cancellation.
ReceiveMore ==
  /\ main = "more" /\ results # <<>>
  /\ TakePart
  /\ Returned(Head(results).msg)
  /\ UNCHANGED <<startVars, cancelled, job, ends, jobs, signalled, proc>>

\* The end of the pipe in either read, or a cancellation of the first.
ReceiveFails ==
  /\ \/ main \in {"recv", "more"} /\ EndOfChannel /\ outcome' = "broken" /\ UNCHANGED signalled
     \/ main = "recv" /\ cancelled /\ outcome' = "cancelled" /\ signalled' = TRUE
  /\ main' = "wait"
  /\ UNCHANGED <<startVars, cancelled, job, pipeVars, proc>>

\* wait, shielded: the process has ended and the worker is given up.
WaitDone ==
  /\ main = "wait" /\ proc = "dead"
  /\ main' = "dropped"
  /\ UNCHANGED <<startVars, cancelled, callVars, pipeVars, signalled, proc>>

-----------------------------------------------------------------------------
(***************************************************************************)
(* worker_behavior.                                                        *)
(***************************************************************************)

\* The interpreter is up: the first thing sent is the acknowledgement.  If the
\* main process has closed its end, the worker leaves.
SendAck ==
  /\ proc = "boot"
  /\ IF ends THEN results' = Append(results, Message(Ack, 1)) /\ proc' = "init"
             ELSE proc' = "dead" /\ UNCHANGED results
  /\ UNCHANGED <<main, startVars, cancelled, callVars, ends, jobs, signalled>>

\* init returns.
InitReturns ==
  /\ proc = "init"
  /\ proc' = "poll"
  /\ UNCHANGED <<main, startVars, cancelled, callVars, pipeVars, signalled>>

\* A job is received and run.
RunJob ==
  /\ proc = "poll" /\ jobs # <<>>
  /\ proc' = "run"
  /\ UNCHANGED <<main, startVars, cancelled, callVars, pipeVars, signalled>>

\* Its result is sent, as one message; a long one keeps the worker until it is
\* read.
SendResult(parts) ==
  /\ proc = "run"
  /\ proc' = IF parts = 1 THEN "poll" ELSE "sending"
  /\ jobs' = Tail(jobs)
  /\ results' = Append(results, Message(Head(jobs), parts))
  /\ UNCHANGED <<main, startVars, cancelled, callVars, ends, signalled>>

ResultTaken ==
  /\ proc = "sending" /\ results = <<>>
  /\ proc' = "poll"
  /\ UNCHANGED <<main, startVars, cancelled, callVars, pipeVars, signalled>>

\* The main process has closed its end: the worker leaves.
PollEof ==
  /\ proc = "poll" /\ jobs = <<>> /\ ~ends
  /\ proc' = "dead"
  /\ UNCHANGED <<main, startVars, cancelled, callVars, pipeVars, signalled>>

\* idle_timeout is over, or retire says so.
IdleTimeout ==
  /\ proc = "poll" /\ jobs = <<>> /\ ends
  /\ proc' = "leaving"
  /\ UNCHANGED <<main, startVars, cancelled, callVars, pipeVars, signalled>>

\* The pipe is closed: a job that is sent before is answered by None.
Leave ==
  /\ proc = "leaving"
  /\ results' = IF ends THEN Append(results, Message(None, 1)) ELSE results
  /\ proc' = "dead"
  /\ UNCHANGED <<main, startVars, cancelled, callVars, ends, jobs, signalled>>

\* Code of the user never returns: an import while the interpreter starts, init
\* or a job.
Spin ==
  /\ proc \in {"boot", "init", "run"}
  /\ proc' = "stuck"
  /\ UNCHANGED <<main, startVars, cancelled, callVars, pipeVars, signalled>>

\* The process ends: start-up fails (a main module that spawns again), init
\* raises, it crashes or is terminated.  What it has not sent is lost.
Die ==
  /\ ~Ended
  /\ proc' = "dead"
  /\ results' = IF proc = "sending" THEN <<>> ELSE results
  /\ UNCHANGED <<main, startVars, cancelled, callVars, ends, jobs, signalled>>

Killed == signalled /\ Die

-----------------------------------------------------------------------------
MainStep ==
  \/ OpenNursery \/ AckReceived \/ Exited \/ WaitCancelled \/ NurseryEnds
  \/ (\E why \in {"eof", "cancelled"} : AckFails(why))
  \/ Collect \/ Receive \/ ReceiveMore \/ ReceiveFails \/ WaitDone

WorkerStep ==
  \/ SendAck \/ InitReturns \/ RunJob
  \/ (\E parts \in 1..MaxParts : SendResult(parts)) \/ ResultTaken \/ PollEof \/ Leave

Next == MainStep \/ WorkerStep \/ Start \/ Cancel \/ Submit \/ IdleTimeout \/ Spin \/ Die

\* Both processes go on, TerminateProcess takes effect, garbage is collected.
Spec ==
  Init /\ [][Next]_vars
    /\ WF_vars(MainStep) /\ WF_vars(WorkerStep) /\ WF_vars(Killed)

-----------------------------------------------------------------------------
(***************************************************************************)
(* Properties.                                                             *)
(***************************************************************************)

\* The values each variable ranges over.
TypeOK ==
  /\ main \in {"new", "thread", "acking", "ready", "recv", "more", "wait", "dropped"}
  /\ ack \in {"none", "receive", "passed", "eof", "cancelled"}
  /\ waiter \in {"none", "waiting", "exited", "cancelled"}
  /\ nursery \in BOOLEAN /\ cancelled \in BOOLEAN
  /\ job \in 0..MaxJobs
  /\ outcome \in {"none", "value", "stale", "retry", "broken", "cancelled"}
  /\ ends \in BOOLEAN /\ jobs \in Seq(1..MaxJobs)
  /\ results \in Seq([msg : Messages, parts : 1..MaxParts, left : 1..MaxParts])
  /\ signalled \in BOOLEAN
  /\ proc \in {"absent", "boot", "init", "poll", "run", "sending", "leaving", "stuck",
               "dead"}

\* start ends, whichever of its tasks is first, and a start that raises leaves no
\* process, at whatever moment it fails or is cancelled: the worker was
\* terminated, or it meets the end of the collected pipes.  (Code of the user
\* that hangs in the worker is left to a cancellation, and to itself after it.)
StartSettles ==
  main = "acking" ~> \/ main \notin {"acking", "dropped"}
                     \/ main = "dropped" /\ proc \in {"absent", "dead", "stuck"}
                     \/ main = "acking" /\ proc = "stuck" /\ ~cancelled

\* A started worker's acknowledgement has been taken from the pipe: the first
\* receive of run_sync cannot meet it.
AckIsTaken ==
  main \in {"ready", "recv", "more"}
    => /\ ack = "passed"
       /\ \A i \in 1..Len(results) : results[i].msg # Ack

\* A receive takes a message whole or not at all, whenever it is cancelled: only
\* between its two reads is the first message of the pipe incomplete, and then
\* the rest is there unless the worker has died.
NoTornMessage ==
  /\ \A i \in 1..Len(results) : results[i].left < results[i].parts => main = "more"
  /\ main = "more" /\ ~Ended => results # <<>> /\ results[1].left < results[1].parts
=============================================================================

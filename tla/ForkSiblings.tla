---------------------------- MODULE ForkSiblings ----------------------------
(***************************************************************************)
(* Several forked workers of one main process.  A child gets copies of     *)
(* every pipe end that is open at the time of its fork, and closes only    *)
(* those of its own handle (ForkProcWorker._run): the ends of its elder    *)
(* siblings stay open in it until it ends.  A worker sees end-of-file on   *)
(* its job pipe only when nobody is left who could write to it.            *)
(*                                                                         *)
(* WorkerProc has one worker in every detail; here a message is one unit   *)
(* and a worker's last steps are one, so that several fit.  Workers are    *)
(* numbered in the order of their forks.  The grace period never ends and  *)
(* idle_timeout may be infinite, as both may be configured.                *)
(***************************************************************************)
EXTENDS Naturals

CONSTANT NumWorkers   \* bound: how many workers are forked

ASSUME ForkSiblingsAssumption == NumWorkers \in Nat

Workers == 1..NumWorkers
Main == 0
Holders == {Main} \cup Workers

VARIABLES
  forked,    \* how many workers have been forked
  proc,      \* where each worker is in worker_behavior
  call,      \* where the main process is with each worker's handle
  job,       \* is there a job in the worker's job pipe?
  answer,    \* what is in the worker's result pipe
  sendEnds,  \* who holds the end that writes to the worker's job pipe
  recvEnds,  \* who holds the end that reads from its result pipe
  closing,   \* WorkerProcCache.shutdown has been called
  mainUp     \* the main process has not been destroyed

ends == <<sendEnds, recvEnds>>
vars == <<forked, proc, call, job, answer, ends, closing, mainUp>>

Init ==
  /\ forked = 0
  /\ proc = [w \in Workers |-> "none"]
  /\ call = [w \in Workers |-> "none"]
  /\ job = [w \in Workers |-> FALSE]
  /\ answer = [w \in Workers |-> "none"]
  /\ sendEnds = [w \in Workers |-> {}]
  /\ recvEnds = [w \in Workers |-> {}]
  /\ closing = FALSE
  /\ mainUp = TRUE

\* A process that ends closes every copy it holds.
Without(holders, p) == [w \in Workers |-> holders[w] \ {p}]

-----------------------------------------------------------------------------
(***************************************************************************)
(* The main process.                                                       *)
(***************************************************************************)

\* The holders of an end after w was forked: the pipes of w are new, and w has
\* a copy of each elder's end that the main process holds.
Inherited(holders, w) ==
  [v \in Workers |-> IF v = w THEN {Main, w}
                     ELSE IF Main \in holders[v] THEN holders[v] \cup {w}
                     ELSE holders[v]]

\* The cache is empty: new_worker and ForkProcWorker.start, in one turn of the
\* event loop: pipes, fork, close of the child's ends.  run_sync goes on to send.
Fork ==
  /\ mainUp /\ ~closing /\ forked < NumWorkers
  /\ \A w \in Workers : call[w] # "idle"
  /\ LET w == forked + 1 IN
       /\ forked' = w
       /\ proc' = [proc EXCEPT ![w] = "boot"]
       /\ call' = [call EXCEPT ![w] = "send"]
       /\ sendEnds' = Inherited(sendEnds, w)
       /\ recvEnds' = Inherited(recvEnds, w)
  /\ UNCHANGED <<job, answer, closing, mainUp>>

\* A task pops an idle worker off the cache.
Take(w) ==
  /\ mainUp /\ ~closing /\ call[w] = "idle"
  /\ call' = [call EXCEPT ![w] = "send"]
  /\ UNCHANGED <<forked, proc, job, answer, ends, closing, mainUp>>

\* SpawnProcWorker.run_sync sends the job.  Only the worker itself holds the
\* reading end, so a worker that is gone is a broken pipe: wait, return None.
SendJob(w) ==
  /\ mainUp /\ call[w] = "send"
  /\ IF proc[w] = "dead"
     THEN /\ call' = [call EXCEPT ![w] = "wait"] /\ UNCHANGED job
     ELSE /\ call' = [call EXCEPT ![w] = "recv"]
          /\ job' = [job EXCEPT ![w] = TRUE]
  /\ UNCHANGED <<forked, proc, answer, ends, closing, mainUp>>

\* The result arrives and the worker goes back to the cache; or it was the
\* sentinel, and the end of the process is waited for.
ReceiveAnswer(w) ==
  /\ mainUp /\ call[w] = "recv" /\ answer[w] # "none"
  /\ call' = [call EXCEPT ![w] = IF answer[w] = "result" THEN "idle" ELSE "wait"]
  /\ answer' = [answer EXCEPT ![w] = "none"]
  /\ UNCHANGED <<forked, proc, job, ends, closing, mainUp>>

\* Faulty variant of ReceiveEof: the send end stays open.
ReceiveEofKeepsEnd(w) ==
  /\ mainUp /\ call[w] = "recv" /\ answer[w] = "none"
  /\ proc[w] \in {"drain", "dead"}
  /\ call' = [call EXCEPT ![w] = "wait"]
  /\ UNCHANGED <<forked, proc, job, answer, ends, closing, mainUp>>

\* EndOfChannel: the worker closed its result pipe.  The main process closes
\* its send end, to free a worker that drains, and waits for the process.
ReceiveEof(w) ==
  /\ mainUp /\ call[w] = "recv" /\ answer[w] = "none"
  /\ proc[w] \in {"drain", "dead"}
  /\ call' = [call EXCEPT ![w] = "wait"]
  /\ sendEnds' = [sendEnds EXCEPT ![w] = @ \ {Main}]
  /\ UNCHANGED <<forked, proc, job, answer, recvEnds, closing, mainUp>>

\* Faulty variant of Cancel: the worker is not killed but cached again.
CancelKeepsWorker(w) ==
  /\ mainUp /\ call[w] \in {"send", "recv"}
  /\ call' = [call EXCEPT ![w] = "idle"]
  /\ UNCHANGED <<forked, proc, job, answer, ends, closing, mainUp>>

\* The call is cancelled: the worker is sent SIGKILL and waited for.
Cancel(w) ==
  /\ mainUp /\ call[w] \in {"send", "recv"}
  /\ call' = [call EXCEPT ![w] = "kill"]
  /\ UNCHANGED <<forked, proc, job, answer, ends, closing, mainUp>>

\* The process has ended: run_sync raises or returns None, or prune finds it
\* dead in the cache.  Nothing refers to the handle any more.
Discard(w) ==
  /\ mainUp /\ proc[w] = "dead"
  /\ (call[w] \in {"wait", "kill"} \/ (call[w] = "idle" /\ ~closing))
  /\ call' = [call EXCEPT ![w] = "over"]
  /\ UNCHANGED <<forked, proc, job, answer, ends, closing, mainUp>>

\* WorkerProcCache.shutdown is called once no call is running any more.
Shutdown ==
  /\ mainUp /\ ~closing
  /\ \A w \in Workers : call[w] \in {"none", "idle", "over"}
  /\ closing' = TRUE
  /\ UNCHANGED <<forked, proc, call, job, answer, ends, mainUp>>

\* Its first loop closes the send end of each cached worker, in any order.
ShutdownWorker(w) ==
  /\ mainUp /\ closing /\ call[w] = "idle" /\ Main \in sendEnds[w]
  /\ sendEnds' = [sendEnds EXCEPT ![w] = @ \ {Main}]
  /\ UNCHANGED <<forked, proc, call, job, answer, recvEnds, closing, mainUp>>

\* The main process is destroyed, and its copies of all ends with it.
MainCrash ==
  /\ mainUp /\ mainUp' = FALSE
  /\ sendEnds' = Without(sendEnds, Main)
  /\ recvEnds' = Without(recvEnds, Main)
  /\ UNCHANGED <<forked, proc, call, job, answer, closing>>

-----------------------------------------------------------------------------
(***************************************************************************)
(* The workers.                                                            *)
(***************************************************************************)
Alive(w) == proc[w] \notin {"none", "dead"}

Goto(w, place) ==
  /\ proc' = [proc EXCEPT ![w] = place]
  /\ UNCHANGED <<forked, call, ends, closing, mainUp>>

\* The process ends, and with it every copy of a pipe end it holds.
Gone(w) ==
  /\ proc' = [proc EXCEPT ![w] = "dead"]
  /\ sendEnds' = Without(sendEnds, w)
  /\ recvEnds' = Without(recvEnds, w)
  /\ UNCHANGED <<forked, call, closing, mainUp>>

\* Faulty variant of Boot: the child keeps its copies of its handle's ends.
BootKeepsEnds(w) ==
  /\ proc[w] = "boot"
  /\ Goto(w, "init") /\ UNCHANGED <<job, answer>>

\* ForkProcWorker._run: the child closes its copies of its own handle's ends,
\* and no others.
Boot(w) ==
  /\ proc[w] = "boot"
  /\ proc' = [proc EXCEPT ![w] = "init"]
  /\ sendEnds' = [sendEnds EXCEPT ![w] = @ \ {w}]
  /\ recvEnds' = [recvEnds EXCEPT ![w] = @ \ {w}]
  /\ UNCHANGED <<forked, call, job, answer, closing, mainUp>>

\* init or retire returns.
UserReturns(w) ==
  /\ \/ proc[w] \in {"init", "retire"} /\ Goto(w, "poll")
     \/ proc[w] = "retire" /\ Goto(w, "leave")
  /\ UNCHANGED <<job, answer>>

\* init or retire raises: the result pipe is closed, the job pipe is drained.
Fault(w) ==
  /\ proc[w] \in {"init", "retire"}
  /\ Goto(w, "drain") /\ UNCHANGED <<job, answer>>

\* A user callable does not return.
Spin(w) ==
  /\ proc[w] \in {"init", "job", "retire"}
  /\ Goto(w, "spin") /\ UNCHANGED <<job, answer>>

ReceiveJob(w) ==
  /\ proc[w] = "poll" /\ job[w]
  /\ job' = [job EXCEPT ![w] = FALSE]
  /\ Goto(w, "job") /\ UNCHANGED answer

\* The job returns and send_bytes writes its result; or raises BrokenPipeError,
\* when nobody can read it.
SendResult(w) ==
  /\ proc[w] = "job"
  /\ IF recvEnds[w] # {}
     THEN answer' = [answer EXCEPT ![w] = "result"] /\ Goto(w, "retire")
     ELSE Gone(w) /\ UNCHANGED answer
  /\ UNCHANGED job

\* The result does not fit the pipe: it must be read as it is written.
SendLongResult(w) ==
  \/ (proc[w] = "job" /\ Goto(w, "put") /\ UNCHANGED <<job, answer>>)
  \/ /\ proc[w] = "put" /\ mainUp /\ call[w] = "recv"
     /\ answer' = [answer EXCEPT ![w] = "result"]
     /\ Goto(w, "retire") /\ UNCHANGED job
  \/ /\ proc[w] = "put" /\ recvEnds[w] = {}
     /\ Gone(w) /\ UNCHANGED <<job, answer>>

\* recv_bytes raises EOFError in the loop or while draining: the worker ends.
MeetEof(w) ==
  /\ sendEnds[w] = {}
  /\ \/ proc[w] = "poll" /\ ~job[w]
     \/ proc[w] = "drain"
  /\ Gone(w) /\ UNCHANGED <<job, answer>>

\* safe_poll returns False.
IdleTimeout(w) ==
  /\ proc[w] = "poll" /\ ~job[w]
  /\ Goto(w, "leave") /\ UNCHANGED <<job, answer>>

\* The sentinel, behind a result that is still unread, and the end.
Leave(w) ==
  /\ proc[w] = "leave"
  /\ answer' = [answer EXCEPT ![w] = IF @ = "none" THEN "sentinel" ELSE @]
  /\ Gone(w) /\ UNCHANGED job

\* SIGKILL from Cancel takes effect.
Killed(w) ==
  /\ call[w] = "kill" /\ Alive(w)
  /\ Gone(w) /\ UNCHANGED <<job, answer>>

\* A crash, a signal from outside, or init or retire raised EOFError or
\* BrokenPipeError, which worker_behavior takes for a closed pipe.
Die(w) ==
  /\ Alive(w)
  /\ Gone(w) /\ UNCHANGED <<job, answer>>

-----------------------------------------------------------------------------
MainStep(w) ==
  SendJob(w) \/ ReceiveAnswer(w) \/ ReceiveEof(w) \/ Discard(w) \/ ShutdownWorker(w)

WorkerStep(w) ==
  \/ Boot(w) \/ UserReturns(w) \/ ReceiveJob(w) \/ SendResult(w) \/ SendLongResult(w)
  \/ MeetEof(w) \/ Leave(w) \/ Killed(w)

Next ==
  \/ Fork \/ Shutdown \/ MainCrash
  \/ \E w \in Workers :
       \/ MainStep(w) \/ WorkerStep(w)
       \/ Take(w) \/ Cancel(w) \/ Fault(w) \/ Spin(w) \/ IdleTimeout(w) \/ Die(w)

\* Tasks and processes that can run do; what callers and user code decide, and
\* the idle timeout, which may be infinite, need never happen.
Fairness == \A w \in Workers : WF_vars(MainStep(w)) /\ WF_vars(WorkerStep(w))

SafeSpec == Init /\ [][Next]_vars
Spec == SafeSpec /\ Fairness

-----------------------------------------------------------------------------
\* The values each variable ranges over.
TypeOK ==
  /\ forked \in 0..NumWorkers
  /\ proc \in [Workers -> {"none", "boot", "init", "poll", "job", "put", "retire",
                           "drain", "leave", "spin", "dead"}]
  /\ call \in [Workers -> {"none", "send", "recv", "idle", "wait", "kill", "over"}]
  /\ job \in [Workers -> BOOLEAN]
  /\ answer \in [Workers -> {"none", "result", "sentinel"}]
  /\ sendEnds \in [Workers -> SUBSET Holders]
  /\ recvEnds \in [Workers -> SUBSET Holders]
  /\ closing \in BOOLEAN /\ mainUp \in BOOLEAN

\* Apart from the main process, only living younger siblings hold an end of a
\* worker's pipes, once it has closed its own: no two workers keep each other
\* alive, whatever order they are forked, used and closed in (_run, start).
OnlyYoungerHold ==
  \A w, v \in Workers : v \in sendEnds[w] \cup recvEnds[w] =>
    Alive(v) /\ (w < v \/ (w = v /\ proc[v] = "boot"))

\* A worker that is in the cache, or has been taken from it for the next job,
\* has nothing left of the last one: no job in its pipe or at work, no result
\* that is unread.  So a call gets the answer to its own job, however the calls
\* before it ended (run_sync kills a worker whose exchange it abandons).
OneExchange ==
  \A w \in Workers : call[w] \in {"idle", "send"} =>
    ~job[w] /\ answer[w] # "result" /\ proc[w] \notin {"job", "put"}

\* A shutdown and a crash of the main process unwind the workers from the
\* youngest to the eldest without a kill; what can stop a worker from ending is
\* user code that does not return, its own or a younger sibling's.
WorkersUnwind ==
  \A w \in Workers : (closing \/ ~mainUp) ~>
    \/ ~Alive(w)
    \/ \E v \in Workers : w <= v /\ proc[v] = "spin"

\* A call ends, unless user code does not return in its worker or the worker
\* has failed and drains its pipe, which a living younger sibling holds open.
CallEndsOrDrains ==
  \A w \in Workers : (call[w] \in {"send", "recv", "wait", "kill"}) ~>
    \/ call[w] \in {"idle", "over"} \/ ~mainUp
    \/ proc[w] = "spin"
    \/ proc[w] = "drain" /\ \E v \in sendEnds[w] : v > w

\* The comment at _proc.py:112 says that closing the send end frees a process
\* that spins on recv_bytes, so that the wait that follows comes to an end, at
\* least while the main process lives and no user code spins.
FaultyWorkerEnds ==
  \A w \in Workers : (call[w] = "wait" /\ proc[w] = "drain") ~>
    proc[w] = "dead" \/ ~mainUp \/ \E v \in Workers : proc[v] = "spin"
=============================================================================

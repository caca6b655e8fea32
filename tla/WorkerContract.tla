--------------------------- MODULE WorkerContract ---------------------------
(***************************************************************************)
(* What AbstractWorker promises to WorkerContext.run_sync, which is written *)
(* against it: a worker runs one job at a time and a call of run_sync ends *)
(* in one of three ways.  It returns the Outcome of its own job; it returns *)
(* None, and then the job was not begun and the worker is gone; or it      *)
(* raises, and then the worker is gone.  No pipes, no messages.            *)
(***************************************************************************)
EXTENDS Naturals

CONSTANT MaxJobs   \* bound: how many jobs are submitted

VARIABLES
  phase,  \* "new", "idle", "busy", "gone", or "orphaned" (caller's process died)
  alive,  \* does the worker process exist?
  job,    \* number of the latest job (0: none yet)
  ran,    \* how far the worker got with each job
  reply   \* how the call for each job ended

contractVars == <<phase, alive, job, ran, reply>>

Jobs == 1..MaxJobs

Init ==
  /\ phase = "new" /\ alive = FALSE /\ job = 0
  /\ ran = [j \in Jobs |-> "no"]
  /\ reply = [j \in Jobs |-> "pending"]

\* start
Launch ==
  /\ phase = "new"
  /\ \/ phase' = "idle" /\ alive' = TRUE
     \/ phase' = "gone" /\ alive' = FALSE
  /\ UNCHANGED <<job, ran, reply>>

\* run_sync takes a job, or returns an Error for one that cannot be sent.
Submit ==
  /\ phase = "idle" /\ job < MaxJobs
  /\ job' = job + 1
  /\ \/ phase' = "busy" /\ UNCHANGED reply
     \/ phase' = "idle" /\ reply' = [reply EXCEPT ![job'] = "unpicklable"]
  /\ UNCHANGED <<alive, ran>>

\* The worker begins the latest job, at most once, and ends it.
Begin ==
  /\ alive /\ phase \in {"busy", "orphaned"}
  /\ job \in Jobs /\ ran[job] = "no"
  /\ ran' = [ran EXCEPT ![job] = "started"]
  /\ UNCHANGED <<phase, alive, job, reply>>

Finish ==
  /\ alive /\ phase \in {"busy", "orphaned"}
  /\ job \in Jobs /\ ran[job] = "started"
  /\ ran' = [ran EXCEPT ![job] = "finished"]
  /\ UNCHANGED <<phase, alive, job, reply>>

\* run_sync returns an Outcome; the worker may be used again.
ReturnOutcome ==
  /\ phase = "busy" /\ ran[job] = "finished"
  /\ phase' = "idle"
  /\ reply' = [reply EXCEPT ![job] = "value"]
  /\ UNCHANGED <<alive, job, ran>>

\* run_sync returns None: submit the job again, to a different worker.
ReturnNone ==
  /\ phase = "busy" /\ ~alive /\ ran[job] = "no"
  /\ phase' = "gone"
  /\ reply' = [reply EXCEPT ![job] = "retry"]
  /\ UNCHANGED <<alive, job, ran>>

\* run_sync reports a failed worker; a finished job is never reported so.
RaiseBroken(error) ==
  /\ phase = "busy" /\ ~alive /\ ran[job] # "finished"
  /\ phase' = "gone"
  /\ reply' = [reply EXCEPT ![job] = error]
  /\ UNCHANGED <<alive, job, ran>>

\* run_sync was cancelled or could not use what it received.
RaiseOther(error) ==
  /\ phase = "busy" /\ ~alive
  /\ phase' = "gone"
  /\ reply' = [reply EXCEPT ![job] = error]
  /\ UNCHANGED <<alive, job, ran>>

\* The process ends: idle timeout, retirement, shutdown, kill or a crash.
Terminate ==
  /\ alive
  /\ alive' = FALSE
  /\ UNCHANGED <<phase, job, ran, reply>>

\* The caller's process dies.
Orphan ==
  /\ phase # "gone"
  /\ phase' = "orphaned"
  /\ UNCHANGED <<alive, job, ran, reply>>

Next ==
  \/ Launch \/ Submit \/ Begin \/ Finish \/ ReturnOutcome \/ ReturnNone
  \/ \E error \in {"broken", "oserror"} : RaiseBroken(error)
  \/ \E error \in {"cancelled", "unloadable", "closed"} : RaiseOther(error)
  \/ Terminate \/ Orphan

Spec == Init /\ [][Next]_contractVars
=============================================================================

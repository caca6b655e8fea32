------------------------------- MODULE Pipeline -------------------------------
(***************************************************************************)
(* The documented pipeline: a generator, NumStages stages that run each     *)
(* item in a worker process, and a consumer, joined by memory channels that *)
(* hold nothing.  The generator while it sends, and each worker task until  *)
(* its result is taken, hold a token of the one default limiter, which      *)
(* serves those that wait for it in order.                                  *)
(*                                                                         *)
(* Items are counted by where they are.  A step is what one task does       *)
(* between two awaits.  Trio runs its tasks in batches: every task that can *)
(* run when a batch begins runs once in it, in any order, and a task that   *)
(* is woken meanwhile runs in the next one.                                 *)
(***************************************************************************)
EXTENDS Naturals, Sequences, SequencesExt

CONSTANTS
  NumStages,    \* the process maps between the generator and the consumer
  NumItems,     \* bound: how many items the generator makes
  TotalTokens   \* total_tokens of the limiter

ASSUME PipelineAssumption ==
  NumStages \in Nat \ {0} /\ NumItems \in Nat \ {0} /\ TotalTokens \in Nat \ {0}

Stages == 1..NumStages
Generator == 0   \* its name in the limiter's queue; a stage's is its number

VARIABLES
  gen,        \* where data_generator is
  produced,   \* how many items it has handed over
  loop,       \* where the async for of each stage is
  computing,  \* of each stage, the worker tasks whose job runs
  sending,    \* ... that wait to hand their result over
  sent,       \* ... that have done so and still hold their token
  queue,      \* those who wait for the limiter, in order
  consumer,   \* where the last async for is
  delivered,  \* how many results it got
  failed,     \* stages whose nursery is cancelled, because a job raised
  cancelled,  \* the outer nursery's cancel scope is cancelled
  due         \* the tasks that have yet to run in this batch

genVars == <<gen, produced>>
workVars == <<computing, sending, sent>>
endVars == <<failed, cancelled>>
consVars == <<consumer, delivered>>
vars == <<genVars, loop, workVars, queue, consVars, endVars, due>>

\* The generator has entered the limiter for its first item.
Init ==
  /\ gen = "granted" /\ produced = 0
  /\ loop = [s \in Stages |-> "receive"]
  /\ computing = [s \in Stages |-> 0]
  /\ sending = [s \in Stages |-> 0] /\ sent = [s \in Stages |-> 0]
  /\ queue = <<>>
  /\ consumer = "receive" /\ delivered = 0
  /\ failed = {} /\ cancelled = FALSE
  /\ due = {}

\* The cancel scopes around the tasks of a stage.
Cancelled(s) == cancelled \/ s \in failed

-----------------------------------------------------------------------------
(***************************************************************************)
(* The scheduler.                                                          *)
(***************************************************************************)

\* The tasks that can run: for a stage its loop, or the worker task that is
\* just being started for it, and the worker tasks whose result was taken.
Runnable ==
  {<<"gen", 0>> : x \in {gen} \cap {"granted", "sent"}}
    \cup {<<"consumer", 0>> : x \in {consumer} \cap {"woken"}}
    \cup {<<"loop", s>> : s \in {i \in Stages : loop[i] \in
                                   {"woken", "spawned", "granted", "started"}}}
    \cup {<<"leave", s>> : s \in {i \in Stages : sent[i] > 0}}

NewBatch ==
  /\ due \cap Runnable = {} /\ Runnable # {}
  /\ due' = Runnable
  /\ UNCHANGED <<genVars, loop, workVars, queue, consVars, endVars>>

Runs(kind, s) ==
  /\ <<kind, s>> \in due
  /\ due' = due \ {<<kind, s>>}

-----------------------------------------------------------------------------
(***************************************************************************)
(* The default limiter of the trio run, one object for all.                *)
(***************************************************************************)

Busy(s) == computing[s] + sending[s] + sent[s]

\* Faulty variant of StageTokens: the limiter is held for the job only.
StageTokensOfJobs(s) ==
  computing[s] + (IF loop[s] \in {"granted", "started"} THEN 1 ELSE 0)

\* The tokens a stage holds: a worker task has one until its result is taken.
StageTokens(s) == Busy(s) + (IF loop[s] \in {"granted", "started"} THEN 1 ELSE 0)

\* The sums of w over the first stages: none, one, and so on.
Sums(w) ==
  LET upto[s \in 0..NumStages] == IF s = 0 THEN 0 ELSE upto[s - 1] + w[s]
  IN upto

\* Tokens in use.
GeneratorTokens == IF gen \in {"granted", "send", "sent"} THEN 1 ELSE 0
Borrowed == GeneratorTokens + Sums([s \in Stages |-> StageTokens(s)])[NumStages]

\* A token can be had without waiting.
Available == Borrowed < TotalTokens /\ queue = <<>>

\* A token is given to the head of the queue; for a stage that is the worker
\* task that its loop is starting.
GrantStage(s) == loop' = [loop EXCEPT ![s] = "granted"]

\* Somebody who is cancelled leaves the queue, if in it.
Withdraw(who) ==
  \/ who \notin Range(queue) /\ UNCHANGED queue
  \/ \E i \in DOMAIN queue : queue[i] = who /\ queue' = RemoveAt(queue, i)

\* A worker task gives its token back.
Release ==
  \/ /\ queue = <<>>
     /\ UNCHANGED <<queue, gen, loop>>
  \/ /\ queue # <<>>
     /\ queue' = Tail(queue)
     /\ IF Head(queue) = Generator
          THEN gen' = "granted" /\ UNCHANGED loop
          ELSE GrantStage(Head(queue)) /\ UNCHANGED gen

-----------------------------------------------------------------------------
(***************************************************************************)
(* data_generator.                                                         *)
(***************************************************************************)

\* send: hand the item to the first stage, or wait until it receives.
SendItem ==
  /\ gen = "granted" /\ ~cancelled
  /\ Runs("gen", 0)
  /\ IF loop[1] = "receive" /\ ~Cancelled(1)
       THEN /\ gen' = "sent" /\ produced' = produced + 1
            /\ loop' = [loop EXCEPT ![1] = "woken"]
       ELSE gen' = "send" /\ UNCHANGED <<produced, loop>>
  /\ UNCHANGED <<workVars, queue, consVars, endVars>>

\* Faulty variant of NextItem: the limiter is entered once, around the loop.
NextItemKeepsToken ==
  /\ gen = "sent" /\ ~cancelled
  /\ produced < NumItems
  /\ Runs("gen", 0)
  /\ gen' = "granted"
  /\ UNCHANGED <<produced, loop, workVars, queue, consVars, endVars>>

\* Leave the limiter and enter it again for the next item, without an await
\* between: at once if nobody waits, else behind all that do.
NextItem ==
  /\ gen = "sent" /\ ~cancelled
  /\ produced < NumItems
  /\ Runs("gen", 0)
  /\ \/ /\ queue = <<>>
        /\ gen' = "granted"
        /\ UNCHANGED <<queue, loop>>
     \/ /\ queue # <<>>
        /\ gen' = "queued"
        /\ queue' = Append(Tail(queue), Generator)
        /\ GrantStage(Head(queue))
  /\ UNCHANGED <<produced, workVars, consVars, endVars>>

\* After the last item, or cancelled: leave the limiter, or its queue, and
\* close the channel.
GeneratorEnds ==
  /\ \/ gen = "sent" /\ (produced = NumItems \/ cancelled)
     \/ gen \in {"granted", "send", "queued"} /\ cancelled
  /\ gen' = "done"
  /\ IF gen # "queued" /\ queue # <<>>
       THEN queue' = Tail(queue) /\ GrantStage(Head(queue))
       ELSE Withdraw(Generator) /\ UNCHANGED loop
  /\ UNCHANGED <<produced, workVars, consVars, endVars, due>>

-----------------------------------------------------------------------------
(***************************************************************************)
(* to_process_map_as_completed, stage s: its loop.                         *)
(***************************************************************************)

\* nursery.start creates the worker task.
StartWorker(s) ==
  /\ loop[s] = "woken" /\ ~Cancelled(s)
  /\ Runs("loop", s)
  /\ loop' = [loop EXCEPT ![s] = "spawned"]
  /\ UNCHANGED <<genVars, workVars, queue, consVars, endVars>>

\* Faulty variant of AskForToken: the limiter lets everyone in.
AskForTokenRegardless(s) ==
  /\ loop[s] = "spawned" /\ ~Cancelled(s)
  /\ Runs("loop", s)
  /\ GrantStage(s)
  /\ UNCHANGED <<genVars, workVars, queue, consVars, endVars>>

\* The worker task enters the limiter or its queue.
AskForToken(s) ==
  /\ loop[s] = "spawned" /\ ~Cancelled(s)
  /\ Runs("loop", s)
  /\ IF Available
       THEN GrantStage(s) /\ UNCHANGED queue
       ELSE loop' = [loop EXCEPT ![s] = "queued"] /\ queue' = Append(queue, s)
  /\ UNCHANGED <<genVars, workVars, consVars, endVars>>

\* The worker task has its token and lets start return.
Started(s) ==
  /\ loop[s] = "granted" /\ ~Cancelled(s)
  /\ Runs("loop", s)
  /\ loop' = [loop EXCEPT ![s] = "started"]
  /\ UNCHANGED <<genVars, workVars, queue, consVars, endVars>>

\* The loop goes on to receive, while the job is given to a worker process: an
\* item that somebody is waiting to send is taken at once.
ReceiveNext(s) ==
  /\ loop[s] = "started" /\ ~Cancelled(s)
  /\ Runs("loop", s)
  /\ computing' = [computing EXCEPT ![s] = @ + 1]
  /\ \/ /\ s = 1 /\ gen = "send"
        /\ gen' = "sent" /\ produced' = produced + 1
        /\ loop' = [loop EXCEPT ![s] = "woken"]
        /\ UNCHANGED <<sending, sent>>
     \/ /\ s > 1 /\ sending[s - 1] > 0 /\ ~Cancelled(s - 1)
        /\ sending' = [sending EXCEPT ![s - 1] = @ - 1]
        /\ sent' = [sent EXCEPT ![s - 1] = @ + 1]
        /\ loop' = [loop EXCEPT ![s] = "woken"]
        /\ UNCHANGED genVars
     \/ /\ IF s = 1 THEN gen # "send" ELSE sending[s - 1] = 0 \/ Cancelled(s - 1)
        /\ loop' = [loop EXCEPT ![s] = "receive"]
        /\ UNCHANGED <<genVars, sending, sent>>
  /\ UNCHANGED <<queue, consVars, endVars>>

\* The previous channel is closed and nobody sends on it.
EndOfChannel(s) == IF s = 1 THEN gen = "done" ELSE loop[s - 1] = "closed"

\* The async for is over.
LoopEnds(s) ==
  /\ loop[s] = "receive" /\ ~Cancelled(s)
  /\ EndOfChannel(s)
  /\ loop' = [loop EXCEPT ![s] = "drain"]
  /\ UNCHANGED <<genVars, workVars, queue, consVars, endVars, due>>

\* The async for, or the start in it, is cancelled.  A worker task that has
\* just been given a token gives it back.
LoopCancelled(s) ==
  /\ Cancelled(s)
  /\ loop[s] \notin {"drain", "closed"}
  /\ IF loop[s] \in {"granted", "started"} /\ queue # <<>>
       THEN /\ queue' = Tail(queue)
            /\ IF Head(queue) = Generator
                 THEN gen' = "granted" /\ loop' = [loop EXCEPT ![s] = "drain"]
                 ELSE /\ loop' = [loop EXCEPT ![s] = "drain",
                                              ![Head(queue)] = "granted"]
                      /\ UNCHANGED gen
       ELSE /\ Withdraw(s)
            /\ loop' = [loop EXCEPT ![s] = "drain"]
            /\ UNCHANGED gen
  /\ UNCHANGED <<produced, workVars, consVars, endVars, due>>

\* Faulty variant of CloseStage: the channel is closed before the nursery's
\* tasks have ended, as if the two context managers were swapped.
CloseStageEarly(s) ==
  /\ loop[s] = "drain"
  /\ loop' = [loop EXCEPT ![s] = "closed"]
  /\ UNCHANGED <<genVars, workVars, queue, consVars, endVars, due>>

\* The nursery's tasks have ended; the stage closes its channel.
CloseStage(s) ==
  /\ loop[s] = "drain" /\ Busy(s) = 0
  /\ loop' = [loop EXCEPT ![s] = "closed"]
  /\ UNCHANGED <<genVars, workVars, queue, consVars, endVars, due>>

\* The exception of a job leaves the stage and cancels everything.
Propagate(s) ==
  /\ loop[s] = "closed" /\ s \in failed /\ ~cancelled
  /\ cancelled' = TRUE
  /\ UNCHANGED <<genVars, loop, workVars, queue, consVars, failed, due>>

-----------------------------------------------------------------------------
(***************************************************************************)
(* to_process_map_as_completed, stage s: its worker tasks.                 *)
(***************************************************************************)

\* run_sync returns, and the result is handed to the next stage or to the
\* consumer, or the worker task waits until it receives.
JobReturns(s) ==
  /\ computing[s] > 0 /\ ~Cancelled(s)
  /\ computing' = [computing EXCEPT ![s] = @ - 1]
  /\ \/ /\ s < NumStages /\ loop[s + 1] = "receive" /\ ~Cancelled(s + 1)
        /\ loop' = [loop EXCEPT ![s + 1] = "woken"]
        /\ sent' = [sent EXCEPT ![s] = @ + 1]
        /\ UNCHANGED <<sending, consumer>>
     \/ /\ s = NumStages /\ consumer = "receive"
        /\ consumer' = "woken"
        /\ sent' = [sent EXCEPT ![s] = @ + 1]
        /\ UNCHANGED <<loop, sending>>
     \/ /\ IF s = NumStages THEN consumer # "receive"
                            ELSE loop[s + 1] # "receive" \/ Cancelled(s + 1)
        /\ sending' = [sending EXCEPT ![s] = @ + 1]
        /\ UNCHANGED <<loop, sent, consumer>>
  /\ UNCHANGED <<genVars, queue, delivered, endVars, due>>

\* run_sync raises: the job did, or its worker broke.
JobRaises(s) ==
  /\ computing[s] > 0
  /\ computing' = [computing EXCEPT ![s] = @ - 1]
  /\ failed' = failed \cup {s}
  /\ Release
  /\ UNCHANGED <<produced, sending, sent, consVars, cancelled, due>>

\* The worker task whose result was taken leaves the limiter.
WorkerLeaves(s) ==
  /\ sent[s] > 0
  /\ Runs("leave", s)
  /\ sent' = [sent EXCEPT ![s] = @ - 1]
  /\ Release
  /\ UNCHANGED <<produced, computing, sending, consVars, endVars>>

\* A cancelled worker task: its job is waited for, its result is not sent.
WorkerCancelled(s) ==
  /\ Cancelled(s)
  /\ \/ /\ computing[s] > 0
        /\ computing' = [computing EXCEPT ![s] = @ - 1]
        /\ UNCHANGED sending
     \/ /\ sending[s] > 0
        /\ sending' = [sending EXCEPT ![s] = @ - 1]
        /\ UNCHANGED computing
  /\ Release
  /\ UNCHANGED <<produced, sent, consVars, endVars, due>>

-----------------------------------------------------------------------------
(***************************************************************************)
(* amain: the consumer.                                                    *)
(***************************************************************************)

\* A result arrives.  If it is what amain looks for, everything is cancelled;
\* else it receives again, from who is waiting to send or later.
GetResult(winner) ==
  /\ consumer = "woken" /\ ~cancelled
  /\ Runs("consumer", 0)
  /\ delivered' = delivered + 1
  /\ cancelled' = winner
  /\ IF ~winner /\ sending[NumStages] > 0 /\ ~Cancelled(NumStages)
       THEN /\ sending' = [sending EXCEPT ![NumStages] = @ - 1]
            /\ sent' = [sent EXCEPT ![NumStages] = @ + 1]
            /\ UNCHANGED consumer
       ELSE consumer' = "receive" /\ UNCHANGED <<sending, sent>>
  /\ UNCHANGED <<genVars, loop, computing, queue, failed>>

\* The channel is closed, or the consumer is cancelled.
ConsumerEnds ==
  /\ \/ consumer = "receive" /\ loop[NumStages] = "closed"
     \/ consumer \in {"receive", "woken"} /\ cancelled
  /\ consumer' = "done"
  /\ UNCHANGED <<genVars, loop, workVars, queue, delivered, endVars, due>>

-----------------------------------------------------------------------------
StageStep(s) ==
  \/ StartWorker(s) \/ AskForToken(s) \/ Started(s) \/ ReceiveNext(s)
  \/ LoopEnds(s) \/ LoopCancelled(s) \/ CloseStage(s) \/ Propagate(s)
  \/ JobReturns(s) \/ JobRaises(s) \/ WorkerLeaves(s) \/ WorkerCancelled(s)

Next ==
  \/ NewBatch
  \/ SendItem \/ NextItem \/ GeneratorEnds
  \/ \E s \in Stages : StageStep(s)
  \/ (\E winner \in BOOLEAN : GetResult(winner)) \/ ConsumerEnds

\* Tasks that can run do, and jobs end.
Spec == Init /\ [][Next]_vars /\ WF_vars(Next)

-----------------------------------------------------------------------------
(***************************************************************************)
(* Properties.                                                             *)
(***************************************************************************)

\* The values each variable ranges over.
TypeOK ==
  /\ gen \in {"queued", "granted", "send", "sent", "done"}
  /\ produced \in 0..NumItems /\ delivered \in 0..NumItems
  /\ loop \in [Stages -> {"receive", "woken", "spawned", "queued", "granted",
                          "started", "drain", "closed"}]
  /\ \A s \in Stages : Busy(s) \in 0..TotalTokens
  /\ queue \in Seq({Generator} \cup Stages)
  /\ consumer \in {"receive", "woken", "done"}
  /\ failed \subseteq Stages /\ cancelled \in BOOLEAN
  /\ due \subseteq {"gen", "consumer", "loop", "leave"} \X ({0} \cup Stages)

\* Backpressure: an item that was made and not delivered is in a worker task
\* that holds a token, or is the one item its stage has received last; and one
\* of these places is always left for the next item.
Backpressure ==
  ~cancelled /\ failed = {} => produced - delivered < TotalTokens + NumStages

\* The consumer sees the end of its channel only when it has had every result.
EndIsComplete ==
  consumer = "done" /\ ~cancelled /\ failed = {} => delivered = NumItems

Ended ==
  gen = "done" /\ consumer = "done" /\ \A s \in Stages : loop[s] = "closed"

\* The pipeline comes to an end: all items are delivered, or a job raised, or
\* the consumer stopped it.
PipelineEnds == <>Ended
=============================================================================

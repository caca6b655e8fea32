------------------------- MODULE WindowsWorkerProofs -------------------------
(***************************************************************************)
(* Theorems about WindowsWorker, for every number of jobs and whether or    *)
(* not messages are long.                                                  *)
(***************************************************************************)
EXTENDS WindowsWorker, TLAPS

\* Where start and its two tasks are.
StartInv ==
  /\ main = "new" => proc = "absent"
  /\ main \in {"new", "thread"} => ack = "none" /\ waiter = "none" /\ ~nursery
  /\ ack = "receive" => main = "acking"
  /\ main \in {"ready", "recv", "more", "wait"} => ack = "passed"
  /\ nursery => ack = "passed" \/ waiter = "exited"
  /\ main = "acking" /\ ack = "cancelled" => cancelled \/ waiter = "exited"

\* Until it is taken the acknowledgement is the first message of a worker whose
\* interpreter came up, and no job is sent before.
AckInv ==
  /\ proc \in {"absent", "boot"} => results = <<>> /\ ack # "passed"
  /\ \A i \in 1..Len(results) : results[i].msg = Ack => i = 1 /\ ack # "passed"
  /\ ack # "passed" /\ results # <<>> => results[1].msg = Ack
  /\ ack # "passed" => jobs = <<>> /\ proc \notin {"run", "sending"}
  /\ ack # "passed" /\ proc \in {"init", "poll", "leaving"} => results # <<>>
  /\ proc = "run" => jobs # <<>>

\* Only the first message can be incomplete, and is so between the two reads.
TornInv ==
  /\ \A i \in 1..Len(results) :
       /\ results[i].left <= results[i].parts
       /\ results[i].left < results[i].parts => i = 1
       /\ results[i].msg = Ack => results[i].parts = 1
  /\ main = "more" /\ results # <<>> => results[1].left < results[1].parts

IInv == TypeOK /\ StartInv /\ AckInv /\ TornInv /\ NoTornMessage
-----------------------------------------------------------------------------
Parts == [msg : Messages, parts : 1..MaxParts, left : 1..MaxParts]

\* Sequences over one set, whatever it is.
LEMMA SeqFacts ==
  ASSUME NEW S, NEW s \in Seq(S)
  PROVE  /\ \A e \in S : Append(s, e) \in Seq(S)
         /\ s # <<>> => Head(s) \in S /\ Tail(s) \in Seq(S)
  OBVIOUS

\* A part of the first message is taken: it was the last, or one less is left.
LEMMA TakePartFacts ==
  ASSUME TypeOK, results # <<>>, TakePart
  PROVE  /\ results' \in Seq(Parts)
         /\ results[1].left = 1 =>
              /\ Len(results') = Len(results) - 1
              /\ \A i \in 1..Len(results') : results'[i] = results[i + 1]
         /\ results[1].left # 1 =>
              /\ Len(results') = Len(results)
              /\ results'[1] = [results[1] EXCEPT !.left = @ - 1]
              /\ \A i \in 2..Len(results) : results'[i] = results[i]
  <1>1. results \in Seq(Parts)
    BY Zenon DEF TypeOK, Parts
  <1>2. results[1] \in Parts /\ 1 \in 1..Len(results)
    BY <1>1
  <1>3. CASE results[1].left = 1
    BY <1>1, <1>2, <1>3 DEF TakePart
  <1>4. CASE results[1].left # 1
    <2>1. results' = [results EXCEPT ![1].left = @ - 1]
      BY <1>1, <1>4 DEF TakePart
    <2>2. results[1].left - 1 \in 1..MaxParts
      BY <1>2, <1>4, WindowsWorkerAssumption DEF Parts
    <2>3. [results[1] EXCEPT !.left = @ - 1] \in Parts
      BY <1>2, <2>2 DEF Parts
    <2> QED
      BY <1>1, <1>2, <1>4, <2>1, <2>3
  <1> QED
    BY <1>3, <1>4

\* A message is sent.
LEMMA AppendFacts ==
  ASSUME TypeOK, NEW m \in Parts, results' = Append(results, m)
  PROVE  /\ results' \in Seq(Parts) /\ results' # <<>>
         /\ Len(results') = Len(results) + 1 /\ results'[Len(results) + 1] = m
         /\ \A i \in 1..Len(results) : results'[i] = results[i]
  BY DEF TypeOK, Parts

\* The initial state.
LEMMA InitInv == Init => IInv
  <1> SUFFICES ASSUME Init PROVE IInv
    OBVIOUS
  <1>1. nursery \in BOOLEAN /\ cancelled \in BOOLEAN /\ ends \in BOOLEAN
        /\ signalled \in BOOLEAN
    BY Zenon DEF Init
  <1>2. TypeOK
    BY <1>1, WindowsWorkerAssumption DEF Init, TypeOK
  <1>3. StartInv /\ AckInv /\ TornInv /\ NoTornMessage
    BY DEF Init, StartInv, AckInv, TornInv, NoTornMessage
  <1> QED
    BY <1>2, <1>3 DEF IInv

\* Booleans stay booleans.
LEMMA Booleans ==
  TypeOK /\ [Next]_vars => /\ nursery' \in BOOLEAN /\ cancelled' \in BOOLEAN
                           /\ ends' \in BOOLEAN /\ signalled' \in BOOLEAN
  BY Zenon DEF TypeOK, Next, vars, startVars, callVars, pipeVars, MainStep, WorkerStep,
     Cancel, Start, OpenNursery, AckReceived, AckFails, Exited, WaitCancelled, NurseryEnds,
     Collect, Submit, Receive, ReceiveMore, ReceiveFails, WaitDone, SendAck, InitReturns,
     RunJob, SendResult, ResultTaken, PollEof, IdleTimeout, Leave, Spin, Die

-----------------------------------------------------------------------------
\* One lemma for each action: it preserves the invariant.  First those that
\* leave the results alone, or lose them.
LEMMA CancelStep ==
  ASSUME IInv, [Next]_vars, Cancel
  PROVE  IInv'
  <1> USE DEF IInv, startVars, callVars, pipeVars
  <1>1. TypeOK'
    BY Booleans, WindowsWorkerAssumption DEF TypeOK, Cancel
  <1>2. StartInv'
    BY DEF TypeOK, StartInv, AckInv, Cancel
  <1>3. AckInv'
    BY DEF TypeOK, StartInv, AckInv, Cancel
  <1>4. TornInv' /\ NoTornMessage'
    BY DEF TypeOK, TornInv, NoTornMessage, StartInv, AckInv, Ended, Cancel
  <1> QED
    BY <1>1, <1>2, <1>3, <1>4

LEMMA StartStep ==
  ASSUME IInv, [Next]_vars, Start
  PROVE  IInv'
  <1> USE DEF IInv, startVars, callVars, pipeVars
  <1>1. TypeOK'
    BY Booleans, WindowsWorkerAssumption DEF TypeOK, Start
  <1>2. StartInv'
    BY DEF TypeOK, StartInv, AckInv, Start
  <1>3. AckInv'
    BY DEF TypeOK, StartInv, AckInv, Start
  <1>4. TornInv' /\ NoTornMessage'
    BY DEF TypeOK, TornInv, NoTornMessage, StartInv, AckInv, Ended, Start
  <1> QED
    BY <1>1, <1>2, <1>3, <1>4

LEMMA OpenNurseryStep ==
  ASSUME IInv, [Next]_vars, OpenNursery
  PROVE  IInv'
  <1> USE DEF IInv, startVars, callVars, pipeVars
  <1>1. TypeOK'
    BY Booleans, WindowsWorkerAssumption DEF TypeOK, OpenNursery
  <1>2. StartInv'
    BY DEF TypeOK, StartInv, AckInv, OpenNursery
  <1>3. AckInv'
    BY DEF TypeOK, StartInv, AckInv, OpenNursery
  <1>4. TornInv' /\ NoTornMessage'
    BY DEF TypeOK, TornInv, NoTornMessage, StartInv, AckInv, Ended, OpenNursery
  <1> QED
    BY <1>1, <1>2, <1>3, <1>4

LEMMA ExitedStep ==
  ASSUME IInv, [Next]_vars, Exited
  PROVE  IInv'
  <1> USE DEF IInv, startVars, callVars, pipeVars
  <1>1. TypeOK'
    BY Booleans, WindowsWorkerAssumption DEF TypeOK, Exited
  <1>2. StartInv'
    BY DEF TypeOK, StartInv, AckInv, Exited
  <1>3. AckInv'
    BY DEF TypeOK, StartInv, AckInv, Exited
  <1>4. TornInv' /\ NoTornMessage'
    BY DEF TypeOK, TornInv, NoTornMessage, StartInv, AckInv, Ended, Exited
  <1> QED
    BY <1>1, <1>2, <1>3, <1>4

LEMMA WaitCancelledStep ==
  ASSUME IInv, [Next]_vars, WaitCancelled
  PROVE  IInv'
  <1> USE DEF IInv, startVars, callVars, pipeVars
  <1>1. TypeOK'
    BY Booleans, WindowsWorkerAssumption DEF TypeOK, WaitCancelled, AckFailed
  <1>2. StartInv'
    BY DEF TypeOK, StartInv, AckInv, WaitCancelled, AckFailed
  <1>3. AckInv'
    BY DEF TypeOK, StartInv, AckInv, WaitCancelled, AckFailed
  <1>4. TornInv' /\ NoTornMessage'
    BY DEF TypeOK, TornInv, NoTornMessage, StartInv, AckInv, Ended,
           WaitCancelled, AckFailed
  <1> QED
    BY <1>1, <1>2, <1>3, <1>4

LEMMA NurseryEndsStep ==
  ASSUME IInv, [Next]_vars, NurseryEnds
  PROVE  IInv'
  <1> USE DEF IInv, startVars, callVars, pipeVars
  <1>1. TypeOK'
    BY Booleans, WindowsWorkerAssumption
    DEF TypeOK, NurseryEnds, NurseryRaises, AckEnded, AckFailed
  <1>2. StartInv'
    BY DEF TypeOK, StartInv, AckInv, NurseryEnds, NurseryRaises, AckEnded, AckFailed
  <1>3. AckInv'
    BY DEF TypeOK, StartInv, AckInv, NurseryEnds, NurseryRaises, AckEnded, AckFailed
  <1>4. TornInv' /\ NoTornMessage'
    BY DEF TypeOK, TornInv, NoTornMessage, StartInv, AckInv, Ended, NurseryEnds,
           NurseryRaises, AckEnded, AckFailed
  <1> QED
    BY <1>1, <1>2, <1>3, <1>4

LEMMA CollectStep ==
  ASSUME IInv, [Next]_vars, Collect
  PROVE  IInv'
  <1> USE DEF IInv, startVars, callVars, pipeVars
  <1>1. TypeOK'
    BY Booleans, WindowsWorkerAssumption DEF TypeOK, Collect
  <1>2. StartInv'
    BY DEF TypeOK, StartInv, AckInv, Collect
  <1>3. AckInv'
    BY DEF TypeOK, StartInv, AckInv, Collect
  <1>4. TornInv' /\ NoTornMessage'
    BY DEF TypeOK, TornInv, NoTornMessage, StartInv, AckInv, Ended, Collect
  <1> QED
    BY <1>1, <1>2, <1>3, <1>4

LEMMA SubmitStep ==
  ASSUME IInv, [Next]_vars, Submit
  PROVE  IInv'
  <1> USE DEF IInv, startVars, callVars, pipeVars
  <1>1. TypeOK'
    <2>1. job' \in 1..MaxJobs
      BY WindowsWorkerAssumption DEF TypeOK, Submit
    <2>2. jobs \in Seq(1..MaxJobs) /\ jobs' \in {Append(jobs, job'), jobs}
      BY DEF TypeOK, Submit
    <2>3. jobs' \in Seq(1..MaxJobs)
      BY Zenon, <2>1, <2>2, SeqFacts
    <2> QED
      BY <2>1, <2>3, Booleans DEF TypeOK, Submit
  <1>2. StartInv'
    BY DEF TypeOK, StartInv, AckInv, Submit, Ended
  <1>3. AckInv'
    BY DEF TypeOK, StartInv, AckInv, Submit, Ended
  <1>4. TornInv' /\ NoTornMessage'
    BY DEF TypeOK, TornInv, NoTornMessage, StartInv, AckInv, Ended, Submit
  <1> QED
    BY <1>1, <1>2, <1>3, <1>4

LEMMA ReceiveFailsStep ==
  ASSUME IInv, [Next]_vars, ReceiveFails
  PROVE  IInv'
  <1> USE DEF IInv, startVars, callVars, pipeVars
  <1>1. TypeOK'
    BY Booleans, WindowsWorkerAssumption DEF TypeOK, ReceiveFails, EndOfChannel, Ended
  <1>2. StartInv'
    BY DEF TypeOK, StartInv, AckInv, ReceiveFails, EndOfChannel, Ended
  <1>3. AckInv'
    BY DEF TypeOK, StartInv, AckInv, ReceiveFails, EndOfChannel, Ended
  <1>4. TornInv' /\ NoTornMessage'
    BY DEF TypeOK, TornInv, NoTornMessage, StartInv, AckInv, Ended,
           ReceiveFails, EndOfChannel
  <1> QED
    BY <1>1, <1>2, <1>3, <1>4

LEMMA WaitDoneStep ==
  ASSUME IInv, [Next]_vars, WaitDone
  PROVE  IInv'
  <1> USE DEF IInv, startVars, callVars, pipeVars
  <1>1. TypeOK'
    BY Booleans, WindowsWorkerAssumption DEF TypeOK, WaitDone
  <1>2. StartInv'
    BY DEF TypeOK, StartInv, AckInv, WaitDone
  <1>3. AckInv'
    BY DEF TypeOK, StartInv, AckInv, WaitDone
  <1>4. TornInv' /\ NoTornMessage'
    BY DEF TypeOK, TornInv, NoTornMessage, StartInv, AckInv, Ended, WaitDone
  <1> QED
    BY <1>1, <1>2, <1>3, <1>4

LEMMA InitReturnsStep ==
  ASSUME IInv, [Next]_vars, InitReturns
  PROVE  IInv'
  <1> USE DEF IInv, startVars, callVars, pipeVars
  <1>1. TypeOK'
    BY Booleans, WindowsWorkerAssumption DEF TypeOK, InitReturns
  <1>2. StartInv'
    BY DEF TypeOK, StartInv, AckInv, InitReturns
  <1>3. AckInv'
    BY DEF TypeOK, StartInv, AckInv, InitReturns
  <1>4. TornInv' /\ NoTornMessage'
    BY DEF TypeOK, TornInv, NoTornMessage, StartInv, AckInv, Ended, InitReturns
  <1> QED
    BY <1>1, <1>2, <1>3, <1>4

LEMMA RunJobStep ==
  ASSUME IInv, [Next]_vars, RunJob
  PROVE  IInv'
  <1> USE DEF IInv, startVars, callVars, pipeVars
  <1>1. TypeOK'
    BY Booleans, WindowsWorkerAssumption DEF TypeOK, RunJob
  <1>2. StartInv'
    BY DEF TypeOK, StartInv, AckInv, RunJob
  <1>3. AckInv'
    BY DEF TypeOK, StartInv, AckInv, RunJob
  <1>4. TornInv' /\ NoTornMessage'
    BY DEF TypeOK, TornInv, NoTornMessage, StartInv, AckInv, Ended, RunJob
  <1> QED
    BY <1>1, <1>2, <1>3, <1>4

LEMMA ResultTakenStep ==
  ASSUME IInv, [Next]_vars, ResultTaken
  PROVE  IInv'
  <1> USE DEF IInv, startVars, callVars, pipeVars
  <1>1. TypeOK'
    BY Booleans, WindowsWorkerAssumption DEF TypeOK, ResultTaken
  <1>2. StartInv'
    BY DEF TypeOK, StartInv, AckInv, ResultTaken
  <1>3. AckInv'
    BY DEF TypeOK, StartInv, AckInv, ResultTaken
  <1>4. TornInv' /\ NoTornMessage'
    BY DEF TypeOK, TornInv, NoTornMessage, StartInv, AckInv, Ended, ResultTaken
  <1> QED
    BY <1>1, <1>2, <1>3, <1>4

LEMMA PollEofStep ==
  ASSUME IInv, [Next]_vars, PollEof
  PROVE  IInv'
  <1> USE DEF IInv, startVars, callVars, pipeVars
  <1>1. TypeOK'
    BY Booleans, WindowsWorkerAssumption DEF TypeOK, PollEof
  <1>2. StartInv'
    BY DEF TypeOK, StartInv, AckInv, PollEof
  <1>3. AckInv'
    BY DEF TypeOK, StartInv, AckInv, PollEof
  <1>4. TornInv' /\ NoTornMessage'
    BY DEF TypeOK, TornInv, NoTornMessage, StartInv, AckInv, Ended, PollEof
  <1> QED
    BY <1>1, <1>2, <1>3, <1>4

LEMMA IdleTimeoutStep ==
  ASSUME IInv, [Next]_vars, IdleTimeout
  PROVE  IInv'
  <1> USE DEF IInv, startVars, callVars, pipeVars
  <1>1. TypeOK'
    BY Booleans, WindowsWorkerAssumption DEF TypeOK, IdleTimeout
  <1>2. StartInv'
    BY DEF TypeOK, StartInv, AckInv, IdleTimeout
  <1>3. AckInv'
    BY DEF TypeOK, StartInv, AckInv, IdleTimeout
  <1>4. TornInv' /\ NoTornMessage'
    BY DEF TypeOK, TornInv, NoTornMessage, StartInv, AckInv, Ended, IdleTimeout
  <1> QED
    BY <1>1, <1>2, <1>3, <1>4

LEMMA SpinStep ==
  ASSUME IInv, [Next]_vars, Spin
  PROVE  IInv'
  <1> USE DEF IInv, startVars, callVars, pipeVars
  <1>1. TypeOK'
    BY Booleans, WindowsWorkerAssumption DEF TypeOK, Spin
  <1>2. StartInv'
    BY DEF TypeOK, StartInv, AckInv, Spin
  <1>3. AckInv'
    BY DEF TypeOK, StartInv, AckInv, Spin
  <1>4. TornInv' /\ NoTornMessage'
    BY DEF TypeOK, TornInv, NoTornMessage, StartInv, AckInv, Ended, Spin
  <1> QED
    BY <1>1, <1>2, <1>3, <1>4

LEMMA DieStep ==
  ASSUME IInv, [Next]_vars, Die
  PROVE  IInv'
  <1> USE DEF IInv, startVars, callVars, pipeVars
  <1>1. TypeOK'
    BY Booleans, WindowsWorkerAssumption DEF TypeOK, Die, Ended
  <1>2. StartInv'
    BY DEF TypeOK, StartInv, AckInv, Die, Ended
  <1>3. AckInv'
    BY DEF TypeOK, StartInv, AckInv, Die, Ended
  <1>4. TornInv' /\ NoTornMessage'
    BY DEF TypeOK, TornInv, NoTornMessage, StartInv, AckInv, Ended, Die
  <1> QED
    BY <1>1, <1>2, <1>3, <1>4

LEMMA AckFailsStep ==
  ASSUME IInv, [Next]_vars, NEW why \in {"eof", "cancelled"}, AckFails(why)
  PROVE  IInv'
  <1> USE DEF IInv, startVars, callVars, pipeVars
  <1>1. TypeOK'
    BY Booleans, WindowsWorkerAssumption DEF TypeOK, AckFails, EndOfChannel
  <1>2. StartInv'
    BY DEF TypeOK, StartInv, AckInv, AckFails, EndOfChannel
  <1>3. AckInv'
    BY DEF TypeOK, StartInv, AckInv, AckFails, EndOfChannel
  <1>4. TornInv' /\ NoTornMessage'
    BY DEF TypeOK, TornInv, NoTornMessage, StartInv, AckInv, Ended, AckFails, EndOfChannel
  <1> QED
    BY <1>1, <1>2, <1>3, <1>4

\* The three that take a part of a message.
LEMMA AckReceivedStep ==
  ASSUME IInv, [Next]_vars, AckReceived
  PROVE  IInv'
  <1> USE DEF IInv
  <1>1. results # <<>> /\ results[1].left = 1 /\ TakePart /\ TypeOK /\ ack # "passed"
        /\ main = "acking" /\ results \in Seq(Parts)
    <2>1. ack = "receive" /\ results # <<>> /\ TakePart /\ TypeOK /\ main = "acking"
      BY DEF AckReceived, StartInv
    <2>2. results \in Seq(Parts)
      BY Zenon, <2>1 DEF TypeOK, Parts
    <2>3. 1 \in 1..Len(results) /\ results[1] \in Parts
      BY <2>1, <2>2
    <2>4. results[1].msg = Ack /\ results[1].parts = 1 /\ results[1].left <= 1
      BY <2>1, <2>3 DEF AckInv, TornInv
    <2> QED
      BY <2>1, <2>2, <2>3, <2>4 DEF Parts
  <1>2. /\ results' \in Seq(Parts) /\ Len(results') = Len(results) - 1
        /\ \A i \in 1..Len(results') : results'[i] = results[i + 1]
    BY <1>1, TakePartFacts
  <1>3. TypeOK'
    BY <1>2, Booleans DEF TypeOK, AckReceived, Parts, callVars
  <1>4. StartInv'
    BY DEF StartInv, AckReceived
  <1>5. AckInv'
    BY <1>1, <1>2 DEF AckInv, AckReceived
  <1>6. TornInv' /\ NoTornMessage'
    BY <1>1, <1>2 DEF TornInv, NoTornMessage, AckReceived
  <1> QED
    BY <1>3, <1>4, <1>5, <1>6

LEMMA ReceiveStep ==
  ASSUME IInv, [Next]_vars, Receive
  PROVE  IInv'
  <1> USE DEF IInv
  <1>1. /\ results # <<>> /\ TakePart /\ TypeOK /\ main = "recv" /\ ack = "passed"
    BY DEF Receive, StartInv
  <1>2. results \in Seq(Parts)
    BY Zenon, <1>1 DEF TypeOK, Parts
  <1>3. 1 \in 1..Len(results) /\ results[1] \in Parts /\ Head(results) = results[1]
    BY <1>1, <1>2
  <1>4. results' \in Seq(Parts)
    BY <1>1, TakePartFacts
  <1>5. main' \in {"wait", "ready", "more"}
        /\ outcome' \in {"none", "value", "stale", "retry", "broken", "cancelled"}
    BY DEF Receive, Returned, TypeOK
  <1>6. TypeOK'
    BY <1>4, <1>5, Booleans DEF TypeOK, Receive, Parts, startVars
  <1>7. StartInv'
    BY <1>1, <1>5 DEF StartInv, Receive, startVars
  <1>8. CASE results[1].left = 1
    <2>1. /\ Len(results') = Len(results) - 1
          /\ \A i \in 1..Len(results') : results'[i] = results[i + 1]
      BY <1>1, <1>8, TakePartFacts
    <2>2. main' # "more"
      BY <1>3, <1>8 DEF Receive, Returned
    <2>3. AckInv'
      BY <1>1, <2>1 DEF AckInv, Receive, startVars
    <2>4. TornInv' /\ NoTornMessage'
      BY <1>1, <1>2, <2>1, <2>2 DEF TornInv, NoTornMessage, Receive
    <2> QED
      BY <1>6, <1>7, <2>3, <2>4
  <1>9. CASE results[1].left # 1
    <2>1. /\ Len(results') = Len(results)
          /\ results'[1] = [results[1] EXCEPT !.left = @ - 1]
          /\ \A i \in 2..Len(results) : results'[i] = results[i]
      BY <1>1, <1>9, TakePartFacts
    <2>2. /\ results'[1].msg = results[1].msg /\ results'[1].parts = results[1].parts
          /\ results'[1].left = results[1].left - 1
      BY <1>3, <2>1 DEF Parts
    <2>3. main' = "more"
      BY <1>3, <1>9 DEF Receive
    <2>4. results[1].left <= results[1].parts
      BY <1>3 DEF TornInv
    <2>5. results'[1].left < results'[1].parts /\ results' # <<>>
      BY <1>1, <1>2, <1>3, <1>4, <2>1, <2>2, <2>4 DEF Parts
    <2>6. ASSUME NEW i \in 1..Len(results')
          PROVE  /\ results'[i].msg = results[i].msg
                 /\ results'[i].parts = results[i].parts
                 /\ i # 1 => results'[i] = results[i]
      <3>1. CASE i = 1
        BY <3>1, <2>2
      <3>2. CASE i # 1
        <4>1. i \in 2..Len(results)
          BY <1>2, <2>1, <3>2
        <4> QED
          BY <2>1, <3>2, <4>1
      <3> QED
        BY <3>1, <3>2
    <2>7. AckInv'
      BY <1>1, <1>3, <2>1, <2>6 DEF AckInv, Receive, startVars
    <2>9. TornInv'
      <3>1. results'[1].left <= results'[1].parts
        BY <1>3, <2>2, <2>4 DEF Parts
      <3>2. ASSUME NEW i \in 1..Len(results')
            PROVE  /\ results'[i].left <= results'[i].parts
                   /\ results'[i].left < results'[i].parts => i = 1
                   /\ results'[i].msg = Ack => results'[i].parts = 1
        <4>1. i \in 1..Len(results)
          BY <2>1
        <4> QED
          BY <2>6, <3>1, <4>1 DEF TornInv
      <3> QED
        BY <2>5, <3>2 DEF TornInv
    <2>8. NoTornMessage'
      BY <2>1, <2>3, <2>5, <2>9 DEF NoTornMessage, TornInv
    <2> QED
      BY <1>6, <1>7, <2>7, <2>8, <2>9
  <1> QED
    BY <1>8, <1>9

LEMMA ReceiveMoreStep ==
  ASSUME IInv, [Next]_vars, ReceiveMore
  PROVE  IInv'
  <1> USE DEF IInv
  <1>1. /\ results # <<>> /\ TakePart /\ TypeOK /\ main = "more" /\ ack = "passed"
    BY DEF ReceiveMore, StartInv
  <1>2. results \in Seq(Parts)
    BY Zenon, <1>1 DEF TypeOK, Parts
  <1>3. 1 \in 1..Len(results) /\ results[1] \in Parts
    BY <1>1, <1>2
  <1>4. results[1].left = 1
    BY <1>1, <1>3, WindowsWorkerAssumption DEF TornInv, Parts
  <1>5. /\ results' \in Seq(Parts) /\ Len(results') = Len(results) - 1
        /\ \A i \in 1..Len(results') : results'[i] = results[i + 1]
    BY <1>1, <1>4, TakePartFacts
  <1>6. main' \in {"wait", "ready"}
        /\ outcome' \in {"none", "value", "stale", "retry", "broken", "cancelled"}
    BY DEF ReceiveMore, Returned, TypeOK
  <1>7. TypeOK'
    BY <1>5, <1>6, Booleans DEF TypeOK, ReceiveMore, Parts, startVars
  <1>8. StartInv'
    BY <1>1, <1>6 DEF StartInv, ReceiveMore, startVars
  <1>9. AckInv'
    BY <1>1, <1>5 DEF AckInv, ReceiveMore, startVars
  <1>10. TornInv' /\ NoTornMessage'
    BY <1>1, <1>2, <1>5, <1>6 DEF TornInv, NoTornMessage
  <1> QED
    BY <1>7, <1>8, <1>9, <1>10

\* The three sends of the worker.
LEMMA SendStep ==
  ASSUME IInv, [Next]_vars, NEW m \in Parts, results' = Append(results, m),
         TypeOK', StartInv', AckInv', UNCHANGED main, m.left = m.parts,
         m.msg = Ack => m.parts = 1, ~Ended
  PROVE  IInv'
  <1> USE DEF IInv
  <1>1. /\ Len(results') = Len(results) + 1 /\ results'[Len(results) + 1] = m
        /\ \A i \in 1..Len(results) : results'[i] = results[i]
    BY AppendFacts
  <1>2. results \in Seq(Parts)
    BY Zenon DEF TypeOK, Parts
  <1>3. main = "more" => results # <<>> /\ results[1].left < results[1].parts
    BY DEF NoTornMessage
  <1>4. main = "more" => 1 \in 1..Len(results) /\ results'[1] = results[1]
    BY <1>1, <1>2, <1>3
  <1>5. TornInv'
    BY <1>1, <1>2, <1>3, <1>4 DEF TornInv, Parts
  <1>6. NoTornMessage'
    BY <1>1, <1>2, <1>3, <1>4 DEF NoTornMessage, Parts
  <1> QED
    BY <1>5, <1>6

LEMMA SendAckStep ==
  ASSUME IInv, [Next]_vars, SendAck
  PROVE  IInv'
  <1> USE DEF IInv
  <1>1. results = <<>> /\ ack # "passed" /\ ~Ended /\ proc = "boot"
    BY DEF AckInv, SendAck, Ended
  <1>2. CASE ends
    <2> DEFINE m == Message(Ack, 1)
    <2>1. m \in Parts /\ m.left = m.parts /\ m.parts = 1 /\ m.msg = Ack
      BY WindowsWorkerAssumption DEF Message, Parts, Messages, Ack
    <2>2. results' = Append(results, m) /\ proc' = "init"
      BY <1>2 DEF SendAck
    <2>3. TypeOK'
      BY <2>1, <2>2, AppendFacts, Booleans DEF TypeOK, SendAck, startVars, callVars, Parts
    <2>4. StartInv'
      BY <1>1, <2>2 DEF StartInv, SendAck, startVars
    <2>5. results' = <<m>>
      BY <1>1, <2>2
    <2>6. AckInv'
      BY <1>1, <2>1, <2>2, <2>5 DEF AckInv, SendAck, startVars
    <2> QED
      BY <1>1, <2>1, <2>2, <2>3, <2>4, <2>6, SendStep DEF SendAck
  <1>3. CASE ~ends
    <2>1. proc' = "dead" /\ results' = results
      BY <1>3 DEF SendAck
    <2>2. TypeOK'
      BY <2>1, Booleans DEF TypeOK, SendAck, startVars, callVars
    <2>3. StartInv' /\ AckInv'
      BY <1>1, <2>1 DEF StartInv, AckInv, SendAck, startVars
    <2>4. TornInv' /\ NoTornMessage'
      BY <1>1, <2>1 DEF TornInv, NoTornMessage, SendAck, Ended
    <2> QED
      BY <2>2, <2>3, <2>4
  <1> QED
    BY <1>2, <1>3

LEMMA SendResultStep ==
  ASSUME IInv, [Next]_vars, NEW parts \in 1..MaxParts, SendResult(parts)
  PROVE  IInv'
  <1> USE DEF IInv
  <1> DEFINE m == Message(Head(jobs), parts)
  <1>1. jobs # <<>> /\ ack = "passed" /\ ~Ended /\ proc = "run"
        /\ proc' \in {"poll", "sending"}
    BY DEF AckInv, SendResult, Ended
  <1>2. Head(jobs) \in 1..MaxJobs /\ jobs' \in Seq(1..MaxJobs)
    <2>1. jobs \in Seq(1..MaxJobs) /\ jobs' = Tail(jobs)
      BY Zenon DEF TypeOK, SendResult
    <2> QED
      BY Zenon, <1>1, <2>1, SeqFacts
  <1>3. m \in Parts /\ m.left = m.parts /\ m.msg # Ack
    BY <1>2, WindowsWorkerAssumption DEF Message, Parts, Messages, Ack
  <1>4. results' = Append(results, m)
    BY DEF SendResult
  <1>5. TypeOK'
    BY <1>1, <1>2, <1>3, <1>4, AppendFacts, Booleans
    DEF TypeOK, SendResult, startVars, callVars, Parts
  <1>6. StartInv'
    BY <1>1 DEF StartInv, SendResult, startVars
  <1>7. AckInv'
    BY <1>1, <1>3, <1>4, AppendFacts DEF AckInv, SendResult, startVars
  <1> QED
    BY <1>1, <1>3, <1>4, <1>5, <1>6, <1>7, SendStep DEF SendResult

LEMMA LeaveStep ==
  ASSUME IInv, [Next]_vars, Leave
  PROVE  IInv'
  <1> USE DEF IInv
  <1>1. proc = "leaving" /\ proc' = "dead" /\ ~Ended
    BY DEF Leave, Ended
  <1>2. StartInv'
    BY <1>1 DEF StartInv, Leave, startVars
  <1>3. CASE ends
    <2> DEFINE m == Message(None, 1)
    <2>1. m \in Parts /\ m.left = m.parts /\ m.msg # Ack
      BY WindowsWorkerAssumption DEF Message, Parts, Messages, Ack, None
    <2>2. results' = Append(results, m)
      BY <1>3 DEF Leave
    <2>3. TypeOK'
      BY <1>1, <2>1, <2>2, AppendFacts, Booleans
      DEF TypeOK, Leave, startVars, callVars, Parts
    <2>4. results \in Seq(Parts)
      BY Zenon DEF TypeOK, Parts
    <2>5. AckInv'
      BY <1>1, <2>1, <2>2, <2>4, AppendFacts DEF AckInv, Leave, startVars
    <2> QED
      BY <1>1, <1>2, <2>1, <2>2, <2>3, <2>5, SendStep DEF Leave
  <1>4. CASE ~ends
    <2>1. results' = results
      BY <1>4 DEF Leave
    <2>2. TypeOK'
      BY <1>1, <2>1, Booleans DEF TypeOK, Leave, startVars, callVars
    <2>3. AckInv'
      BY <1>1, <2>1 DEF AckInv, Leave, startVars
    <2>4. TornInv' /\ NoTornMessage'
      BY <1>1, <2>1 DEF TornInv, NoTornMessage, Leave, Ended
    <2> QED
      BY <1>2, <2>2, <2>3, <2>4
  <1> QED
    BY <1>3, <1>4

-----------------------------------------------------------------------------
LEMMA NextInv == IInv /\ [Next]_vars => IInv'
  <1> SUFFICES ASSUME IInv, [Next]_vars PROVE IInv'
    OBVIOUS
  <1>1. CASE MainStep
    BY <1>1, OpenNurseryStep, AckReceivedStep, ExitedStep, WaitCancelledStep,
       NurseryEndsStep, AckFailsStep, CollectStep, ReceiveStep, ReceiveMoreStep,
       ReceiveFailsStep, WaitDoneStep DEF MainStep
  <1>2. CASE WorkerStep
    BY <1>2, SendAckStep, InitReturnsStep, RunJobStep, SendResultStep,
       ResultTakenStep, PollEofStep, LeaveStep DEF WorkerStep
  <1>3. CASE Start \/ Cancel \/ Submit \/ IdleTimeout \/ Spin \/ Die
    BY <1>3, StartStep, CancelStep, SubmitStep, IdleTimeoutStep, SpinStep, DieStep
  <1>4. CASE UNCHANGED vars
    <2>1. TypeOK'
      BY <1>4, Booleans DEF IInv, TypeOK, vars, startVars, callVars, pipeVars
    <2>2. StartInv' /\ AckInv' /\ TornInv' /\ NoTornMessage'
      BY <1>4 DEF IInv, StartInv, AckInv, TornInv, NoTornMessage, Ended, vars, startVars,
                  callVars, pipeVars
    <2> QED
      BY <2>1, <2>2 DEF IInv
  <1> QED
    BY <1>1, <1>2, <1>3, <1>4 DEF Next

-----------------------------------------------------------------------------
\* The inductive invariant of start, the acknowledgement and the two reads.
THEOREM Invariant == Spec => []IInv
  BY InitInv, NextInv, PTL DEF Spec

\* Every variable keeps its range.
THEOREM TypeCorrect == Spec => []TypeOK
  <1>1. IInv => TypeOK
    BY DEF IInv
  <1> QED
    BY <1>1, Invariant, PTL

\* A worker that start has returned has had its acknowledgement taken, so that
\* run_sync does not receive it as the result of a job.
THEOREM AckTaken == Spec => []AckIsTaken
  <1>1. IInv => AckIsTaken
    BY DEF IInv, StartInv, AckInv, AckIsTaken
  <1> QED
    BY <1>1, Invariant, PTL

\* No receive leaves half a message in the pipe, wherever it is cancelled.
THEOREM NothingTorn == Spec => []NoTornMessage
  <1>1. IInv => NoTornMessage
    BY DEF IInv
  <1> QED
    BY <1>1, Invariant, PTL
=============================================================================

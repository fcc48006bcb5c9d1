------------------------ MODULE AsyncPipelineProofs ------------------------
(***************************************************************************)
(* Proofs about AsyncPipeline, for any number of samples, batch size, sync *)
(* step, staleness threshold, number of replicas and failures.             *)
(*                                                                         *)
(* BudgetPlusOne is not inductive: that a sample may be received depends   *)
(* on a comparison the processor made before other coroutines ran, against *)
(* a count that resets overwrite.  IInv says what the count covers at any  *)
(* time (CountCovers), what the comparison still grants when the sample is *)
(* received (RoomToReceive), and what the lock freezes during a reset      *)
(* (CountedIsActive).  The end signal needs a bound on the tasks that may  *)
(* still put a sample behind it (SlotsRespected, EndTail).                 *)
(***************************************************************************)
EXTENDS AsyncPipeline, TLAPS

\* The lock is held across an await only where the code waits inside it.
Locks ==
    /\ lock = "processor" <=> proc \in {"slotwait", "endwait"}
    /\ lock = "reset" <=> train = "reset"

\* While a reset waits for the queue's size, no task enters or leaves.
CountedIsActive == train = "reset" => counted = ActiveTasks

\* The count misses one sample at most.
CountCovers == InSystem + used <= staleness + 1

\* The decision to go on still leaves room for the sample to be received.
RoomToReceive == proc = "get" => InSystem + used <= MaxRequiredSamples

SlotsRespected ==
    /\ ActiveTasks <= MaxConcurrentSamples
    /\ proc = "crashed" => running < MaxConcurrentSamples
    /\ proc = "finished" => ActiveTasks = 0

\* The end signal is sent once, and few tasks may put a sample behind it.
EndTail ==
    /\ mq.end = "none" <=> proc # "over"
    /\ mq.end = "queued" => mq.behind + running < MaxConcurrentSamples
    /\ mq.end # "queued" => mq.behind = 0

\* Without a failure nothing is broken, and nothing runs past the end signal.
NoFailure ==
    failures = 0 =>
        /\ broken = 0
        /\ proc # "crashed"
        /\ proc = "over" => running = 0 /\ mq.behind = 0

IInv ==
    /\ TypeOK
    /\ Locks
    /\ CountedIsActive
    /\ CountCovers
    /\ RoomToReceive
    /\ BudgetPlusOne
    /\ SlotsRespected
    /\ EndTail
    /\ NoFailure
    /\ EndNeverLost
-----------------------------------------------------------------------------
(* Constants and the queue                                                 *)

\* At least one task may run, and no more than the queue has places.
LEMMA Concurrency ==
    /\ MaxConcurrentSamples \in Nat
    /\ MaxConcurrentSamples >= 1
    /\ MaxConcurrentSamples <= MaxRequiredSamples
    /\ MaxRequiredSamples \in Nat
BY SizeAssumption, ThresholdAssumption DEF MaxConcurrentSamples

Queues == [ahead : Nat, behind : Nat, end : {"none", "queued", "taken", "lost"}]

\* The message queue has its type.
LEMMA QueueTyped == TypeOK => mq \in Queues
BY DEF TypeOK, Queues

\* Making room never grows the queue, and never takes the end signal while
\* there is a sample to take or a place free.
LEMMA RoomKeeps ==
    ASSUME NEW q \in Queues, Size(q) <= MaxRequiredSamples,
           q.end = "queued" => q.behind + 2 <= MaxRequiredSamples,
           q.end # "queued" => q.behind = 0
    PROVE  /\ Room(q) \in Queues
           /\ Room(q).end = q.end
           /\ Room(q).behind = q.behind
           /\ Room(q).ahead <= q.ahead
           /\ Size(Room(q)) + 1 <= MaxRequiredSamples
<1>1. CASE ~Full(q)
    BY <1>1, Concurrency DEF Room, Full, Queues, Size, MaxQueueSize
<1>2. CASE Full(q) /\ q.ahead > 0
  <2>1. Room(q) = [q EXCEPT !.ahead = @ - 1]
    BY <1>2 DEF Room
  <2> QED
    BY <1>2, <2>1, Concurrency DEF Queues, Size
<1>3. ASSUME Full(q), ~(q.ahead > 0) PROVE FALSE
    BY <1>3, Concurrency DEF Full, Queues, Size, MaxQueueSize
<1> QED
    BY <1>1, <1>2, <1>3

\* Putting a sample adds at most one.
LEMMA PutKeeps ==
    ASSUME NEW q \in Queues, Size(q) <= MaxRequiredSamples,
           q.end = "queued" => q.behind + 2 <= MaxRequiredSamples,
           q.end # "queued" => q.behind = 0
    PROVE  /\ PutSample(q) \in Queues
           /\ PutSample(q).end = q.end
           /\ q.end = "queued" => PutSample(q).behind = q.behind + 1
           /\ q.end # "queued" => PutSample(q).behind = 0
           /\ PutSample(q).ahead + PutSample(q).behind <= q.ahead + q.behind + 1
           /\ Size(PutSample(q)) <= MaxRequiredSamples
<1> DEFINE m == Room(q)
<1>1. /\ m \in Queues /\ m.end = q.end /\ m.behind = q.behind
      /\ m.ahead <= q.ahead /\ Size(m) + 1 <= MaxRequiredSamples
    BY RoomKeeps
<1>2. PutSample(q) = IF m.end = "queued" THEN [m EXCEPT !.behind = @ + 1]
                                         ELSE [m EXCEPT !.ahead = @ + 1]
    BY DEF PutSample
<1> HIDE DEF m
<1> QED
    BY <1>1, <1>2, Concurrency DEF Queues, Size

\* Putting the end signal adds no sample.
LEMMA PutEndKeeps ==
    ASSUME NEW q \in Queues, Size(q) <= MaxRequiredSamples, q.end = "none",
           q.behind = 0
    PROVE  /\ PutEnd(q) \in Queues
           /\ PutEnd(q).end = "queued"
           /\ PutEnd(q).behind = 0
           /\ PutEnd(q).ahead <= q.ahead
           /\ Size(PutEnd(q)) <= MaxRequiredSamples
<1> DEFINE m == Room(q)
<1>1. /\ m \in Queues /\ m.end = q.end /\ m.behind = q.behind
      /\ m.ahead <= q.ahead /\ Size(m) + 1 <= MaxRequiredSamples
    BY RoomKeeps
<1>2. PutEnd(q) = [m EXCEPT !.end = "queued"]
    BY DEF PutEnd
<1> HIDE DEF m
<1> QED
    BY <1>1, <1>2, Concurrency DEF Queues, Size

-----------------------------------------------------------------------------
(* The invariant is inductive: first its start, then one lemma per action  *)

\* Nothing is in the system at first.
LEMMA InitHolds == Init => IInv
<1> SUFFICES ASSUME Init PROVE IInv
    OBVIOUS
<1>1. TypeOK
  <2>1. mq \in Queues /\ Size(mq) = 0
    BY DEF Init, Queues, Size
  <2>2. /\ fed \in 0..(TotalRolloutSteps + 1) /\ taken \in 0..fed
        /\ failures \in 0..MaxFailures
        /\ batch \in 0..RequiredSamples /\ local \in 1..SyncStep
    BY SizeAssumption DEF Init
  <2>3. Size(mq) <= MaxQueueSize
    BY <2>1, Concurrency DEF MaxQueueSize
  <2> QED
    BY <2>1, <2>2, <2>3 DEF Init, TypeOK, Queues
<1>2. Locks /\ CountedIsActive /\ NoFailure /\ EndNeverLost /\ EndTail
    BY DEF Init, Locks, CountedIsActive, NoFailure, EndNeverLost, EndTail
<1>3. CountCovers /\ RoomToReceive /\ BudgetPlusOne /\ SlotsRespected
    BY Concurrency DEF Init, CountCovers, RoomToReceive, BudgetPlusOne,
                       SlotsRespected, InSystem, Generated, Held, ActiveTasks
<1> QED
    BY <1>1, <1>2, <1>3 DEF IInv

\* Feeding changes the pending queue only.
LEMMA FeedKeeps ==
    ASSUME IInv, Feed
    PROVE  IInv'
<1>1. TypeOK /\ Locks /\ CountedIsActive /\ CountCovers /\ RoomToReceive
    BY DEF IInv
<1>2. BudgetPlusOne /\ SlotsRespected /\ EndTail /\ NoFailure /\ EndNeverLost
    BY DEF IInv
<1>3. TypeOK'
    BY <1>1, SizeAssumption DEF TypeOK, Feed, tasks, monitor, queue, trainer,
      MaxQueueSize, Size
<1>4. (Locks /\ CountedIsActive /\ NoFailure)'
    BY <1>1, <1>2 DEF TypeOK, Locks, CountedIsActive, NoFailure, ActiveTasks,
      Feed, tasks, monitor, queue, trainer
<1>5. (SlotsRespected /\ EndTail /\ EndNeverLost)'
    BY <1>1, <1>2, Concurrency DEF TypeOK, Locks, NoFailure, SlotsRespected,
      EndTail, EndNeverLost, ActiveTasks, Feed, tasks, monitor, queue, trainer
<1>6. (CountCovers /\ RoomToReceive /\ BudgetPlusOne)'
    BY <1>1, <1>2, Concurrency DEF TypeOK, Locks, CountedIsActive,
      CountCovers, RoomToReceive, BudgetPlusOne, InSystem, Generated, Held,
      ActiveTasks, Feed, tasks, monitor, queue, trainer
<1> QED
    BY <1>3, <1>4, <1>5, <1>6 DEF IInv

\* A finished task moves its sample into the queue.
LEMMA TaskReturnsKeeps ==
    ASSUME IInv, TaskReturns
    PROVE  IInv'
<1>1. TypeOK /\ Locks /\ CountedIsActive /\ CountCovers /\ RoomToReceive
    BY DEF IInv
<1>2. BudgetPlusOne /\ SlotsRespected /\ EndTail /\ NoFailure /\ EndNeverLost
    BY DEF IInv
<1>3. mq \in Queues /\ Size(mq) <= MaxRequiredSamples
    BY <1>1, QueueTyped DEF TypeOK, MaxQueueSize
<1>4. /\ mq.end = "queued" => mq.behind + 2 <= MaxRequiredSamples
      /\ mq.end # "queued" => mq.behind = 0
    BY <1>1, <1>2, <1>3, Concurrency DEF TypeOK, EndTail, TaskReturns, Queues
<1>5. /\ mq' \in Queues /\ mq'.end = mq.end
      /\ mq.end = "queued" => mq'.behind = mq.behind + 1
      /\ mq.end # "queued" => mq'.behind = 0
      /\ mq'.ahead + mq'.behind <= mq.ahead + mq.behind + 1
      /\ Size(mq)' <= MaxRequiredSamples
    BY <1>3, <1>4, PutKeeps DEF TaskReturns
<1>6. dropped' \in Nat
    BY <1>1 DEF TaskReturns, CountDrop, TypeOK
<1>7. TypeOK'
    BY <1>1, <1>3, <1>5, <1>6, SizeAssumption DEF TypeOK, TaskReturns, feed,
      monitor, trainer, MaxQueueSize, Queues
<1>8. (Locks /\ CountedIsActive /\ NoFailure)'
    BY <1>1, <1>2, <1>3, <1>5, <1>6 DEF TypeOK, Locks, CountedIsActive,
      NoFailure, ActiveTasks, TaskReturns, feed, monitor, trainer, Queues
<1>9. (SlotsRespected /\ EndTail /\ EndNeverLost)'
    BY <1>1, <1>2, <1>3, <1>5, <1>6, Concurrency DEF TypeOK, Locks, NoFailure,
      SlotsRespected, EndTail, EndNeverLost, ActiveTasks, TaskReturns, feed,
      monitor, trainer, Queues
<1>10. (CountCovers /\ RoomToReceive /\ BudgetPlusOne)'
    BY <1>1, <1>2, <1>3, <1>5, <1>6, Concurrency DEF TypeOK, Locks,
      CountedIsActive, CountCovers, RoomToReceive, BudgetPlusOne, InSystem,
      Generated, Held, ActiveTasks, TaskReturns, feed, monitor, trainer,
      Queues
<1> QED
    BY <1>7, <1>8, <1>9, <1>10 DEF IInv

\* A failed task takes its sample with it.
LEMMA TaskRaisesKeeps ==
    ASSUME IInv, TaskRaises
    PROVE  IInv'
<1>1. TypeOK /\ Locks /\ CountedIsActive /\ CountCovers /\ RoomToReceive
    BY DEF IInv
<1>2. BudgetPlusOne /\ SlotsRespected /\ EndTail /\ NoFailure /\ EndNeverLost
    BY DEF IInv
<1>3. TypeOK'
    BY <1>1, SizeAssumption DEF TypeOK, TaskRaises, feed, monitor, queue,
      trainer, MaxQueueSize, Size
<1>4. (Locks /\ CountedIsActive /\ NoFailure)'
    BY <1>1, <1>2 DEF TypeOK, Locks, CountedIsActive, NoFailure, ActiveTasks,
      TaskRaises, feed, monitor, queue, trainer
<1>5. (SlotsRespected /\ EndTail /\ EndNeverLost)'
    BY <1>1, <1>2, Concurrency DEF TypeOK, Locks, NoFailure, SlotsRespected,
      EndTail, EndNeverLost, ActiveTasks, TaskRaises, feed, monitor, queue,
      trainer
<1>6. (CountCovers /\ RoomToReceive /\ BudgetPlusOne)'
    BY <1>1, <1>2, Concurrency DEF TypeOK, Locks, CountedIsActive,
      CountCovers, RoomToReceive, BudgetPlusOne, InSystem, Generated, Held,
      ActiveTasks, TaskRaises, feed, monitor, queue, trainer
<1> QED
    BY <1>3, <1>4, <1>5, <1>6 DEF IInv

\* Asking the queue changes nothing the invariant counts.
LEMMA CheckKeeps ==
    ASSUME IInv, Check
    PROVE  IInv'
<1>1. TypeOK /\ Locks /\ CountedIsActive /\ CountCovers /\ RoomToReceive
    BY DEF IInv
<1>2. BudgetPlusOne /\ SlotsRespected /\ EndTail /\ NoFailure /\ EndNeverLost
    BY DEF IInv
<1>3. Full(mq) \in BOOLEAN
    BY DEF Full
<1>4. TypeOK'
    BY <1>1, <1>3, SizeAssumption DEF TypeOK, Check, feed, tasks, monitor,
      queue, trainer, MaxQueueSize, Size
<1>5. (Locks /\ CountedIsActive /\ NoFailure)'
    BY <1>1, <1>2, <1>3 DEF TypeOK, Locks, CountedIsActive, NoFailure,
      ActiveTasks, Check, feed, tasks, monitor, queue, trainer
<1>6. (SlotsRespected /\ EndTail /\ EndNeverLost)'
    BY <1>1, <1>2, <1>3, Concurrency DEF TypeOK, Locks, NoFailure,
      SlotsRespected, EndTail, EndNeverLost, ActiveTasks, Check, feed, tasks,
      monitor, queue, trainer
<1>7. (CountCovers /\ RoomToReceive /\ BudgetPlusOne)'
    BY <1>1, <1>2, <1>3, Concurrency DEF TypeOK, Locks, CountedIsActive,
      CountCovers, RoomToReceive, BudgetPlusOne, InSystem, Generated, Held,
      ActiveTasks, Check, feed, tasks, monitor, queue, trainer
<1> QED
    BY <1>4, <1>5, <1>6, <1>7 DEF IInv

\* Deciding to go on leaves room for one more sample.
LEMMA DecideKeeps ==
    ASSUME IInv, Decide
    PROVE  IInv'
<1>1. TypeOK /\ Locks /\ CountedIsActive /\ CountCovers /\ RoomToReceive
    BY DEF IInv
<1>2. BudgetPlusOne /\ SlotsRespected /\ EndTail /\ NoFailure /\ EndNeverLost
    BY DEF IInv
<1>3. TypeOK'
    BY <1>1, SizeAssumption DEF TypeOK, Decide, ShouldPause, feed, tasks,
      monitor, queue, trainer, MaxQueueSize, Size
<1>4. (Locks /\ CountedIsActive /\ NoFailure)'
    BY <1>1, <1>2 DEF TypeOK, Locks, CountedIsActive, NoFailure, ActiveTasks,
      Decide, ShouldPause, feed, tasks, monitor, queue, trainer
<1>5. (SlotsRespected /\ EndTail /\ EndNeverLost)'
    BY <1>1, <1>2, Concurrency DEF TypeOK, Locks, NoFailure, SlotsRespected,
      EndTail, EndNeverLost, ActiveTasks, Decide, ShouldPause, feed, tasks,
      monitor, queue, trainer
<1>6. (CountCovers /\ RoomToReceive /\ BudgetPlusOne)'
    BY <1>1, <1>2, Concurrency DEF TypeOK, Locks, CountedIsActive,
      CountCovers, RoomToReceive, BudgetPlusOne, InSystem, Generated, Held,
      ActiveTasks, Decide, ShouldPause, feed, tasks, monitor, queue, trainer
<1> QED
    BY <1>3, <1>4, <1>5, <1>6 DEF IInv

\* Pausing needs the lock.
LEMMA PauseKeeps ==
    ASSUME IInv, Pause
    PROVE  IInv'
<1>1. TypeOK /\ Locks /\ CountedIsActive /\ CountCovers /\ RoomToReceive
    BY DEF IInv
<1>2. BudgetPlusOne /\ SlotsRespected /\ EndTail /\ NoFailure /\ EndNeverLost
    BY DEF IInv
<1>3. TypeOK'
    BY <1>1, SizeAssumption DEF TypeOK, Pause, feed, tasks, monitor, queue,
      trainer, MaxQueueSize, Size
<1>4. (Locks /\ CountedIsActive /\ NoFailure)'
    BY <1>1, <1>2 DEF TypeOK, Locks, CountedIsActive, NoFailure, ActiveTasks,
      Pause, feed, tasks, monitor, queue, trainer
<1>5. (SlotsRespected /\ EndTail /\ EndNeverLost)'
    BY <1>1, <1>2, Concurrency DEF TypeOK, Locks, NoFailure, SlotsRespected,
      EndTail, EndNeverLost, ActiveTasks, Pause, feed, tasks, monitor, queue,
      trainer
<1>6. (CountCovers /\ RoomToReceive /\ BudgetPlusOne)'
    BY <1>1, <1>2, Concurrency DEF TypeOK, Locks, CountedIsActive,
      CountCovers, RoomToReceive, BudgetPlusOne, InSystem, Generated, Held,
      ActiveTasks, Pause, feed, tasks, monitor, queue, trainer
<1> QED
    BY <1>3, <1>4, <1>5, <1>6 DEF IInv

\* The drain shrinks active_tasks under the lock.
LEMMA ReapKeeps ==
    ASSUME IInv, Reap
    PROVE  IInv'
<1>1. TypeOK /\ Locks /\ CountedIsActive /\ CountCovers /\ RoomToReceive
    BY DEF IInv
<1>2. BudgetPlusOne /\ SlotsRespected /\ EndTail /\ NoFailure /\ EndNeverLost
    BY DEF IInv
<1>3. TypeOK'
    BY <1>1, SizeAssumption DEF TypeOK, Reap, feed, monitor, queue, trainer,
      MaxQueueSize, Size
<1>4. (Locks /\ CountedIsActive /\ NoFailure)'
    BY <1>1, <1>2 DEF TypeOK, Locks, CountedIsActive, NoFailure, ActiveTasks,
      Reap, feed, monitor, queue, trainer
<1>5. (SlotsRespected /\ EndTail /\ EndNeverLost)'
    BY <1>1, <1>2, Concurrency DEF TypeOK, Locks, NoFailure, SlotsRespected,
      EndTail, EndNeverLost, ActiveTasks, Reap, feed, monitor, queue, trainer
<1>6. (CountCovers /\ RoomToReceive /\ BudgetPlusOne)'
    BY <1>1, <1>2, Concurrency DEF TypeOK, Locks, CountedIsActive,
      CountCovers, RoomToReceive, BudgetPlusOne, InSystem, Generated, Held,
      ActiveTasks, Reap, feed, monitor, queue, trainer
<1> QED
    BY <1>3, <1>4, <1>5, <1>6 DEF IInv

\* Leaving the drain.
LEMMA ResumeKeeps ==
    ASSUME IInv, Resume
    PROVE  IInv'
<1>1. TypeOK /\ Locks /\ CountedIsActive /\ CountCovers /\ RoomToReceive
    BY DEF IInv
<1>2. BudgetPlusOne /\ SlotsRespected /\ EndTail /\ NoFailure /\ EndNeverLost
    BY DEF IInv
<1>3. TypeOK'
    BY <1>1, SizeAssumption DEF TypeOK, Resume, feed, tasks, monitor, queue,
      trainer, MaxQueueSize, Size
<1>4. (Locks /\ CountedIsActive /\ NoFailure)'
    BY <1>1, <1>2 DEF TypeOK, Locks, CountedIsActive, NoFailure, ActiveTasks,
      Resume, feed, tasks, monitor, queue, trainer
<1>5. (SlotsRespected /\ EndTail /\ EndNeverLost)'
    BY <1>1, <1>2, Concurrency DEF TypeOK, Locks, NoFailure, SlotsRespected,
      EndTail, EndNeverLost, ActiveTasks, Resume, feed, tasks, monitor, queue,
      trainer
<1>6. (CountCovers /\ RoomToReceive /\ BudgetPlusOne)'
    BY <1>1, <1>2, Concurrency DEF TypeOK, Locks, CountedIsActive,
      CountCovers, RoomToReceive, BudgetPlusOne, InSystem, Generated, Held,
      ActiveTasks, Resume, feed, tasks, monitor, queue, trainer
<1> QED
    BY <1>3, <1>4, <1>5, <1>6 DEF IInv

\* Receiving uses up the room the decision found.
LEMMA ReceiveKeeps ==
    ASSUME IInv, Receive
    PROVE  IInv'
<1>1. TypeOK /\ Locks /\ CountedIsActive /\ CountCovers /\ RoomToReceive
    BY DEF IInv
<1>2. BudgetPlusOne /\ SlotsRespected /\ EndTail /\ NoFailure /\ EndNeverLost
    BY DEF IInv
<1>3. TypeOK'
    BY <1>1, SizeAssumption DEF TypeOK, Receive, tasks, monitor, queue,
      trainer, MaxQueueSize, Size
<1>4. (Locks /\ CountedIsActive /\ NoFailure)'
    BY <1>1, <1>2 DEF TypeOK, Locks, CountedIsActive, NoFailure, ActiveTasks,
      Receive, tasks, monitor, queue, trainer
<1>5. (SlotsRespected /\ EndTail /\ EndNeverLost)'
    BY <1>1, <1>2, Concurrency DEF TypeOK, Locks, NoFailure, SlotsRespected,
      EndTail, EndNeverLost, ActiveTasks, Receive, tasks, monitor, queue,
      trainer
<1>6. (CountCovers /\ RoomToReceive /\ BudgetPlusOne)'
    BY <1>1, <1>2, Concurrency DEF TypeOK, Locks, CountedIsActive,
      CountCovers, RoomToReceive, BudgetPlusOne, InSystem, Generated, Held,
      ActiveTasks, Receive, tasks, monitor, queue, trainer
<1> QED
    BY <1>3, <1>4, <1>5, <1>6 DEF IInv

\* The held sample becomes a task.
LEMMA SubmitKeeps ==
    ASSUME IInv, Submit
    PROVE  IInv'
<1>1. TypeOK /\ Locks /\ CountedIsActive /\ CountCovers /\ RoomToReceive
    BY DEF IInv
<1>2. BudgetPlusOne /\ SlotsRespected /\ EndTail /\ NoFailure /\ EndNeverLost
    BY DEF IInv
<1>3. TypeOK'
    BY <1>1, SizeAssumption DEF TypeOK, Submit, feed, monitor, queue, trainer,
      MaxQueueSize, Size
<1>4. (Locks /\ CountedIsActive /\ NoFailure)'
    BY <1>1, <1>2 DEF TypeOK, Locks, CountedIsActive, NoFailure, ActiveTasks,
      Submit, feed, monitor, queue, trainer
<1>5. (SlotsRespected /\ EndTail /\ EndNeverLost)'
    BY <1>1, <1>2, Concurrency DEF TypeOK, Locks, NoFailure, SlotsRespected,
      EndTail, EndNeverLost, ActiveTasks, Submit, feed, monitor, queue,
      trainer
<1>6. (CountCovers /\ RoomToReceive /\ BudgetPlusOne)'
    BY <1>1, <1>2, Concurrency DEF TypeOK, Locks, CountedIsActive,
      CountCovers, RoomToReceive, BudgetPlusOne, InSystem, Generated, Held,
      ActiveTasks, Submit, feed, monitor, queue, trainer
<1> QED
    BY <1>3, <1>4, <1>5, <1>6 DEF IInv

\* The processor waits with the lock.
LEMMA WaitForTaskKeeps ==
    ASSUME IInv, WaitForTask
    PROVE  IInv'
<1>1. TypeOK /\ Locks /\ CountedIsActive /\ CountCovers /\ RoomToReceive
    BY DEF IInv
<1>2. BudgetPlusOne /\ SlotsRespected /\ EndTail /\ NoFailure /\ EndNeverLost
    BY DEF IInv
<1>3. TypeOK'
    BY <1>1, SizeAssumption DEF TypeOK, WaitForTask, feed, tasks, monitor,
      queue, trainer, MaxQueueSize, Size
<1>4. (Locks /\ CountedIsActive /\ NoFailure)'
    BY <1>1, <1>2 DEF TypeOK, Locks, CountedIsActive, NoFailure, ActiveTasks,
      WaitForTask, feed, tasks, monitor, queue, trainer
<1>5. (SlotsRespected /\ EndTail /\ EndNeverLost)'
    BY <1>1, <1>2, Concurrency DEF TypeOK, Locks, NoFailure, SlotsRespected,
      EndTail, EndNeverLost, ActiveTasks, WaitForTask, feed, tasks, monitor,
      queue, trainer
<1>6. (CountCovers /\ RoomToReceive /\ BudgetPlusOne)'
    BY <1>1, <1>2, Concurrency DEF TypeOK, Locks, CountedIsActive,
      CountCovers, RoomToReceive, BudgetPlusOne, InSystem, Generated, Held,
      ActiveTasks, WaitForTask, feed, tasks, monitor, queue, trainer
<1> QED
    BY <1>3, <1>4, <1>5, <1>6 DEF IInv

\* The wait reaps every finished task.
LEMMA TaskAwaitedKeeps ==
    ASSUME IInv, TaskAwaited
    PROVE  IInv'
<1>1. TypeOK /\ Locks /\ CountedIsActive /\ CountCovers /\ RoomToReceive
    BY DEF IInv
<1>2. BudgetPlusOne /\ SlotsRespected /\ EndTail /\ NoFailure /\ EndNeverLost
    BY DEF IInv
<1>3. TypeOK'
    BY <1>1, SizeAssumption DEF TypeOK, TaskAwaited, feed, monitor, queue,
      trainer, MaxQueueSize, Size
<1>4. (Locks /\ CountedIsActive /\ NoFailure)'
    BY <1>1, <1>2 DEF TypeOK, Locks, CountedIsActive, NoFailure, ActiveTasks,
      TaskAwaited, feed, monitor, queue, trainer
<1>5. (SlotsRespected /\ EndTail /\ EndNeverLost)'
    BY <1>1, <1>2, Concurrency DEF TypeOK, Locks, NoFailure, SlotsRespected,
      EndTail, EndNeverLost, ActiveTasks, TaskAwaited, feed, monitor, queue,
      trainer
<1>6. (CountCovers /\ RoomToReceive /\ BudgetPlusOne)'
    BY <1>1, <1>2, Concurrency DEF TypeOK, Locks, CountedIsActive,
      CountCovers, RoomToReceive, BudgetPlusOne, InSystem, Generated, Held,
      ActiveTasks, TaskAwaited, feed, monitor, queue, trainer
<1> QED
    BY <1>3, <1>4, <1>5, <1>6 DEF IInv

\* No task is left behind.
LEMMA AllDoneKeeps ==
    ASSUME IInv, AllDone
    PROVE  IInv'
<1>1. TypeOK /\ Locks /\ CountedIsActive /\ CountCovers /\ RoomToReceive
    BY DEF IInv
<1>2. BudgetPlusOne /\ SlotsRespected /\ EndTail /\ NoFailure /\ EndNeverLost
    BY DEF IInv
<1>3. TypeOK'
    BY <1>1, SizeAssumption DEF TypeOK, AllDone, feed, tasks, monitor, queue,
      trainer, MaxQueueSize, Size
<1>4. (Locks /\ CountedIsActive /\ NoFailure)'
    BY <1>1, <1>2 DEF TypeOK, Locks, CountedIsActive, NoFailure, ActiveTasks,
      AllDone, feed, tasks, monitor, queue, trainer
<1>5. (SlotsRespected /\ EndTail /\ EndNeverLost)'
    BY <1>1, <1>2, Concurrency DEF TypeOK, Locks, NoFailure, SlotsRespected,
      EndTail, EndNeverLost, ActiveTasks, AllDone, feed, tasks, monitor,
      queue, trainer
<1>6. (CountCovers /\ RoomToReceive /\ BudgetPlusOne)'
    BY <1>1, <1>2, Concurrency DEF TypeOK, Locks, CountedIsActive,
      CountCovers, RoomToReceive, BudgetPlusOne, InSystem, Generated, Held,
      ActiveTasks, AllDone, feed, tasks, monitor, queue, trainer
<1> QED
    BY <1>3, <1>4, <1>5, <1>6 DEF IInv

\* The end signal finds few tasks running.
LEMMA SignalEndKeeps ==
    ASSUME IInv, SignalEnd
    PROVE  IInv'
<1>1. TypeOK /\ Locks /\ CountedIsActive /\ CountCovers /\ RoomToReceive
    BY DEF IInv
<1>2. BudgetPlusOne /\ SlotsRespected /\ EndTail /\ NoFailure /\ EndNeverLost
    BY DEF IInv
<1>3. mq \in Queues /\ Size(mq) <= MaxRequiredSamples
    BY <1>1, QueueTyped DEF TypeOK, MaxQueueSize
<1>4. mq.end = "none" /\ mq.behind = 0
    BY <1>2 DEF EndTail, SignalEnd
<1>5. /\ mq' \in Queues /\ mq'.end = "queued" /\ mq'.behind = 0
      /\ mq'.ahead <= mq.ahead
      /\ Size(mq)' <= MaxRequiredSamples
    BY <1>3, <1>4, PutEndKeeps DEF SignalEnd
<1>6. dropped' \in Nat
    BY <1>1 DEF SignalEnd, CountDrop, TypeOK
<1>7. TypeOK'
    BY <1>1, <1>3, <1>4, <1>5, <1>6, SizeAssumption DEF TypeOK, SignalEnd,
      feed, tasks, monitor, trainer, MaxQueueSize, Queues
<1>8. (Locks /\ CountedIsActive /\ NoFailure)'
    BY <1>1, <1>2, <1>3, <1>4, <1>5, <1>6 DEF TypeOK, Locks, CountedIsActive,
      NoFailure, ActiveTasks, SignalEnd, feed, tasks, monitor, trainer,
      Queues, SlotsRespected
<1>9. (SlotsRespected /\ EndTail /\ EndNeverLost)'
    BY <1>1, <1>2, <1>3, <1>4, <1>5, <1>6, Concurrency DEF TypeOK, Locks,
      NoFailure, SlotsRespected, EndTail, EndNeverLost, ActiveTasks,
      SignalEnd, feed, tasks, monitor, trainer, Queues
<1>10. (CountCovers /\ RoomToReceive /\ BudgetPlusOne)'
    BY <1>1, <1>2, <1>3, <1>4, <1>5, <1>6, Concurrency DEF TypeOK, Locks,
      CountedIsActive, CountCovers, RoomToReceive, BudgetPlusOne, InSystem,
      Generated, Held, ActiveTasks, SignalEnd, feed, tasks, monitor, trainer,
      Queues
<1> QED
    BY <1>7, <1>8, <1>9, <1>10 DEF IInv

\* The monitor asks the queue.
LEMMA MonitorAsksKeeps ==
    ASSUME IInv, MonitorAsks
    PROVE  IInv'
<1>1. TypeOK /\ Locks /\ CountedIsActive /\ CountCovers /\ RoomToReceive
    BY DEF IInv
<1>2. BudgetPlusOne /\ SlotsRespected /\ EndTail /\ NoFailure /\ EndNeverLost
    BY DEF IInv
<1>3. Full(mq) \in BOOLEAN
    BY DEF Full
<1>4. TypeOK'
    BY <1>1, <1>3, SizeAssumption DEF TypeOK, MonitorAsks, feed, tasks, queue,
      trainer, MaxQueueSize, Size
<1>5. (Locks /\ CountedIsActive /\ NoFailure)'
    BY <1>1, <1>2, <1>3 DEF TypeOK, Locks, CountedIsActive, NoFailure,
      ActiveTasks, MonitorAsks, feed, tasks, queue, trainer
<1>6. (SlotsRespected /\ EndTail /\ EndNeverLost)'
    BY <1>1, <1>2, <1>3, Concurrency DEF TypeOK, Locks, NoFailure,
      SlotsRespected, EndTail, EndNeverLost, ActiveTasks, MonitorAsks, feed,
      tasks, queue, trainer
<1>7. (CountCovers /\ RoomToReceive /\ BudgetPlusOne)'
    BY <1>1, <1>2, <1>3, Concurrency DEF TypeOK, Locks, CountedIsActive,
      CountCovers, RoomToReceive, BudgetPlusOne, InSystem, Generated, Held,
      ActiveTasks, MonitorAsks, feed, tasks, queue, trainer
<1> QED
    BY <1>4, <1>5, <1>6, <1>7 DEF IInv

\* The monitor decides.
LEMMA MonitorDecidesKeeps ==
    ASSUME IInv, MonitorDecides
    PROVE  IInv'
<1>1. TypeOK /\ Locks /\ CountedIsActive /\ CountCovers /\ RoomToReceive
    BY DEF IInv
<1>2. BudgetPlusOne /\ SlotsRespected /\ EndTail /\ NoFailure /\ EndNeverLost
    BY DEF IInv
<1>3. TypeOK'
    BY <1>1, SizeAssumption DEF TypeOK, MonitorDecides, ShouldPause, feed,
      tasks, queue, trainer, MaxQueueSize, Size
<1>4. (Locks /\ CountedIsActive /\ NoFailure)'
    BY <1>1, <1>2 DEF TypeOK, Locks, CountedIsActive, NoFailure, ActiveTasks,
      MonitorDecides, ShouldPause, feed, tasks, queue, trainer
<1>5. (SlotsRespected /\ EndTail /\ EndNeverLost)'
    BY <1>1, <1>2, Concurrency DEF TypeOK, Locks, NoFailure, SlotsRespected,
      EndTail, EndNeverLost, ActiveTasks, MonitorDecides, ShouldPause, feed,
      tasks, queue, trainer
<1>6. (CountCovers /\ RoomToReceive /\ BudgetPlusOne)'
    BY <1>1, <1>2, Concurrency DEF TypeOK, Locks, CountedIsActive,
      CountCovers, RoomToReceive, BudgetPlusOne, InSystem, Generated, Held,
      ActiveTasks, MonitorDecides, ShouldPause, feed, tasks, queue, trainer
<1> QED
    BY <1>3, <1>4, <1>5, <1>6 DEF IInv

\* The monitor resumes.
LEMMA MonitorResumesKeeps ==
    ASSUME IInv, MonitorResumes
    PROVE  IInv'
<1>1. TypeOK /\ Locks /\ CountedIsActive /\ CountCovers /\ RoomToReceive
    BY DEF IInv
<1>2. BudgetPlusOne /\ SlotsRespected /\ EndTail /\ NoFailure /\ EndNeverLost
    BY DEF IInv
<1>3. TypeOK'
    BY <1>1, SizeAssumption DEF TypeOK, MonitorResumes, feed, tasks, queue,
      trainer, MaxQueueSize, Size
<1>4. (Locks /\ CountedIsActive /\ NoFailure)'
    BY <1>1, <1>2 DEF TypeOK, Locks, CountedIsActive, NoFailure, ActiveTasks,
      MonitorResumes, feed, tasks, queue, trainer
<1>5. (SlotsRespected /\ EndTail /\ EndNeverLost)'
    BY <1>1, <1>2, Concurrency DEF TypeOK, Locks, NoFailure, SlotsRespected,
      EndTail, EndNeverLost, ActiveTasks, MonitorResumes, feed, tasks, queue,
      trainer
<1>6. (CountCovers /\ RoomToReceive /\ BudgetPlusOne)'
    BY <1>1, <1>2, Concurrency DEF TypeOK, Locks, CountedIsActive,
      CountCovers, RoomToReceive, BudgetPlusOne, InSystem, Generated, Held,
      ActiveTasks, MonitorResumes, feed, tasks, queue, trainer
<1> QED
    BY <1>3, <1>4, <1>5, <1>6 DEF IInv

\* A sample the trainer takes stays in the budget.
LEMMA TakeSampleKeeps ==
    ASSUME IInv, TakeSample
    PROVE  IInv'
<1>1. TypeOK /\ Locks /\ CountedIsActive /\ CountCovers /\ RoomToReceive
    BY DEF IInv
<1>2. BudgetPlusOne /\ SlotsRespected /\ EndTail /\ NoFailure /\ EndNeverLost
    BY DEF IInv
<1>3. mq \in Queues /\ Size(mq) <= MaxRequiredSamples
    BY <1>1, QueueTyped DEF TypeOK, MaxQueueSize
<1>4. /\ mq' \in Queues /\ mq'.end = mq.end /\ mq'.behind = mq.behind
      /\ mq'.ahead = mq.ahead - 1 /\ Size(mq)' <= MaxRequiredSamples
    BY <1>3, Concurrency DEF TakeSample, Queues, Size
<1>5. TypeOK'
    BY <1>1, <1>3, <1>4, SizeAssumption DEF TypeOK, TakeSample, feed, tasks,
      monitor, MaxQueueSize, Queues
<1>6. (Locks /\ CountedIsActive /\ NoFailure)'
    BY <1>1, <1>2, <1>3, <1>4 DEF TypeOK, Locks, CountedIsActive, NoFailure,
      ActiveTasks, TakeSample, feed, tasks, monitor, Queues
<1>7. (SlotsRespected /\ EndTail /\ EndNeverLost)'
    BY <1>1, <1>2, <1>3, <1>4, Concurrency DEF TypeOK, Locks, NoFailure,
      SlotsRespected, EndTail, EndNeverLost, ActiveTasks, TakeSample, feed,
      tasks, monitor, Queues
<1>8. (CountCovers /\ RoomToReceive /\ BudgetPlusOne)'
    BY <1>1, <1>2, <1>3, <1>4, Concurrency DEF TypeOK, Locks, CountedIsActive,
      CountCovers, RoomToReceive, BudgetPlusOne, InSystem, Generated, Held,
      ActiveTasks, TakeSample, feed, tasks, monitor, Queues
<1> QED
    BY <1>5, <1>6, <1>7, <1>8 DEF IInv

\* The end signal reaches the trainer.
LEMMA TakeEndKeeps ==
    ASSUME IInv, TakeEnd
    PROVE  IInv'
<1>1. TypeOK /\ Locks /\ CountedIsActive /\ CountCovers /\ RoomToReceive
    BY DEF IInv
<1>2. BudgetPlusOne /\ SlotsRespected /\ EndTail /\ NoFailure /\ EndNeverLost
    BY DEF IInv
<1>3. mq \in Queues /\ Size(mq) <= MaxRequiredSamples
    BY <1>1, QueueTyped DEF TypeOK, MaxQueueSize
<1>4. /\ mq' \in Queues /\ mq'.end = "taken" /\ mq'.behind = 0
      /\ mq'.ahead = mq.behind /\ mq.ahead = 0
      /\ Size(mq)' <= MaxRequiredSamples
    BY <1>3, Concurrency DEF TakeEnd, GetEnd, Queues, Size
<1>5. TypeOK'
    BY <1>1, <1>3, <1>4, SizeAssumption DEF TypeOK, TakeEnd, feed, tasks,
      monitor, MaxQueueSize, Queues
<1>6. (Locks /\ CountedIsActive /\ NoFailure)'
    BY <1>1, <1>2, <1>3, <1>4 DEF TypeOK, Locks, CountedIsActive, NoFailure,
      ActiveTasks, TakeEnd, feed, tasks, monitor, Queues
<1>7. (SlotsRespected /\ EndTail /\ EndNeverLost)'
    BY <1>1, <1>2, <1>3, <1>4, Concurrency DEF TypeOK, Locks, NoFailure,
      SlotsRespected, EndTail, EndNeverLost, ActiveTasks, TakeEnd, feed,
      tasks, monitor, Queues
<1>8. (CountCovers /\ RoomToReceive /\ BudgetPlusOne)'
    BY <1>1, <1>2, <1>3, <1>4, Concurrency DEF TypeOK, Locks, CountedIsActive,
      CountCovers, RoomToReceive, BudgetPlusOne, InSystem, Generated, Held,
      ActiveTasks, TakeEnd, feed, tasks, monitor, Queues
<1> QED
    BY <1>5, <1>6, <1>7, <1>8 DEF IInv

\* The trainer trains.
LEMMA LocalStepKeeps ==
    ASSUME IInv, LocalStep
    PROVE  IInv'
<1>1. TypeOK /\ Locks /\ CountedIsActive /\ CountCovers /\ RoomToReceive
    BY DEF IInv
<1>2. BudgetPlusOne /\ SlotsRespected /\ EndTail /\ NoFailure /\ EndNeverLost
    BY DEF IInv
<1>3. TypeOK'
    BY <1>1, SizeAssumption DEF TypeOK, LocalStep, feed, tasks, monitor,
      queue, MaxQueueSize, Size
<1>4. (Locks /\ CountedIsActive /\ NoFailure)'
    BY <1>1, <1>2 DEF TypeOK, Locks, CountedIsActive, NoFailure, ActiveTasks,
      LocalStep, feed, tasks, monitor, queue
<1>5. (SlotsRespected /\ EndTail /\ EndNeverLost)'
    BY <1>1, <1>2, Concurrency DEF TypeOK, Locks, NoFailure, SlotsRespected,
      EndTail, EndNeverLost, ActiveTasks, LocalStep, feed, tasks, monitor,
      queue
<1>6. (CountCovers /\ RoomToReceive /\ BudgetPlusOne)'
    BY <1>1, <1>2, Concurrency DEF TypeOK, Locks, CountedIsActive,
      CountCovers, RoomToReceive, BudgetPlusOne, InSystem, Generated, Held,
      ActiveTasks, LocalStep, feed, tasks, monitor, queue
<1> QED
    BY <1>3, <1>4, <1>5, <1>6 DEF IInv

\* The last update is due.
LEMMA FinalUpdateKeeps ==
    ASSUME IInv, FinalUpdate
    PROVE  IInv'
<1>1. TypeOK /\ Locks /\ CountedIsActive /\ CountCovers /\ RoomToReceive
    BY DEF IInv
<1>2. BudgetPlusOne /\ SlotsRespected /\ EndTail /\ NoFailure /\ EndNeverLost
    BY DEF IInv
<1>3. TypeOK'
    BY <1>1, SizeAssumption DEF TypeOK, FinalUpdate, feed, tasks, monitor,
      queue, MaxQueueSize, Size
<1>4. (Locks /\ CountedIsActive /\ NoFailure)'
    BY <1>1, <1>2 DEF TypeOK, Locks, CountedIsActive, NoFailure, ActiveTasks,
      FinalUpdate, feed, tasks, monitor, queue
<1>5. (SlotsRespected /\ EndTail /\ EndNeverLost)'
    BY <1>1, <1>2, Concurrency DEF TypeOK, Locks, NoFailure, SlotsRespected,
      EndTail, EndNeverLost, ActiveTasks, FinalUpdate, feed, tasks, monitor,
      queue
<1>6. (CountCovers /\ RoomToReceive /\ BudgetPlusOne)'
    BY <1>1, <1>2, Concurrency DEF TypeOK, Locks, CountedIsActive,
      CountCovers, RoomToReceive, BudgetPlusOne, InSystem, Generated, Held,
      ActiveTasks, FinalUpdate, feed, tasks, monitor, queue
<1> QED
    BY <1>3, <1>4, <1>5, <1>6 DEF IInv

\* The last update is not due.
LEMMA NoFinalUpdateKeeps ==
    ASSUME IInv, NoFinalUpdate
    PROVE  IInv'
<1>1. TypeOK /\ Locks /\ CountedIsActive /\ CountCovers /\ RoomToReceive
    BY DEF IInv
<1>2. BudgetPlusOne /\ SlotsRespected /\ EndTail /\ NoFailure /\ EndNeverLost
    BY DEF IInv
<1>3. TypeOK'
    BY <1>1, SizeAssumption DEF TypeOK, NoFinalUpdate, feed, tasks, monitor,
      queue, MaxQueueSize, Size
<1>4. (Locks /\ CountedIsActive /\ NoFailure)'
    BY <1>1, <1>2 DEF TypeOK, Locks, CountedIsActive, NoFailure, ActiveTasks,
      NoFinalUpdate, feed, tasks, monitor, queue
<1>5. (SlotsRespected /\ EndTail /\ EndNeverLost)'
    BY <1>1, <1>2, Concurrency DEF TypeOK, Locks, NoFailure, SlotsRespected,
      EndTail, EndNeverLost, ActiveTasks, NoFinalUpdate, feed, tasks, monitor,
      queue
<1>6. (CountCovers /\ RoomToReceive /\ BudgetPlusOne)'
    BY <1>1, <1>2, Concurrency DEF TypeOK, Locks, CountedIsActive,
      CountCovers, RoomToReceive, BudgetPlusOne, InSystem, Generated, Held,
      ActiveTasks, NoFinalUpdate, feed, tasks, monitor, queue
<1> QED
    BY <1>3, <1>4, <1>5, <1>6 DEF IInv

\* The reset counts the active tasks under the lock.
LEMMA ResetBeginsKeeps ==
    ASSUME IInv, ResetBegins
    PROVE  IInv'
<1>1. TypeOK /\ Locks /\ CountedIsActive /\ CountCovers /\ RoomToReceive
    BY DEF IInv
<1>2. BudgetPlusOne /\ SlotsRespected /\ EndTail /\ NoFailure /\ EndNeverLost
    BY DEF IInv
<1>3. ActiveTasks \in Nat
    BY <1>1 DEF TypeOK, ActiveTasks
<1>4. TypeOK'
    BY <1>1, <1>3, SizeAssumption DEF TypeOK, ResetBegins, feed, tasks,
      monitor, queue, MaxQueueSize, Size
<1>5. (Locks /\ CountedIsActive /\ NoFailure)'
    BY <1>1, <1>2, <1>3 DEF TypeOK, Locks, CountedIsActive, NoFailure,
      ActiveTasks, ResetBegins, feed, tasks, monitor, queue
<1>6. (SlotsRespected /\ EndTail /\ EndNeverLost)'
    BY <1>1, <1>2, <1>3, Concurrency DEF TypeOK, Locks, NoFailure,
      SlotsRespected, EndTail, EndNeverLost, ActiveTasks, ResetBegins, feed,
      tasks, monitor, queue
<1>7. (CountCovers /\ RoomToReceive /\ BudgetPlusOne)'
    BY <1>1, <1>2, <1>3, Concurrency DEF TypeOK, Locks, CountedIsActive,
      CountCovers, RoomToReceive, BudgetPlusOne, InSystem, Generated, Held,
      ActiveTasks, ResetBegins, feed, tasks, monitor, queue
<1> QED
    BY <1>4, <1>5, <1>6, <1>7 DEF IInv

\* The new count covers all but a held sample.
LEMMA ResetEndsKeeps ==
    ASSUME IInv, ResetEnds
    PROVE  IInv'
<1>1. TypeOK /\ Locks /\ CountedIsActive /\ CountCovers /\ RoomToReceive
    BY DEF IInv
<1>2. BudgetPlusOne /\ SlotsRespected /\ EndTail /\ NoFailure /\ EndNeverLost
    BY DEF IInv
<1>3. /\ mq \in Queues /\ Size(mq) \in Nat
      /\ mq.ahead + mq.behind <= Size(mq)
    BY <1>1, QueueTyped DEF Queues, Size
<1>4. TypeOK'
    BY <1>1, <1>3, SizeAssumption DEF TypeOK, ResetEnds, feed, tasks, monitor,
      queue, MaxQueueSize, Size
<1>5. (Locks /\ CountedIsActive /\ NoFailure)'
    BY <1>1, <1>2, <1>3 DEF TypeOK, Locks, CountedIsActive, NoFailure,
      ActiveTasks, ResetEnds, feed, tasks, monitor, queue
<1>6. (SlotsRespected /\ EndTail /\ EndNeverLost)'
    BY <1>1, <1>2, <1>3, Concurrency DEF TypeOK, Locks, NoFailure,
      SlotsRespected, EndTail, EndNeverLost, ActiveTasks, ResetEnds, feed,
      tasks, monitor, queue
<1>7. (CountCovers /\ RoomToReceive /\ BudgetPlusOne)'
    BY <1>1, <1>2, <1>3, Concurrency DEF TypeOK, Locks, CountedIsActive,
      CountCovers, RoomToReceive, BudgetPlusOne, InSystem, Generated, Held,
      ActiveTasks, ResetEnds, feed, tasks, monitor, queue
<1> QED
    BY <1>4, <1>5, <1>6, <1>7 DEF IInv

-----------------------------------------------------------------------------
(* Theorems                                                                *)

\* Every step keeps the invariant.
LEMMA NextKeeps ==
    ASSUME IInv, [Next]_vars
    PROVE  IInv'
<1>1. CASE Processor
    BY <1>1, CheckKeeps, DecideKeeps, PauseKeeps, ReapKeeps, ResumeKeeps,
       ReceiveKeeps, SubmitKeeps, WaitForTaskKeeps, TaskAwaitedKeeps,
       AllDoneKeeps, SignalEndKeeps DEF Processor
<1>2. CASE Monitor
    BY <1>2, MonitorAsksKeeps, MonitorDecidesKeeps, MonitorResumesKeeps
       DEF Monitor
<1>3. CASE Trainer
    BY <1>3, TakeSampleKeeps, TakeEndKeeps, LocalStepKeeps, FinalUpdateKeeps,
       NoFinalUpdateKeeps, ResetBeginsKeeps, ResetEndsKeeps DEF Trainer
<1>4. CASE UNCHANGED vars
  <2>1. TypeOK'
    BY <1>4 DEF IInv, TypeOK, vars, feed, tasks, monitor, queue, trainer, Size
  <2>2. (Locks /\ CountedIsActive /\ NoFailure /\ EndTail /\ EndNeverLost)'
    BY <1>4 DEF IInv, Locks, CountedIsActive, NoFailure, EndTail, EndNeverLost,
      ActiveTasks, vars, feed, tasks, monitor, queue, trainer
  <2>3. (CountCovers /\ RoomToReceive /\ BudgetPlusOne /\ SlotsRespected)'
    BY <1>4 DEF IInv, CountCovers, RoomToReceive, BudgetPlusOne, SlotsRespected,
      InSystem, Generated, Held, ActiveTasks, vars, feed, tasks, monitor, queue,
      trainer
  <2> QED
    BY <2>1, <2>2, <2>3 DEF IInv
<1> QED
    BY <1>1, <1>2, <1>3, <1>4, FeedKeeps, TaskReturnsKeeps, TaskRaisesKeeps
       DEF Next

\* The invariant holds at every step of every behaviour.
THEOREM Invariant == Spec => []IInv
<1>1. Init => IInv
    BY InitHolds
<1>2. IInv /\ [Next]_vars => IInv'
    BY NextKeeps
<1> QED
    BY <1>1, <1>2, PTL DEF Spec

\* The counters of rollouter, queue and trainer keep their types, and the
\* message queue never outgrows its size.
THEOREM TypeCorrect == Spec => []TypeOK
<1>1. IInv => TypeOK
    BY DEF IInv
<1> QED
    BY <1>1, Invariant, PTL

\* Between two parameter updates the rollouter exceeds its budget by one
\* sample at most, however its coroutines interleave with reset_staleness.
THEOREM BudgetExceededByOne == Spec => []BudgetPlusOne
<1>1. IInv => BudgetPlusOne
    BY DEF IInv
<1> QED
    BY <1>1, Invariant, PTL

\* No full queue ever drops the end signal, and it follows every sample when
\* no generation failed.
THEOREM EndArrives == Spec => []EndArrivesLast
<1>1. IInv => EndIsLast
    BY DEF IInv, NoFailure, EndIsLast
<1>2. IInv => EndNeverLost
    BY DEF IInv
<1>3. IInv => EndArrivesLast
    BY <1>1, <1>2 DEF EndArrivesLast
<1> QED
    BY <1>3, Invariant, PTL

-----------------------------------------------------------------------------
(* Drops are rare.                                                         *)

\* The parameter versions whose reset is over: the version grows before the
\* reset that belongs to it, and the last update of a run grows none.
Era ==
    IF train \in {"sync", "reset"} /\ mq.end # "taken" THEN version - 1
                                                       ELSE version

\* The samples a version has to answer for, the dropped ones included: a drop
\* only moves a sample from InSystem to dropped.
Total == InSystem + used + dropped

\* DropsAreRare says nothing about the room in the queue.  A sample too many
\* enters once per reset, and only that sample can be the one to drop: so the
\* bound on all samples, and what the processor knows of it in each phase,
\* grow with the era.
DropsInv ==
    /\ train = "final" => mq.end = "taken"
    /\ Total <= MaxRequiredSamples + Era
    /\ proc # "over" => Total <= staleness + Era
    /\ proc \in {"get", "ending", "endwait", "finished"} =>
            Total <= MaxRequiredSamples - 1 + Era
    /\ dropped <= Era + (IF proc = "over" /\ failures > 0 THEN 1 ELSE 0)

\* What the arithmetic needs of IInv.
LEMMA CountersTyped ==
    ASSUME IInv
    PROVE  /\ running \in Nat /\ returned \in Nat /\ broken \in Nat
           /\ failures \in Nat /\ staleness \in Nat /\ counted \in Nat
           /\ mq.ahead \in Nat /\ mq.behind \in Nat
           /\ mq.end \in {"none", "queued", "taken"}
           /\ dropped \in Nat /\ version \in Nat /\ used \in Nat
           /\ MaxRequiredSamples \in Nat /\ MaxRequiredSamples >= 1
           /\ mq.end = "none" <=> proc # "over"
           /\ mq.end # "queued" => mq.behind = 0
           /\ proc = "crashed" => failures > 0
           /\ proc = "over" /\ running > 0 => failures > 0
BY Concurrency DEF IInv, TypeOK, EndTail, NoFailure, EndNeverLost

\* A full queue holds MaxRequiredSamples items.
LEMMA DropCount ==
    ASSUME IInv, CountDrop
    PROVE  \/ dropped' = dropped
           \/ /\ dropped' = dropped + 1
              /\ mq.ahead + mq.behind + (IF mq.end = "queued" THEN 1 ELSE 0)
                    >= MaxRequiredSamples
BY CountersTyped DEF CountDrop, Full, Size, MaxQueueSize

\* How many samples a put leaves in the queue.
LEMMA PutMoves ==
    ASSUME IInv, running > 0, CountDrop
    PROVE  /\ PutSample(mq) \in Queues
           /\ PutSample(mq).end = mq.end
           /\ PutSample(mq).ahead + PutSample(mq).behind + dropped'
                = mq.ahead + mq.behind + 1 + dropped
<1>1. mq \in Queues /\ Size(mq) <= MaxRequiredSamples
    BY QueueTyped DEF IInv, TypeOK, MaxQueueSize
<1>2. /\ mq.end = "queued" => mq.behind + 2 <= MaxRequiredSamples
      /\ mq.end # "queued" => mq.behind = 0
    BY <1>1, Concurrency DEF IInv, EndTail, TypeOK, Queues
<1>3. PutSample(mq) \in Queues /\ PutSample(mq).end = mq.end
    BY <1>1, <1>2, PutKeeps
<1>4. dropped \in Nat
    BY CountersTyped
<1>5. CASE ~Full(mq)
    BY <1>1, <1>4, <1>5 DEF PutSample, Room, CountDrop, Queues
<1>6. CASE Full(mq)
  <2>1. mq.ahead > 0
    BY <1>1, <1>2, <1>6, Concurrency DEF Full, Queues, Size, MaxQueueSize
  <2>2. Room(mq) = [mq EXCEPT !.ahead = @ - 1]
    BY <1>6, <2>1 DEF Room
  <2>3. PutSample(mq) = IF mq.end = "queued"
                        THEN [mq EXCEPT !.ahead = @ - 1, !.behind = @ + 1]
                        ELSE [mq EXCEPT !.ahead = @ - 1 + 1]
    BY <1>1, <2>2 DEF PutSample, Queues
  <2>4. PutSample(mq).ahead + PutSample(mq).behind = mq.ahead + mq.behind
    BY <1>1, <2>1, <2>3 DEF Queues
  <2>5. dropped' = dropped + 1
    BY <1>6 DEF CountDrop
  <2> QED
    BY <1>1, <1>3, <1>4, <2>4, <2>5 DEF Queues
<1> QED
    BY <1>3, <1>5, <1>6

\* The end signal pushes out one sample or none.
LEMMA EndMoves ==
    ASSUME IInv, CountDrop, proc # "over"
    PROVE  /\ PutEnd(mq) \in Queues
           /\ PutEnd(mq).end = "queued"
           /\ PutEnd(mq).ahead + PutEnd(mq).behind + dropped'
                = mq.ahead + mq.behind + dropped
<1>1. mq \in Queues /\ Size(mq) <= MaxRequiredSamples
    BY QueueTyped DEF IInv, TypeOK, MaxQueueSize
<1>2. mq.end = "none" /\ mq.behind = 0 /\ dropped \in Nat
    BY CountersTyped
<1>3. PutEnd(mq) \in Queues /\ PutEnd(mq).end = "queued"
    BY <1>1, <1>2, PutEndKeeps
<1>4. CASE ~Full(mq)
    BY <1>1, <1>2, <1>4 DEF PutEnd, Room, CountDrop, Queues
<1>5. CASE Full(mq)
  <2>1. mq.ahead > 0
    BY <1>1, <1>2, <1>5, Concurrency DEF Full, Queues, Size, MaxQueueSize
  <2>2. Room(mq) = [mq EXCEPT !.ahead = @ - 1]
    BY <1>5, <2>1 DEF Room
  <2>3. /\ PutEnd(mq).ahead = mq.ahead - 1
        /\ PutEnd(mq).behind = mq.behind
    BY <1>1, <2>2 DEF PutEnd, Queues
  <2>4. dropped' = dropped + 1
    BY <1>5 DEF CountDrop
  <2> QED
    BY <1>1, <1>2, <1>3, <2>3, <2>4 DEF Queues
<1> QED
    BY <1>3, <1>4, <1>5

LEMMA NextDrops ==
    ASSUME IInv, DropsInv, [Next]_vars
    PROVE  DropsInv'
<1> USE CountersTyped
<1> USE DEF DropsInv, Era, Total, InSystem, Generated, Held
<1>1. CASE Feed
    BY <1>1 DEF Feed, feed, tasks, monitor, queue, trainer
<1>2. CASE TaskRaises
    BY <1>2 DEF TaskRaises, feed, tasks, monitor, queue, trainer
<1>3. CASE Check
    BY <1>3 DEF Check, feed, tasks, monitor, queue, trainer
<1>4. CASE Pause
    BY <1>4 DEF Pause, feed, tasks, monitor, queue, trainer
<1>5. CASE Reap
    BY <1>5 DEF Reap, feed, tasks, monitor, queue, trainer
<1>6. CASE Resume
    BY <1>6 DEF Resume, feed, tasks, monitor, queue, trainer
<1>7. CASE Receive
    BY <1>7 DEF Receive, feed, tasks, monitor, queue, trainer
<1>8. CASE Submit
    BY <1>8 DEF Submit, feed, tasks, monitor, queue, trainer
<1>9. CASE WaitForTask
    BY <1>9 DEF WaitForTask, feed, tasks, monitor, queue, trainer
<1>10. CASE TaskAwaited
    BY <1>10 DEF TaskAwaited, feed, tasks, monitor, queue, trainer
<1>11. CASE AllDone
    BY <1>11 DEF AllDone, feed, tasks, monitor, queue, trainer
<1>12. CASE MonitorAsks
    BY <1>12 DEF MonitorAsks, feed, tasks, monitor, queue, trainer
<1>13. CASE MonitorDecides
    BY <1>13 DEF MonitorDecides, ShouldPause, feed, tasks, monitor, queue, trainer
<1>14. CASE MonitorResumes
    BY <1>14 DEF MonitorResumes, feed, tasks, monitor, queue, trainer
<1>15. CASE LocalStep
    BY <1>15 DEF LocalStep, feed, tasks, monitor, queue, trainer
<1>16. CASE FinalUpdate
    BY <1>16 DEF FinalUpdate, feed, tasks, monitor, queue, trainer
<1>17. CASE NoFinalUpdate
    BY <1>17 DEF NoFinalUpdate, feed, tasks, monitor, queue, trainer
<1>18. CASE ResetBegins
    BY <1>18 DEF ResetBegins, feed, tasks, monitor, queue, trainer
<1>19. CASE Decide
  <2>1. staleness < MaxRequiredSamples \/ proc' # "get"
    BY <1>19 DEF Decide, ShouldPause
  <2> QED
    BY <1>19, <2>1 DEF Decide, feed, tasks, monitor, queue, trainer
<1>20. CASE TaskReturns
  <2>1. /\ mq'.end = mq.end /\ mq'.ahead \in Nat /\ mq'.behind \in Nat
        /\ mq'.ahead + mq'.behind + dropped' = mq.ahead + mq.behind + 1 + dropped
    BY <1>20, PutMoves DEF TaskReturns, Queues
  <2>2. \/ dropped' = dropped
        \/ /\ dropped' = dropped + 1
           /\ mq.ahead + mq.behind + (IF mq.end = "queued" THEN 1 ELSE 0)
                >= MaxRequiredSamples
    BY <1>20, DropCount DEF TaskReturns
  <2>3. /\ running > 0 /\ running' = running - 1
        /\ UNCHANGED <<proc, failures, staleness, train, version, used>>
    BY <1>20 DEF TaskReturns, feed, monitor, trainer
  <2>4. Era' = Era /\ Era \in Int
    BY <2>1, <2>3
  <2>5. Total' = Total /\ Total \in Nat
    BY <2>1, <2>2, <2>3
  <2>6. dropped' <= Era + (IF proc = "over" /\ failures > 0 THEN 1 ELSE 0)
    <3>1. CASE dropped' = dropped
        BY <3>1
    <3>2. CASE dropped' = dropped + 1
      <4>1. CASE mq.end = "queued"
        <5>1. failures > 0 /\ proc = "over"
            BY <2>3, <4>1
        <5>2. dropped <= Era
            BY <2>2, <2>3, <2>4, <3>2, <4>1
        <5> QED
            BY <2>4, <3>2, <5>1, <5>2
      <4>2. CASE mq.end # "queued"
        BY <2>2, <2>3, <2>4, <3>2, <4>2
      <4> QED
        BY <4>1, <4>2
    <3> QED
        BY <2>2, <3>1, <3>2
  <2> QED
    BY <2>1, <2>3, <2>4, <2>5, <2>6
<1>21. CASE SignalEnd
  <2>0. /\ proc \in {"finished", "crashed"} /\ CountDrop /\ mq' = PutEnd(mq)
        /\ proc' = "over" /\ UNCHANGED <<running, failures, train, version, used>>
    BY <1>21 DEF SignalEnd, feed, tasks, monitor, trainer
  <2>1. /\ mq'.end = "queued" /\ mq'.ahead \in Nat /\ mq'.behind \in Nat
        /\ mq'.ahead + mq'.behind + dropped' = mq.ahead + mq.behind + dropped
    BY <2>0, EndMoves DEF Queues
  <2>2. \/ dropped' = dropped
        \/ dropped' = dropped + 1 /\ mq.ahead + mq.behind >= MaxRequiredSamples
    BY <2>0, DropCount
  <2>3. Era' = Era /\ Era \in Int /\ train # "final"
    BY <2>0, <2>1
  <2>4. Total' = Total /\ Total \in Nat
    BY <2>0, <2>1, <2>2
  <2>5. dropped' <= Era + (IF failures > 0 THEN 1 ELSE 0)
    <3>1. CASE dropped' = dropped
        BY <2>0, <2>3, <3>1
    <3>2. CASE proc = "finished" /\ dropped' = dropped + 1
        BY <2>2, <2>3, <3>2
    <3>3. CASE proc = "crashed" /\ dropped' = dropped + 1
        BY <2>2, <2>3, <3>3
    <3> QED
        BY <2>0, <2>2, <3>1, <3>2, <3>3
  <2> QED
    BY <2>0, <2>1, <2>3, <2>4, <2>5
<1>22. CASE TakeSample
  <2>1. mq'.ahead = mq.ahead - 1 /\ mq'.behind = mq.behind /\ mq'.end = mq.end
    BY <1>22, QueueTyped DEF TakeSample, IInv, Queues
  <2> QED
    BY <1>22, <2>1 DEF TakeSample, feed, tasks, monitor
<1>23. CASE TakeEnd
  <2>1. mq'.ahead = mq.behind /\ mq'.behind = 0 /\ mq'.end = "taken" /\ mq.ahead = 0
    BY <1>23 DEF TakeEnd, GetEnd
  <2>2. proc = "over"
    BY <1>23 DEF TakeEnd
  <2> QED
    BY <1>23, <2>1, <2>2 DEF TakeEnd, feed, tasks, monitor
<1>24. CASE ResetEnds
  <2>1. /\ train = "reset" /\ staleness' = counted + Size(mq) /\ used' = 0
        /\ UNCHANGED <<proc, running, failures, mq, dropped, version>>
        /\ train' = IF mq.end = "taken" THEN "done" ELSE "collect"
    BY <1>24 DEF ResetEnds, feed, tasks, monitor, queue
  <2>2. Size(mq) \in Nat /\ Size(mq) >= mq.ahead + mq.behind
    BY DEF Size
  <2>3. counted >= running
    BY <2>1 DEF IInv, CountedIsActive, ActiveTasks
  <2>4. /\ Era' = version /\ Era <= version
        /\ mq.end # "taken" => Era = version - 1
    BY <2>1
  <2>5. Total' = InSystem + dropped /\ Total' <= Total /\ InSystem \in Nat
    BY <2>1
  <2>6. ASSUME proc # "over" PROVE Total' <= staleness' + Era'
    <3>1. dropped + 1 <= version
        BY <2>4, <2>6
    <3>2. InSystem <= running + mq.ahead + mq.behind + 1
        OBVIOUS
    <3>3. InSystem <= staleness' + 1
        BY <2>1, <2>2, <2>3, <3>2
    <3>4. staleness' \in Nat
        BY <2>1, <2>2
    <3> QED
        BY <2>4, <2>5, <3>1, <3>3, <3>4
  <2> QED
    BY <2>1, <2>4, <2>5, <2>6
<1>25. CASE UNCHANGED vars
    BY <1>25 DEF vars, feed, tasks, monitor, queue, trainer
<1> QED
    BY <1>1, <1>2, <1>3, <1>4, <1>5, <1>6, <1>7, <1>8, <1>9, <1>10, <1>11, <1>12, <1>13, <1>14, <1>15, <1>16, <1>17, <1>18, <1>19, <1>20, <1>21, <1>22, <1>23, <1>24, <1>25 DEF Next, Processor,
       Monitor, Trainer

\* A full queue drops a sample at most once per parameter version, or once
\* for a generation that failed: for every batch size, synchronization step,
\* staleness threshold and number of replicas.
THEOREM DropsRare == Spec => []DropsAreRare
<1>1. Init => DropsInv
    BY Concurrency DEF Init, DropsInv, Era, Total, InSystem, Generated, Held
<1>2. IInv /\ DropsInv /\ [Next]_vars => DropsInv'
    BY NextDrops
<1>3. IInv /\ DropsInv => DropsAreRare
    BY CountersTyped DEF DropsInv, Era, DropsAreRare
<1> QED
    BY <1>1, <1>2, <1>3, Invariant, PTL DEF Spec
=============================================================================

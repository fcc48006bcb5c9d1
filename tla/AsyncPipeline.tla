--------------------------- MODULE AsyncPipeline ---------------------------
(***************************************************************************)
(* Fully asynchronous training: FullyAsyncRollouter generates samples,     *)
(* MessageQueue carries them, FullyAsyncTrainer trains on them, and every  *)
(* SyncStep local steps the trainer pushes its weights and resets the      *)
(* rollouter's staleness count.                                            *)
(*                                                                         *)
(* The rollouter is one event loop: its coroutines (feed, processor, one   *)
(* task per sample, monitor, and the reset_staleness the trainer calls)    *)
(* interleave at their awaits, and self.lock is held across some of them.  *)
(* Samples are interchangeable here, so pools of samples are counters.     *)
(*                                                                         *)
(* External: the replicas that generate a sample, or fail to; they always  *)
(* answer.  Left out: validation, checkpoints, metrics.                    *)
(***************************************************************************)
EXTENDS Integers

CONSTANTS
    TotalRolloutSteps,  \* samples fed before the end signal
    RequiredSamples,    \* samples per trainer batch
    SyncStep,           \* trigger_parameter_sync_step
    MaxRequiredSamples, \* int(RequiredSamples * (staleness_threshold + 1) * SyncStep)
    ReplicaSlots,       \* 16 for each replica
    PendingSize,        \* capacity of pending_queue, 128 in the code
    MaxFailures         \* bound: generations that raise

PerSync == RequiredSamples * SyncStep

ASSUME SizeAssumption ==
    /\ TotalRolloutSteps \in Nat \ {0}
    /\ RequiredSamples \in Nat \ {0}
    /\ SyncStep \in Nat \ {0}
    /\ ReplicaSlots \in Nat \ {0}
    /\ PendingSize \in Nat \ {0}
    /\ MaxFailures \in Nat
ASSUME ThresholdAssumption ==
    MaxRequiredSamples \in Nat \ {0} /\ MaxRequiredSamples >= PerSync

\* The mutant sizes the queue for one batch of the trainer.
MaxQueueOfOneBatch == RequiredSamples
MaxQueueSize == MaxRequiredSamples

MaxConcurrentSamples ==
    IF ReplicaSlots < MaxRequiredSamples THEN ReplicaSlots ELSE MaxRequiredSamples

VARIABLES
    fed,        \* items put into pending_queue; the last one is the end signal
    taken,      \* items the processor got from it
    proc,       \* where the processor stands
    seenFull,   \* its (possibly old) answer from the queue: it was full
    running,    \* tasks of active_tasks still generating
    returned,   \* tasks of active_tasks that returned and are not reaped
    broken,     \* tasks of active_tasks that raised and are not reaped
    failures,   \* generations that raised so far
    staleness,  \* staleness_samples
    paused,     \* paused; _resume_event is set exactly when it is FALSE
    lock,       \* who holds the rollouter's lock across an await
    counted,    \* len(active_tasks) as reset_staleness read it
    mon,        \* where the monitor loop stands
    monFull,    \* the monitor's answer from the queue
    mq,         \* the message queue: samples ahead of and behind the end signal
    dropped,    \* dropped_samples
    train,      \* where the trainer stands
    batch,      \* samples collected for the next batch
    local,      \* local_trigger_step
    version,    \* current_param_version
    used        \* history: samples the trainer took since the last reset

feed == <<fed, taken>>
tasks == <<running, returned, broken, failures>>
monitor == <<mon, monFull>>
queue == <<mq, dropped>>
trainer == <<train, batch, local, version, used>>
vars == <<feed, proc, seenFull, tasks, staleness, paused, lock, counted,
          monitor, queue, trainer>>

ActiveTasks == running + returned + broken

\* Samples handed out and not yet taken by the trainer, the one the processor
\* holds between pending_queue and active_tasks included.
Held == IF proc \in {"hold", "slotwait"} THEN 1 ELSE 0
Generated == running + mq.ahead + mq.behind
InSystem == Generated + Held

Init ==
    /\ fed = 0 /\ taken = 0
    /\ proc = "check" /\ seenFull = FALSE
    /\ running = 0 /\ returned = 0 /\ broken = 0 /\ failures = 0
    /\ staleness = 0 /\ paused = FALSE
    /\ lock = "free" /\ counted = 0
    /\ mon = "idle" /\ monFull = FALSE
    /\ mq = [ahead |-> 0, behind |-> 0, end |-> "none"] /\ dropped = 0
    /\ train = "collect" /\ batch = 0 /\ local = 1 /\ version = 0
    /\ used = 0

-----------------------------------------------------------------------------
(* MessageQueue: every method runs under the actor's own lock              *)

Size(q) == q.ahead + q.behind + (IF q.end = "queued" THEN 1 ELSE 0)
Full(q) == Size(q) >= MaxQueueSize

Room(q) ==
    IF ~Full(q) THEN q
    ELSE IF q.ahead > 0 THEN [q EXCEPT !.ahead = @ - 1]
    ELSE [ahead |-> q.behind, behind |-> 0, end |-> "lost"]

PutSample(q) ==
    IF Room(q).end = "queued" THEN [Room(q) EXCEPT !.behind = @ + 1]
    ELSE [Room(q) EXCEPT !.ahead = @ + 1]

PutEnd(q) == [Room(q) EXCEPT !.end = "queued"]

GetEnd(q) == [ahead |-> q.behind, behind |-> 0, end |-> "taken"]

CountDrop == dropped' = dropped + (IF Full(mq) THEN 1 ELSE 0)

-----------------------------------------------------------------------------
(* The rollouter's feed, tasks and processor                               *)

\* _feed_samples: one more sample, or after the last one the end signal.
Feed ==
    /\ fed <= TotalRolloutSteps
    /\ fed - taken < PendingSize
    /\ proc # "over"
    /\ fed' = fed + 1
    /\ UNCHANGED <<taken, proc, seenFull, tasks, staleness, paused, lock,
                   counted, monitor, queue, trainer>>

\* _process_single_sample_streaming: the sample is generated and put.
TaskReturns ==
    /\ running > 0
    /\ running' = running - 1
    /\ returned' = returned + 1
    /\ mq' = PutSample(mq)
    /\ CountDrop
    /\ UNCHANGED <<feed, proc, seenFull, broken, failures, staleness, paused,
                   lock, counted, monitor, trainer>>

TaskRaises ==
    /\ running > 0
    /\ failures < MaxFailures
    /\ running' = running - 1
    /\ broken' = broken + 1
    /\ failures' = failures + 1
    /\ UNCHANGED <<feed, proc, seenFull, returned, staleness, paused, lock,
                   counted, monitor, queue, trainer>>

\* _should_pause_generation asks the queue, and compares after the answer.
Check ==
    /\ proc = "check"
    /\ seenFull' = Full(mq)
    /\ proc' = IF paused THEN "pausing" ELSE "asked"
    /\ UNCHANGED <<feed, tasks, staleness, paused, lock, counted, monitor,
                   queue, trainer>>

\* The mutant lets one sample more out.
ShouldPauseLate(isFull) == isFull \/ staleness > MaxRequiredSamples
ShouldPause(isFull) == isFull \/ staleness >= MaxRequiredSamples

Decide ==
    /\ proc = "asked"
    /\ proc' = IF ShouldPause(seenFull) THEN "pausing" ELSE "get"
    /\ UNCHANGED <<feed, seenFull, tasks, staleness, paused, lock, counted,
                   monitor, queue, trainer>>

Pause ==
    /\ proc = "pausing"
    /\ lock = "free"
    /\ paused' = TRUE
    /\ proc' = "drain"
    /\ UNCHANGED <<feed, seenFull, tasks, staleness, lock, counted, monitor,
                   queue, trainer>>

\* The drain reaps the tasks that were done when asyncio.wait returned, which
\* need not be all that are done once the lock is acquired.
Reap ==
    /\ proc = "drain"
    /\ lock = "free"
    /\ \E r \in 0..returned, b \in 0..broken :
          /\ r + b > 0
          /\ returned' = returned - r
          /\ broken' = broken - b
          /\ proc' = IF b > 0 THEN "crashed" ELSE "drain"
    /\ UNCHANGED <<feed, seenFull, running, failures, staleness, paused, lock,
                   counted, monitor, queue, trainer>>

Resume ==
    /\ proc = "drain"
    /\ ~paused
    /\ proc' = "check"
    /\ UNCHANGED <<feed, seenFull, tasks, staleness, paused, lock, counted,
                   monitor, queue, trainer>>

\* pending_queue.get: the count grows without the lock, also for the end signal.
\* The mutant counts a sample only once it is submitted, and so never here.
ReceiveUncounted ==
    /\ proc = "get"
    /\ taken < fed
    /\ taken' = taken + 1
    /\ proc' = IF taken = TotalRolloutSteps THEN "ending" ELSE "hold"
    /\ UNCHANGED <<fed, seenFull, tasks, staleness, paused, lock, counted,
                   monitor, queue, trainer>>

Receive ==
    /\ proc = "get"
    /\ taken < fed
    /\ taken' = taken + 1
    /\ staleness' = staleness + 1
    /\ proc' = IF taken = TotalRolloutSteps THEN "ending" ELSE "hold"
    /\ UNCHANGED <<fed, seenFull, tasks, paused, lock, counted, monitor,
                   queue, trainer>>

Submit ==
    /\ proc = "hold"
    /\ ActiveTasks < MaxConcurrentSamples
    /\ ~paused
    /\ lock = "free"
    /\ running' = running + 1
    /\ proc' = "check"
    /\ UNCHANGED <<feed, seenFull, returned, broken, failures, staleness,
                   paused, lock, counted, monitor, queue, trainer>>

\* Too many tasks, or the end signal: wait for a task with the lock held.
WaitForTask ==
    /\ lock = "free"
    /\ \/ /\ proc = "hold"
          /\ ActiveTasks >= MaxConcurrentSamples
          /\ proc' = "slotwait"
       \/ /\ proc = "ending"
          /\ ActiveTasks > 0
          /\ proc' = "endwait"
    /\ lock' = "processor"
    /\ UNCHANGED <<feed, seenFull, tasks, staleness, paused, counted, monitor,
                   queue, trainer>>

TaskAwaited ==
    /\ proc \in {"slotwait", "endwait"}
    /\ returned + broken > 0
    /\ returned' = 0
    /\ broken' = 0
    /\ lock' = "free"
    /\ proc' = IF broken > 0 THEN "crashed"
               ELSE IF proc = "slotwait" THEN "hold" ELSE "ending"
    /\ UNCHANGED <<feed, seenFull, running, failures, staleness, paused,
                   counted, monitor, queue, trainer>>

AllDone ==
    /\ proc = "ending"
    /\ ActiveTasks = 0
    /\ proc' = "finished"
    /\ UNCHANGED <<feed, seenFull, tasks, staleness, paused, lock, counted,
                   monitor, queue, trainer>>

\* The finally of _streaming_generation_main, after the processor returned or
\* raised.  The mutant sends the end signal after a normal return only.
SignalEndUnlessRaised ==
    /\ proc = "finished"
    /\ mq' = PutEnd(mq)
    /\ CountDrop
    /\ proc' = "over"
    /\ UNCHANGED <<feed, seenFull, tasks, staleness, paused, lock, counted,
                   monitor, trainer>>

SignalEnd ==
    /\ proc \in {"finished", "crashed"}
    /\ mq' = PutEnd(mq)
    /\ CountDrop
    /\ proc' = "over"
    /\ UNCHANGED <<feed, seenFull, tasks, staleness, paused, lock, counted,
                   monitor, trainer>>

-----------------------------------------------------------------------------
(* _async_monitor_loop                                                     *)

MonitorAsks ==
    /\ mon = "idle"
    /\ proc # "over"
    /\ paused
    /\ monFull' = Full(mq)
    /\ mon' = "asked"
    /\ UNCHANGED <<feed, proc, seenFull, tasks, staleness, paused, lock,
                   counted, queue, trainer>>

MonitorDecides ==
    /\ mon = "asked"
    /\ mon' = IF ShouldPause(monFull) THEN "idle" ELSE "resume"
    /\ UNCHANGED <<feed, proc, seenFull, tasks, staleness, paused, lock,
                   counted, monFull, queue, trainer>>

\* The mutant only logs that it resumes.
MonitorOnlyLogs ==
    /\ mon = "resume"
    /\ lock = "free"
    /\ mon' = "idle"
    /\ UNCHANGED <<feed, proc, seenFull, tasks, staleness, paused, lock,
                   counted, monFull, queue, trainer>>

MonitorResumes ==
    /\ mon = "resume"
    /\ lock = "free"
    /\ paused' = FALSE
    /\ mon' = "idle"
    /\ UNCHANGED <<feed, proc, seenFull, tasks, staleness, lock, counted,
                   monFull, queue, trainer>>

-----------------------------------------------------------------------------
(* The trainer, and the reset_staleness it calls on the rollouter          *)

\* _get_samples_from_queue
TakeSample ==
    /\ train = "collect"
    /\ batch < RequiredSamples
    /\ mq.ahead > 0
    /\ mq' = [mq EXCEPT !.ahead = @ - 1]
    /\ batch' = batch + 1
    /\ used' = used + 1
    /\ UNCHANGED <<feed, proc, seenFull, tasks, staleness, paused, lock,
                   counted, monitor, dropped, train, local, version>>

TakeEnd ==
    /\ train = "collect"
    /\ batch < RequiredSamples
    /\ mq.ahead = 0
    /\ mq.end = "queued"
    /\ mq' = GetEnd(mq)
    /\ train' = "final"
    /\ UNCHANGED <<feed, proc, seenFull, tasks, staleness, paused, lock,
                   counted, monitor, dropped, batch, local, version, used>>

\* The rest of fit_step: train on the batch and advance the local step.
LocalStep ==
    /\ train = "collect"
    /\ batch = RequiredSamples
    /\ batch' = 0
    /\ IF local < SyncStep
       THEN local' = local + 1 /\ UNCHANGED <<train, version>>
       ELSE local' = 1 /\ version' = version + 1 /\ train' = "sync"
    /\ UNCHANGED <<feed, proc, seenFull, tasks, staleness, paused, lock,
                   counted, monitor, queue, used>>

\* After the last fit_step: a last update, unless the test frequency divides
\* the version or a local step is open (_fit_update_weights returns early).
FinalUpdate ==
    /\ train = "final"
    /\ local = 1
    /\ train' = "sync"
    /\ UNCHANGED <<feed, proc, seenFull, tasks, staleness, paused, lock,
                   counted, monitor, queue, batch, local, version, used>>

NoFinalUpdate ==
    /\ train = "final"
    /\ train' = "done"
    /\ UNCHANGED <<feed, proc, seenFull, tasks, staleness, paused, lock,
                   counted, monitor, queue, batch, local, version, used>>

\* reset_staleness up to its await: resume, and count the active tasks.
ResetBegins ==
    /\ train = "sync"
    /\ lock = "free"
    /\ lock' = "reset"
    /\ paused' = FALSE
    /\ counted' = ActiveTasks
    /\ train' = "reset"
    /\ UNCHANGED <<feed, proc, seenFull, tasks, staleness, monitor, queue,
                   batch, local, version, used>>

\* And after it.
ResetEnds ==
    /\ train = "reset"
    /\ staleness' = counted + Size(mq)
    /\ lock' = "free"
    /\ used' = 0
    /\ train' = IF mq.end = "taken" THEN "done" ELSE "collect"
    /\ UNCHANGED <<feed, proc, seenFull, tasks, paused, counted, monitor,
                   queue, batch, local, version>>

-----------------------------------------------------------------------------

Processor ==
    \/ Check \/ Decide \/ Pause \/ Reap \/ Resume \/ Receive \/ Submit
    \/ WaitForTask \/ TaskAwaited \/ AllDone \/ SignalEnd

Monitor == MonitorAsks \/ MonitorDecides \/ MonitorResumes

Trainer ==
    \/ TakeSample \/ TakeEnd \/ LocalStep \/ FinalUpdate \/ NoFinalUpdate
    \/ ResetBegins \/ ResetEnds

Next == Feed \/ TaskReturns \/ TaskRaises \/ Processor \/ Monitor \/ Trainer

Spec == Init /\ [][Next]_vars

\* Every coroutine is scheduled, every generation ends, the trainer trains.
\* The lock is never taken back forever: only finitely many samples exist.
FairSpec ==
    /\ Spec
    /\ WF_vars(Feed)
    /\ WF_vars(TaskReturns)
    /\ WF_vars(Processor)
    /\ WF_vars(Monitor)
    /\ WF_vars(Trainer)

-----------------------------------------------------------------------------
(* Properties                                                              *)

\* Every variable keeps its type, and the queue (a deque with a maxlen, whose
\* drops are counted) never outgrows max_queue_size.
TypeOK ==
    /\ fed \in 0..(TotalRolloutSteps + 1) /\ taken \in 0..fed
    /\ proc \in {"check", "asked", "pausing", "drain", "get", "hold", "slotwait",
                 "ending", "endwait", "finished", "crashed", "over"}
    /\ seenFull \in BOOLEAN /\ monFull \in BOOLEAN /\ paused \in BOOLEAN
    /\ running \in Nat /\ returned \in Nat /\ broken \in Nat
    /\ failures \in 0..MaxFailures
    /\ staleness \in Nat /\ counted \in Nat
    /\ lock \in {"free", "processor", "reset"}
    /\ mon \in {"idle", "asked", "resume"}
    /\ mq \in [ahead : Nat, behind : Nat, end : {"none", "queued", "taken", "lost"}]
    /\ Size(mq) <= MaxQueueSize
    /\ dropped \in Nat
    /\ train \in {"collect", "sync", "reset", "final", "done"}
    /\ batch \in 0..RequiredSamples /\ local \in 1..SyncStep
    /\ version \in Nat /\ used \in Nat

\* What the trainer took since the last parameter update and what waits for it
\* exceed max_required_samples by one sample at most: the one the processor
\* holds while reset_staleness overwrites the count.  Everything else that
\* races with the reset (finishing tasks, an answer of the queue that is old,
\* the count's increment without the lock) only overcounts.
BudgetPlusOne == InSystem + used <= MaxRequiredSamples + 1

\* A full queue drops a sample at most once per parameter version, or once for
\* each generation that raised (put_sample: "rarely happens").
DropsAreRare == dropped <= version + failures

\* Without a failed generation, the end signal comes behind every sample.
EndIsLast ==
    failures = 0 /\ proc = "over" => running = 0 /\ mq.behind = 0

\* The end signal is never the oldest item a full queue drops.
EndNeverLost == mq.end # "lost"

\* The end signal reaches the trainer, behind everything it has to train on:
\* the tasks a failed processor leaves behind are too few to push it out of a
\* full queue, and without a failure the trainer has seen every sample first.
EndArrivesLast == EndIsLast /\ EndNeverLost

\* A rollouter that is paused although its staleness allows more samples is
\* resumed, also when the pause raced with the reset: the monitor sees to it.
PauseRecovered ==
    (paused /\ staleness < MaxRequiredSamples)
        ~> (~paused \/ proc \in {"crashed", "over"})

\* Once the processor ends, normally or not, training ends.
EndEndsTraining == proc \in {"finished", "crashed", "over"} ~> train = "done"

\* The training ends.  It does not when the finished samples reset_staleness
\* counted as stale leave the rollouter fewer than the trainer needs.
TrainingEnds == <>(train = "done")
=============================================================================

--------------------------- MODULE ReplayBuffer ---------------------------
(***************************************************************************)
(* The synchronous trainer of verl/trainer/main_ppo_sync.py and its replay *)
(* buffer: how the trajectories that background tasks put into             *)
(* TransferQueue reach the batch of the step they were generated for.      *)
(*                                                                         *)
(* Three kinds of actors run at the same time.  The agent loop workers run *)
(* one task per prompt, and one per session of it, that put their results  *)
(* into the queue.  The poll thread reads the tags of the whole queue and, *)
(* later and under the buffer's lock, adds them to the buffer, partition   *)
(* after partition.  The trainer marks the prompts of a round as running   *)
(* in the buffer, starts them, samples until none is running, uses the     *)
(* batch, and clears it from the queue and then from the buffer; a batch   *)
(* it trained on only after the validation of the same step.               *)
(*                                                                         *)
(* TransferQueue is external: a put, a clear and a listing of its tags are *)
(* atomic.  The sleeps between polls and between samples are left out; the *)
(* outputs of one session are put together, so they are one entry.         *)
(***************************************************************************)
EXTENDS Integers, FiniteSets, Sequences

CONSTANTS
    PromptCount,    \* prompts in a batch of the data loader
    N,              \* rollout.n, the sessions of a prompt
    Schedule,       \* the rounds of the run: [part, step] in order
    Remax,          \* adv_estimator is ReMax: a greedy baseline per prompt
    BatchMultiple,  \* what _get_required_batch_multiple returns
    MaxFailures     \* bound: sessions, puts and polls that raise

ASSUME PromptAssumption ==
    PromptCount \in Nat /\ N \in Nat /\ MaxFailures \in Nat
ASSUME MultipleAssumption == BatchMultiple \in Nat \ {0}
ASSUME RemaxAssumption == Remax \in BOOLEAN
ASSUME ScheduleAssumption ==
    Schedule \in Seq([part : {"train", "val"}, step : Nat])

Prompt == 1..PromptCount
Round == DOMAIN Schedule
Part == {"train", "val"}

(***************************************************************************)
(* The keys of an entry: session 0 is the prompt's own entry (its uid),    *)
(* the others are its trajectories.  Padding has a uid of its own.         *)
(***************************************************************************)
Kinds(r) == IF Remax /\ Schedule[r].part = "train"
            THEN {"sampled", "baseline"} ELSE {"sampled"}
SessionsOf(kind) == IF kind = "baseline" THEN 1..1 ELSE 1..N
Uid == [round : Round, prompt : Prompt, kind : {"sampled", "baseline"},
        session : {0}]
UidsOf(r) == {u \in Uid : u.round = r /\ u.kind \in Kinds(r)}
Trajectories(u) == {[u EXCEPT !.session = s] : s \in SessionsOf(u.kind)}
UidOf(k) == [k EXCEPT !.session = 0]
Session == UNION {Trajectories(u) : u \in Uid}
Padding(r) == [round : {r}, prompt : {0}, kind : {"padding"},
               session : 1..(BatchMultiple - 1)]
Key == Uid \union Session \union UNION {Padding(r) : r \in Round}

PartOf(k) == Schedule[k.round].part
StepOf(k) == Schedule[k.round].step

Absent == "absent"
Tag == {"running", "success", "finished", "failure", Absent}
NoEntries == [k \in Key |-> Absent]

VARIABLES
    queue,      \* the status tag of every key stored in TransferQueue
    buffer,     \* ReplayBuffer.partitions
    snapshot,   \* what the poll thread has read and not added yet
    adding,     \* the partitions of the snapshot it has still to add
    session,    \* the task of every session
    prompt,     \* the task of every prompt
    pc,         \* where the trainer is
    round,      \* the round it works on
    batch,      \* the keys of the batch it sampled
    kept,       \* those of the batch it trained on, while it validates
    failures    \* bound: failures so far

poller == <<snapshot, adding>>
workers == <<session, prompt>>
trainer == <<pc, round, batch, kept>>
bufferVars == <<queue, buffer, poller, workers, trainer, failures>>

Stopped == {"done", "raised", "exited"}

BufferInit ==
    /\ queue = NoEntries
    /\ buffer = NoEntries
    /\ snapshot = NoEntries
    /\ adding = {}
    /\ session = [k \in Session |-> "idle"]
    /\ prompt = [u \in Uid |-> "idle"]
    /\ pc = IF Schedule = <<>> THEN "done" ELSE "mark"
    /\ round = 1
    /\ batch = {}
    /\ kept = {}
    /\ failures = 0

Put(keys, status) == [k \in Key |-> IF k \in keys THEN status ELSE queue[k]]
Cleared(keys) == [k \in Key |-> IF k \in keys THEN Absent ELSE queue[k]]
Removed(keys) == [k \in Key |-> IF k \in keys THEN Absent ELSE buffer[k]]

-----------------------------------------------------------------------------
(* The poll thread                                                         *)

\* tq.kv_list(): the tags of every key, in one answer.
PollRead ==
    /\ pc # "exited"
    /\ adding = {}
    /\ snapshot' = queue
    /\ adding' = {p \in Part : \E k \in Key :
                      PartOf(k) = p /\ queue[k] # Absent}
    /\ UNCHANGED <<queue, buffer, workers, trainer, failures>>

\* The mutant lets go of the lock between two entries.
PollAddOne(p) ==
    /\ pc # "exited"
    /\ p \in adding
    /\ \E k \in Key :
        /\ PartOf(k) = p
        /\ snapshot[k] # Absent
        /\ buffer' = [buffer EXCEPT ![k] = snapshot[k]]
        /\ snapshot' = [snapshot EXCEPT ![k] = Absent]
        /\ adding' = IF \E j \in Key \ {k} : PartOf(j) = p
                                             /\ snapshot[j] # Absent
                     THEN adding ELSE adding \ {p}
    /\ UNCHANGED <<queue, workers, trainer, failures>>

\* ReplayBuffer.add of one partition's items, under the lock.
PollAdd(p) ==
    /\ pc # "exited"
    /\ p \in adding
    /\ buffer' = [k \in Key |->
                     IF PartOf(k) = p /\ snapshot[k] # Absent
                     THEN snapshot[k] ELSE buffer[k]]
    /\ adding' = adding \ {p}
    /\ snapshot' = IF adding = {p} THEN NoEntries ELSE snapshot
    /\ UNCHANGED <<queue, workers, trainer, failures>>

\* A poll that raises ends the process.
PollRaises ==
    /\ pc \notin Stopped
    /\ adding = {}
    /\ failures < MaxFailures
    /\ failures' = failures + 1
    /\ pc' = "exited"
    /\ UNCHANGED <<queue, buffer, poller, workers, round, batch, kept>>

-----------------------------------------------------------------------------
(* The agent loop workers                                                  *)

\* A session ends and its trajectories are in the queue.
SessionPuts(k) ==
    /\ session[k] = "running"
    /\ session' = [session EXCEPT ![k] = "put"]
    /\ queue' = Put({k}, "success")
    /\ UNCHANGED <<buffer, poller, prompt, trainer, failures>>

\* The agent loop gave no output: nothing is put, nothing is raised.
SessionIsEmpty(k) ==
    /\ session[k] = "running"
    /\ failures < MaxFailures
    /\ failures' = failures + 1
    /\ session' = [session EXCEPT ![k] = "empty"]
    /\ UNCHANGED <<queue, buffer, poller, prompt, trainer>>

SessionRaises(k) ==
    /\ session[k] = "running"
    /\ failures < MaxFailures
    /\ failures' = failures + 1
    /\ session' = [session EXCEPT ![k] = "failed"]
    /\ UNCHANGED <<queue, buffer, poller, prompt, trainer>>

Ended(u) == \A k \in Trajectories(u) : session[k] \in {"put", "empty"}

\* asyncio.gather has returned.
PromptFinishes(u) ==
    /\ prompt[u] = "running"
    /\ Ended(u)
    /\ prompt' = [prompt EXCEPT ![u] = "finished"]
    /\ queue' = Put({u}, "finished")
    /\ UNCHANGED <<buffer, poller, session, trainer, failures>>

\* The mutant only logs.
PromptFailsQuietly(u) ==
    /\ prompt[u] = "running"
    /\ \E k \in Trajectories(u) : session[k] = "failed"
    /\ prompt' = [prompt EXCEPT ![u] = "failure"]
    /\ UNCHANGED <<queue, buffer, poller, session, trainer, failures>>

\* gather raises with the first session that does; the others run on.
PromptFails(u) ==
    /\ prompt[u] = "running"
    /\ \E k \in Trajectories(u) : session[k] = "failed"
    /\ prompt' = [prompt EXCEPT ![u] = "failure"]
    /\ queue' = Put({u}, "failure")
    /\ UNCHANGED <<buffer, poller, session, trainer, failures>>

\* The put of "finished" raises, and the handler puts "failure".
FinishedPutRaises(u) ==
    /\ prompt[u] = "running"
    /\ Ended(u)
    /\ failures < MaxFailures
    /\ failures' = failures + 1
    /\ prompt' = [prompt EXCEPT ![u] = "failure"]
    /\ queue' = Put({u}, "failure")
    /\ UNCHANGED <<buffer, poller, session, trainer>>

\* The put of "failure" raises, after a session did, or because TransferQueue
\* takes neither of the two: the status of the prompt is lost.
FailurePutRaises(u) ==
    /\ prompt[u] = "running"
    /\ Ended(u) \/ \E k \in Trajectories(u) : session[k] = "failed"
    /\ failures < MaxFailures
    /\ failures' = failures + 1
    /\ prompt' = [prompt EXCEPT ![u] = "lost"]
    /\ UNCHANGED <<queue, buffer, poller, session, trainer>>

-----------------------------------------------------------------------------
(* The trainer                                                             *)

Goto(from, to) == pc = from /\ pc' = to

\* AgentLoopManagerTQ.generate_sequences: the buffer knows of the prompts ...
MarkPending ==
    /\ Goto("mark", "start")
    /\ buffer' = [k \in Key |->
                     IF k \in UidsOf(round) THEN "running" ELSE buffer[k]]
    /\ UNCHANGED <<queue, poller, workers, round, batch, kept, failures>>

\* ... before the workers create their tasks.
StartPrompts ==
    /\ Goto("start", "sample")
    /\ prompt' = [u \in Uid |->
                     IF u \in UidsOf(round) THEN "running" ELSE prompt[u]]
    /\ session' = [k \in Session |->
                      IF UidOf(k) \in UidsOf(round) THEN "running"
                      ELSE session[k]]
    /\ UNCHANGED <<queue, buffer, poller, round, batch, kept, failures>>

\* The mutant takes every finished trajectory of the partition.
MatchingAnyStep == {k \in Key : PartOf(k) = Schedule[round].part}

\* The entries of the round's partition that carry its global_steps.
Matching == {k \in Key : /\ PartOf(k) = Schedule[round].part
                         /\ StepOf(k) = Schedule[round].step}

\* The mutant takes what there is.
SampleNow ==
    /\ Goto("sample", "use")
    /\ batch' = {k \in Matching : buffer[k] = "success"}
    /\ UNCHANGED <<queue, buffer, poller, workers, round, kept, failures>>

\* ReplayBuffer.sample returns.
Sample ==
    /\ \A k \in Matching : buffer[k] # "running"
    /\ Goto("sample", "use")
    /\ batch' = {k \in Matching : buffer[k] = "success"}
    /\ UNCHANGED <<queue, buffer, poller, workers, round, kept, failures>>

Baselines == {k \in batch : k.kind = "baseline"}
Sampled == {k \in batch : k.kind = "sampled"}
NeedsBaselines == Remax /\ Schedule[round].part = "train"

\* _validate reads the batch.
ReadBatch ==
    /\ Schedule[round].part = "val"
    /\ Goto("use", "clear")
    /\ UNCHANGED <<queue, buffer, poller, workers, round, batch, kept, failures>>

NextInTraining == IF NeedsBaselines THEN "baselines" ELSE "pad"

TrainBegins ==
    /\ Schedule[round].part = "train"
    /\ Goto("use", NextInTraining)
    /\ UNCHANGED <<queue, buffer, poller, workers, round, batch, kept, failures>>

HasBaseline(k) == \E b \in Baselines : b.prompt = k.prompt

\* _add_remax_reward_baselines: the baselines leave the queue ...
ClearBaselines ==
    /\ Baselines # {} /\ Sampled # {}
    /\ \A k \in Sampled : HasBaseline(k)
    /\ Goto("baselines", "forget")
    /\ queue' = Cleared(Baselines)
    /\ UNCHANGED <<buffer, poller, workers, round, batch, kept, failures>>

\* ... and the buffer, and the batch goes on without them.
ForgetBaselines ==
    /\ Goto("forget", "pad")
    /\ buffer' = Removed(Baselines)
    /\ batch' = Sampled
    /\ UNCHANGED <<queue, poller, workers, round, kept, failures>>

PadSize == LET rest == Cardinality(batch) % BatchMultiple
           IN  IF rest = 0 THEN 0 ELSE BatchMultiple - rest
Pads == {k \in Padding(round) : k.session <= PadSize}

\* The mutant pads the batch it trains on and not the one it cleans up.
PadAside ==
    /\ batch # {}
    /\ Goto("pad", "clear")
    /\ queue' = Put(Pads, "success")
    /\ UNCHANGED <<buffer, poller, workers, round, batch, kept, failures>>

\* _balance_batch: padding is put into the queue like any trajectory.
Pad ==
    /\ batch # {}
    /\ Goto("pad", "clear")
    /\ queue' = Put(Pads, "success")
    /\ batch' = batch \union Pads
    /\ UNCHANGED <<buffer, poller, workers, round, kept, failures>>

\* No baseline (an assertion) or nothing sampled, or no baseline for a sampled
\* trajectory; without ReMax, an empty batch, which cannot be partitioned.
CannotTrain ==
    \/ /\ pc = "baselines"
       /\ \/ Baselines = {} \/ Sampled = {}
          \/ \E k \in Sampled : ~HasBaseline(k)
    \/ pc = "pad" /\ batch = {}

StepRaises ==
    /\ CannotTrain
    /\ pc' = "raised"
    /\ UNCHANGED <<queue, buffer, poller, workers, round, batch, kept, failures>>

\* The next round is a validation of the same step.
ValidatesNext ==
    /\ round < Len(Schedule)
    /\ Schedule[round + 1] = [part |-> "val", step |-> Schedule[round].step]

NextRound ==
    /\ pc' = IF round = Len(Schedule) THEN "done" ELSE "mark"
    /\ round' = IF round = Len(Schedule) THEN round ELSE round + 1

\* fit validates before it cleans up the batch it trained on.
KeepBatch ==
    /\ pc = "clear"
    /\ Schedule[round].part = "train" /\ ValidatesNext
    /\ kept' = batch
    /\ batch' = {}
    /\ NextRound
    /\ UNCHANGED <<queue, buffer, poller, workers, failures>>

\* The cleanup: tq.kv_clear ...
Clear ==
    /\ ~(Schedule[round].part = "train" /\ ValidatesNext)
    /\ Goto("clear", "remove")
    /\ queue' = Cleared(batch)
    /\ UNCHANGED <<buffer, poller, workers, round, batch, kept, failures>>

\* ... then ReplayBuffer.remove, and the next round, unless this was the last
\* validation of a step that trained.
RemoveBatch ==
    /\ pc = "remove"
    /\ buffer' = Removed(batch)
    /\ batch' = {}
    /\ IF kept = {} \/ ValidatesNext
       THEN NextRound
       ELSE pc' = "clear kept" /\ UNCHANGED round
    /\ UNCHANGED <<queue, poller, workers, kept, failures>>

\* Back in fit: the metrics are computed, and the training batch is cleaned up.
ClearKept ==
    /\ Goto("clear kept", "remove kept")
    /\ queue' = Cleared(kept)
    /\ UNCHANGED <<buffer, poller, workers, round, batch, kept, failures>>

RemoveKept ==
    /\ pc = "remove kept"
    /\ buffer' = Removed(kept)
    /\ kept' = {}
    /\ NextRound
    /\ UNCHANGED <<queue, poller, workers, batch, failures>>

-----------------------------------------------------------------------------

PollStep == PollRead \/ \E p \in Part : PollAdd(p)
SessionStep(k) == SessionPuts(k) \/ SessionIsEmpty(k) \/ SessionRaises(k)
PromptStep(u) ==
    \/ PromptFinishes(u) \/ PromptFails(u)
    \/ FinishedPutRaises(u) \/ FailurePutRaises(u)
TrainerStep ==
    \/ MarkPending \/ StartPrompts \/ Sample \/ ReadBatch \/ TrainBegins
    \/ ClearBaselines \/ ForgetBaselines
    \/ Pad \/ StepRaises
    \/ KeepBatch \/ Clear \/ RemoveBatch \/ ClearKept \/ RemoveKept

BufferNext ==
    \/ PollStep \/ PollRaises
    \/ \E k \in Session : SessionStep(k)
    \/ \E u \in Uid : PromptStep(u)
    \/ TrainerStep

BufferSpec == BufferInit /\ [][BufferNext]_bufferVars

\* Threads and tasks are scheduled, and the agent loops of AgentLoop.tla end.
Fairness ==
    /\ WF_bufferVars(PollRead) /\ \A p \in Part : WF_bufferVars(PollAdd(p))
    /\ \A k \in Session : WF_bufferVars(SessionStep(k))
    /\ \A u \in Uid : WF_bufferVars(PromptStep(u))
    /\ WF_bufferVars(TrainerStep)

FairSpec == BufferSpec /\ Fairness

-----------------------------------------------------------------------------
(* Properties                                                              *)

TrainerStates == {"mark", "start", "sample", "use", "baselines", "forget",
                  "pad", "clear", "remove", "clear kept", "remove kept"}
                 \union Stopped

\* Every variable has its type.
BufferTypes ==
    /\ queue \in [Key -> Tag]
    /\ buffer \in [Key -> Tag]
    /\ snapshot \in [Key -> Tag]
    /\ adding \in SUBSET Part
    /\ session \in [Session -> {"idle", "running", "put", "empty", "failed"}]
    /\ prompt \in [Uid -> {"idle", "running", "finished", "failure", "lost"}]
    /\ pc \in TrainerStates
    /\ round \in Nat
    /\ batch \in SUBSET Key
    /\ kept \in SUBSET Key
    /\ failures \in 0..MaxFailures

\* The trainer is past the sample of its round.
HasBatch == pc \in {"use", "baselines", "forget", "pad", "clear", "remove"}

\* "wait until all prompts of this global steps have finished": when sample
\* returns, every prompt of the round has ended one way or the other.
SampleWaitsForAll ==
    HasBatch => \A u \in UidsOf(round) : prompt[u] \in {"finished", "failure"}

\* A prompt that finished has every trajectory it put in the batch that is
\* sampled, although the poll thread saw them one poll after another.
FinishedPromptComplete ==
    pc = "use" =>
        \A u \in UidsOf(round) : \A k \in Trajectories(u) :
            prompt[u] = "finished" /\ session[k] = "put" => k \in batch

\* What the trainer uses is still in the queue and was generated for this
\* round, although the poll thread may add what it read before a cleanup; and
\* while it validates, so is the batch it trained on at this step.
BatchStoredAndOwn ==
    /\ pc \in {"use", "baselines", "pad", "clear"} =>
        \A k \in batch : queue[k] = "success" /\ k.round = round
    /\ pc \notin Stopped \union {"remove kept"} =>
        \A k \in kept :
            /\ queue[k] = "success"
            /\ PartOf(k) = "train" /\ StepOf(k) = Schedule[round].step

\* After the cleanup of a round the queue keeps none of its trajectories,
\* baselines or padding, except those of a prompt that failed; only what was
\* trained on stays until the validation of its step has ended.
OnlyFailedPromptsLeft ==
    \A k \in Key :
        k.round < round /\ queue[k] = "success" =>
            \/ k \in Session /\ prompt[UidOf(k)] = "failure"
            \/ k \in kept

\* The run ends or the process does: no round waits forever for a prompt that
\* failed, gave nothing, or was reported before it was marked, but for one
\* whose failure could not be reported.
RunEnds == <>(pc \in Stopped \/ \E u \in Uid : prompt[u] = "lost")
=============================================================================

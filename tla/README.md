# A TLA+ verification of DualSearch

DualSearch trains a multimodal search agent by reinforcement learning. The
repository holds three bodies of code:

- `data/`: the programs that build the RL pool, the retrieval corpora, the SFT
  trajectories and the search indices, and publish each as a *generation* of
  files that vouch for each other by fingerprints;
- `dual_search/`: the protocol between policy and tools, the rollout loop that
  runs it, the search services, and the reward;
- `verl/`: the RL framework (a modified copy of verl), of which the project
  uses the trainers, the rollout servers with their load balancer, and,
  optionally, the fully asynchronous training pipeline.

The specifications are written against the code of this commit. Every
definition that models code is tied to source lines in `PROJECT.json` (`map`).

## 1. Inventory

| Part | State | Operations | Talks to | What is hard | What makes it correct |
|---|---|---|---|---|---|
| Rollout loop, `dual_search/llm_agent/dual_search_agent_loop.py` | tokens, loss mask, log probabilities of one rollout; turn and attempt counters; answer-only flag | generate, parse, execute a tool, render the observation, append, stop | load balancer (generation), search services (HTTP, 60 s timeout), protocol | six ways out of a loop that grows three lists side by side; truncation at two limits; log probabilities that come in some turns only | the lists stay aligned and mean what the trainer reads from them; budgets; termination |
| Protocol, `dual_search/protocol.py` | none | parse one generation, sanitize retrieved text, validate a whole trajectory | rollout, reward, SFT build | two readers of one language, one online and one afterwards; retrieved text inside the language | both readers agree; retrieved text is never read as protocol |
| Reward, `dual_search/reward/genrm_judge.py` | none between calls | format check, retrieval penalty, judge, total | protocol, judge model | the judge fails, times out or answers nonsense | credit only for an explicit verdict; right beats wrong |
| Format validator, `dual_search/reward/format_validator.py` | none | wrapper of the validator | protocol | nothing of its own | same answer as the protocol |
| RL build, `data/build_rl.py` | inputs, stage caches with manifests and markers, final files, staged files, backups; the pools and the corpus under construction | quotas, bans, selection, candidate scan, replacement; reuse check, publication with rollback | file system, later builds | inputs that change while they are read; death or failure between two renames; a cache that looks complete; bans that change the selection that caused them | what is reused is current; generations never mix; quotas kept, no excluded image in the corpus |
| SFT build, `data/build_sft.py` | the same, plus trajectories under construction | validate the RL generation, retrieve with retries, construct, split, publish, write the marker | search services, RL build | check then re-read; backups deleted in a `finally`; marker after the files | as above; no image in both splits |
| Index build, `data/build_index.py` | index directories, a generation record | embed, build, publish a set of directories, reuse | RL build, search services | a rollback over directories without error handling | consumers see whole generations |
| Search services, `dual_search/search/` | loaded indices, their fingerprints | text and image search, rank fusion, health | rollout, SFT build | index and corpus of different generations | what is served is what was fingerprinted |
| Load balancer, `verl/workers/rollout/llm_server.py` | in-flight counters, LRU routing cache, handles | acquire, release, add and remove servers | clients of all conversations; validation of the trainer | fire-and-forget releases, servers that leave and come back, eviction between two turns | routing into the pool; stickiness; counters that mean something |
| Synchronous trainer, `verl/trainer/main_ppo_sync.py` | TransferQueue, replay buffer, worker tasks, current batch | mark, start, put, poll, sample, pad, clear, remove | agent loop workers, a poll thread | a thread that adds old listings; prompts that fail in part; padding that must be removed with its batch | a batch is complete, stored and of its own step; no failure blocks the trainer |
| Asynchronous pipeline, `verl/experimental/fully_async_policy/` | pending queue, active tasks, staleness count, pause flag and event, lock; message queue; batch, local step, version | feed, process, generate, pause, resume, monitor, reset; put, get, drop; collect, train, update | one event loop per actor; Ray calls between rollouter, queue and trainer | a count updated with and without the lock, across awaits; a bounded queue that drops; two sides that wait for each other | bounded staleness; nothing lost at the end; nobody waits forever |
| Hybrid validation and interrupted generation, `fully_async_trainer.py`, `fully_async_rollouter.py`, `checkpoint_engine/base.py`, `vllm_async_server.py` | what every engine holds, its label and whether it is paused; pool; the calls on it and their pieces | update weights, abort, add, resume, validate, remove, sleep; generate in pieces | load balancer, engines | clients acquire between abort and remove; labels read when a piece returns; aborts that fail | no pool server sleeps; labels bracket tokens; the budget is kept; everything ends |
| Reward loop, `verl/experimental/reward_loop/` | token buckets, router state | rate-limited scoring | reward workers | waiting out the lock | the rate holds |
| Engines, models, checkpoint transfer, controllers, utilities, `verl/...` | tensors, optimizer, checkpoints | numerical work, remote calls in sequence | GPU workers | distribution of tensors | numerical, not a matter for a model checker |

How they interact: the builds produce files; the services load them; the
rollout loop calls the load balancer for every generation and the services for
every tool call, and parses with the protocol; the reward reads the decoded
trajectory with the same protocol module; a trainer, synchronous or not, starts
one rollout per sample and carries the result to a training step, whose weight
updates come back to the servers and, in the pipeline, as a reset of the
staleness count.

`PROJECT.json` lists every component with its status, and under `hazards` the
places of the code that are hard to test, each with the properties that would
notice if it went wrong.

## 2. Modules

| Module | Models | Theorems |
|---|---|---|
| `AgentLoop` | one rollout, turn by turn | `AgentLoopProofs` |
| `Dialogue` | the abstract promise of a rollout to the trainer; `MCAgentLoop` instantiates it | `AgentLoopProofs` |
| `Trajectory` | parser, sanitizer and validator of the protocol on one trajectory | `RewardProofs` |
| `Reward` (extends `Trajectory`) | the scoring of that trajectory | `RewardProofs` |
| `ArtifactPublish` | the RL build's publication of one set of files, again and again | `ArtifactPublishProofs` |
| `StageCache` | the RL build's fingerprints, caches and reuse | `DataBuildProofs` |
| `StagedPublish` | the SFT and index builds from fingerprint to reuse | `StagedPublishProofs` |
| `VouchedGeneration` | the abstract promise of `StagedPublish` to consumers | `StagedPublishProofs` |
| `TrainingData` | what the builds select: pools, corpus, SFT rows, split | `DataBuildProofs` |
| `LoadBalancer` | routing of conversations to servers | `RolloutServicesProofs` |
| `ReplayBuffer` | synchronous trainer, replay buffer and workers | `RolloutServicesProofs` |
| `AsyncPipeline` | rollouter, message queue and trainer | `AsyncPipelineProofs` |
| `HybridRollout` | weight updates, validation on shared GPUs, interrupted generation | `HybridRolloutProofs` |

`MC*` modules only hold vocabularies, schedules, symmetry sets and the
refinement. Operators whose comment calls them a *mutant* are deliberately
wrong versions of the operator they stand beside. Nothing in `Next` uses them;
substituting one shows which property notices (`mutants` in `PROJECT.json`).

### AgentLoop

State is that of `DualSearchAgentLoop.run`: the three lists, `assistant_turns`,
`answer_only_turn`, the counters of `extra_fields`. A token is a record of who
wrote it, in which turn and position; a log probability is the token it was
computed for. So "the mask is right" and "the log probability belongs here" are
statements about the state and not about lengths only. Each `await` is an
action boundary: `GenerateRaises`, `GenerateNothing` and the appending of a
generation (any length, cut at the action and at the remaining space, with or
without log probabilities, with too few of them), the tool execution with
success, failure and malformed calls, the rendering that can raise and the
appended observation.

External: the policy model and the services; a generation has at most
`GenMax` tokens and a tool text at most `ContentMax`.

- `agent_loop`: budget 2, nine tokens of response, observations up to four
  tokens, generations up to two. Both limits cut in every relation to each
  other: an observation fits, is cut by its own limit, by the response length,
  or not appended at all; all three turns (two tools, one answer-only) fit.
  `TrainerInputAligned` (lists of one length, the mask selects exactly the
  generated tokens, log probabilities sit at their own tokens),
  `BudgetAccounted` (every attempt is counted once, none over the budget),
  `AnswerOnlyTurnGranted`, `ToolResponsesWhole` (a tool response that lost its
  closing tag is the last thing in the response), `Termination`, and
  `ImplementsDialogue`: the rollout refines `Dialogue`, in which model and tool
  strictly alternate within the budgets and the mask follows the writer. The
  refinement maps the lists to a stream of (writer, trained) pairs and the
  program counter to whose turn it is.

Fairness: `WF_vars(Next)`. Generation is bounded by `max_tokens`, tool requests
have a timeout, and nothing in one rollout waits for another one.

### Trajectory and Reward

A trajectory is a sequence of symbols: the protocol's tags, payloads that are
valid or not, words, a *fragment* (the unterminated start of an old tag) and a
complete old tag. The two readers of `protocol.py` are written as they are in
the code: `parse_assistant_action` on one generation while the rollout runs,
`validate_sequence` on the whole text afterwards. `Generations` and `Documents`
are constants: the shapes of generations and retrieved texts.

- `trajectory`: up to two tool calls over 25 generations and five documents.
  `RewardAgreesWithRollout` and `JudgedAnswerIsTheAnswer` relate the two
  readers; both except, by name, the cases in which the readers differ (see
  *Observations*).
- `reward`: the eight attempts the protocol allows, three generations, every
  verdict, malformed output and exception of the judge.
  `CorrectOutscoresWrong` compares a trajectory with every wrong one there
  could be, so it needs the full budget of eight, at which the penalty is
  largest. `PaidOnlyForVerdict` says that only a parsed score of 1 pays.
  Amounts are scaled to integers.

### ArtifactPublish

`_ep_publish_artifact_set`, one file operation per step. Artifacts are
numbered in the order of the path table, the manifest last; the content of a
path is the number of its generation. Any operation may raise, also during the
rollback, whose own errors are collected like in the code; the process may die
before any operation, which leaves backups behind as orphans; then the next
build publishes into the same directory.

- `artifact_publish`: four files, three generations, three failing operations,
  two deaths. Four files give a first, a last, and two in the middle; three
  generations let a third build meet the remains of two different failures;
  three faults are one that starts a rollback and two inside it.
  `NewMarkerIsComplete`, `NeverMixed`, `CommittedSurvives`, and `OutcomeIsTrue`:
  a call that returns has published its whole generation, and one that raises
  the exception it met has restored what it found. A backup that cannot be
  removed at the end makes the call raise after everything was published
  (`outcome = "undiscarded"`); `OutcomeIsTrue` covers that outcome too.

No liveness is stated: the call is a loop over a finite table.

### StageCache

`build()` of `build_rl.py` with its three stages. The code compares inputs by
the hash of their content, so an input is its content, and a file the contents
it was made from: "this cache is current" is an equation. The fingerprint of
`build`, the second one a stage takes, and the reading of the input are
separate actions; an edit may come between any two steps and brings a new
content or one the input had before; the build may end between any two steps,
by an exception or a death. Abstracted: two files made from the same contents
are equal.

- `stage_cache`: three builds, two edits, two stops: enough for a stop that
  leaves a mixed cache, an edit before the next build (or an edit and its
  reversal, with builds around and between), and a third build that must
  notice. `SteadyBuildIsFresh`: a build during which nobody edits leaves files
  made of the inputs as they are, whatever it reused. `RefusedOnlyAfterEdit`:
  what `build` accepts as a cache, the next stage does not reject. Both except
  one case, `PutBack`: an input has the content again that it had when it was
  edited under a build. There both are false of the code (see *Observations*).
  The history variable `replaced` remembers these contents until `--force`
  removes every cache.

### StagedPublish and VouchedGeneration

`build_index.py` and `build_sft.py` publish in the same way, and `builder`
selects the two differences: the index marker is the last file of the batch,
the SFT marker is written afterwards. The RL generation is a set of files that
`build_rl.py` moves one by one at any time, aside, into place or back, since it
may have died or failed in its own publication before (`Move`). The builders
read it file by file: the manifest, the hash of each file, which the index
builder compares with the manifest at once and the SFT builder in two later
validations, and then every file again. Every one of these steps, and every
rename, removal and restoration, may raise; an interrupt (not an `Exception`)
skips the rollback and runs the `finally` that removes the backups; a kill
skips both.

Abstracted: one validation of the SFT builder compares all files in one step,
and both builders read the manifest first (the SFT builder hashes it fourth).
What interleaves with these loops are moves of the RL files, of which the
properties make a claim only for builds without any (`edited`, `disturbed`).

- `staged_publish`: two outputs and a marker, two files and a manifest of the
  RL generation, two such generations, three builds, two faults, two stops,
  four moves. Two faults are one in the publication and one in its rollback;
  four moves take one file away, put another generation's in its place and take
  it back, which is what a rolled back publication does to a file that was
  already read; the third build meets what two different ones left behind.
  `SteadyBuildIsFresh`: a build that returns while no file was moved leaves
  outputs of one build under the fingerprint of an RL generation that is whole;
  and that build read this generation only, unless a file was moved away under
  it (see *Observations*). `FailureRestores`, `CommittedSurvives` (an accepted
  generation is lost only by a rollback cut short), and `ConsumersSeeWhole`: the
  builder implements `VouchedGeneration`, in which whoever looks only at outputs
  their marker accepts sees whole generations, and never an older one after a
  newer one.

### TrainingData

The selection of `build_rl.py` and `build_sft.py`: the quotas with their
apportionment, the loop that bans categories with too few candidates and
selects again, the scan of the candidate images, the replacement of failed rows
from the reserve, the eligible SFT rows, and the split that keeps rows with a
common image together. A question is a candidate that passed the metadata
checks; an image's key and path are one to one; parent ids are unique, because
the deduplication's identity is a function of the parent's. Orders by hash are
any order, the quota matrix any with its two margins, percentages are exact
where the code has floats. The assertions the code makes are transitions into
the state `assertion`, so that "it never fires" can be checked. The scan goes
through a catalog by positions: what it looked at is a set of positions, what
is next the lowest position left.

The assumptions on the inputs are the code's own preconditions: a candidate
has at least as many images as a row may show, and a category with a configured
taxon (the metadata checks of `build_rl.py` drop every other row before
selection); the image key is the primary key of the catalog; the question types
are the keys of one table. The order of the candidates by hash is the order of
the numbers that stand for them, and any numbers may.

- `training_data`: seven questions, three categories, two taxa, two question
  types; images shared inside a category; any one question without evidence,
  any set of official images out of two, any one damaged file.
  `CorpusAsPromised` and `NoInternalError`.

### LoadBalancer

The actor runs one method at a time, so each method is an action: `acquire`
(sticky or new), `release`, `add_servers`, `remove_servers`. A client acquires,
generates, and sends a release nobody waits for; messages of one client stay in
order. Least recently used order of the cache is kept exactly.

- `load_balancer`: four conversations (symmetric), two permanent and one hybrid
  server, a cache of two: half the conversations are always evicted, and the
  hybrid server leaves and returns with generations out. `CacheCoherent`,
  `CountersHonest`, `StaysUnlessDisplaced`, `StandaloneBalanced`. The last one
  speaks of the permanent servers only: a hybrid server that returns counts as
  idle although generations are still out on it, so the server that is chosen
  is not always the one with the fewest requests in flight.

### ReplayBuffer

Workers (a task per prompt and one per session), the poll thread and the
trainer, around TransferQueue, which is external: a put, a clear and a listing
are atomic. The thread reads the whole queue in one step and adds it to the
buffer later, partition by partition, under the lock. Sessions may give nothing
or raise; a poll that raises ends the process. The put of "finished" may raise,
which makes the worker put "failure", and this put may raise as well, which
loses the prompt's status (`FailurePutRaises`, status `lost`).

A schedule is a sequence of training steps and validations. `fit` validates
before it cleans up the batch it trained on, so the keys of that batch stay in
`kept` while the rounds of the validation are sampled, read and cleaned up, and
leave queue and buffer after the last of them.

- `replay_buffer`: a training step with ReMax baselines, a validation of the
  same step, another training step; one prompt of two sessions; batches padded
  to multiples of three; one failure anywhere. One prompt suffices because
  prompts meet only in `Sample`, which waits for all; two steps and a validation
  are what a stale listing needs to survive a cleanup. With one failure both
  puts of a status raise for one cause (TransferQueue takes neither); a session
  that raises and then the put that reports it are two failures, which only the
  theorems cover. `SampleWaitsForAll`, `FinishedPromptComplete`,
  `BatchStoredAndOwn` (of the batch at hand and of the one that is kept),
  `OnlyFailedPromptsLeft`, and `RunEnds`, which excepts a lost status: the code
  then waits for ever (see *Observations*).

Fairness: weak fairness of the thread, each session, each prompt and the
trainer: they are tasks of running event loops, and an agent loop ends
(`Termination` of `AgentLoop`).

### AsyncPipeline

The rollouter is one event loop whose coroutines interleave at awaits. `proc`
is the position of `_processor_worker`; `lock` says who holds the rollouter's
lock across an await (the processor while it waits for a task, or
`reset_staleness` while it asks the queue for its size); lock sections without
an await are guards `lock = "free"` on a single action. The two round trips
whose answer may be old when it is used, `_should_pause_generation` and
`get_queue_size`, are two actions each. Samples are interchangeable, so
`running`, `returned` and `broken` (the three kinds of tasks in
`active_tasks`), the queue and the batch are counters; the queue distinguishes
samples ahead of the end signal from those behind it. `used` is a history
variable.

Merged steps: a task's `put_sample` and its return (between them the task only
looks like one that has returned and was not reaped yet); the end signal and
`running = False`; a training step, which nobody else observes.

- `async_pipeline`: seven samples, two local steps per update, room for three
  samples, two generations at a time, one generation that raises. K = 2 is the
  smallest round with a local step inside, three is a threshold of 0.5, seven
  samples reach the third update with a partial batch after it; the queue fills
  and drops, slots run out, pauses race with resets.
  `BudgetPlusOne` is the staleness bound the configuration promises, plus one:
  the sample the processor holds while the count is reset is generated in
  addition to the `max_required_samples` that the policy's README names;
  `DropsAreRare` bounds what a full queue loses; `EndArrivesLast` protects the
  end of the data; `PauseRecovered` is the task of the monitor;
  `EndEndsTraining` says that training ends after the rollout ends, normally or
  by a failure.
- `async_hang` (violation): see *Findings*.

Fairness: weak fairness of the feed, the return of a task (generations have a
length limit), the processor, the monitor and the trainer, each a coroutine or
an actor that is always scheduled again. Failures have none. The lock needs no
strong fairness: it is held across an await at most once per sample and once
per reset, hence finitely often, and an action that waits for it is eventually
enabled for good.

### HybridRollout

The trainer's operations from one parameter version to the next are a table,
`Program`: `CheckpointEngineManager.update_weights` over the standalone
servers, then `_trainer_side_validate`, each operation gathered over a set of
servers, which makes it one step per server in any order. A client is
`FullyAsyncLLMServerClient.generate`: acquire, send, tokens with the weights
loaded at that moment, come back complete or aborted, merge the piece and go on
with what is left of `max_tokens`. The engine (vLLM 0.12 or later) is external:
a paused engine holds new calls back, pausing aborts those that run. Assumed
configuration: `partial_rollout`, and a validation after every version.

- `hybrid_rollout`: one standalone, one hybrid server, one rollout client with
  two calls of two tokens, one validation client, two updates, one server
  operation that fails. Two tokens are the least a generation can be
  interrupted in the middle of; two updates let it see three versions.
  `PoolIsAwake`, `VersionsBracketed`, `BudgetKept`, `EverythingEnds`. A call
  that a server held back while it was put to sleep is recorded in `heldOver`
  and excepted (see *Observations*).

Fairness: weak fairness of the trainer's coroutine and of each client; a
request on an engine has at most `limit` tokens left.

Deadlock checking is off where the modelled program really stops: after its
rollout, its last publication or build, the end of training. The load balancer
never stops, and a stopped data build has a stuttering step of its own; both
are checked for deadlock.

## 3. Findings and observations

| Run | What the code does | What is said |
|---|---|---|
| `async_hang` | finished samples counted as stale leave less than a batch; rollouter and trainer wait for each other | only samples in excess count as stale; the monitor triggers recovery |

`async_hang` needs more than `staleness_threshold * K` finished tasks that are
not reaped when the reset comes. The processor reaps promptly while it is
paused or out of slots, so this happens when it waits for a slow data loader.

*Observations*: behaviours met while modelling. They are part of the models,
and the properties are stated so that they hold with them.

- A long tool response is truncated to its limit after the text that announces
  the answer-only turn has been added to it, so the model may have to answer
  without having been told.
- While an old generation is moved aside, its manifest outlives its files,
  because the table of `_ep_publish_artifact_set` puts it last in both
  directions; `NewMarkerIsComplete` speaks of new generations.
- An unterminated old tag at the end of retrieved text joins the closing wrapper
  to what looks like a complete tag, and costs the format reward.
- The rollout counts tags in the thought and checks the image index, the
  validator does neither.
- `add_servers` restarts the counter of a returning hybrid server at zero with
  generations still out on it.
- A reset of the staleness count admits one sample more than
  `max_required_samples`.
- The poll thread may add what it listed before a cleanup after the cleanup.
  This is harmless for training steps, whose numbers differ, but a second
  validation batch of one step would sample trajectories that are gone.
  `_validate` gives all its batches the same partition and step; with the
  default `val_batch_size` there is one.
- If putting the status "failure" raises too (`main_ppo_sync.py:377`), the task
  of the prompt ends with an exception nobody awaits, the prompt stays marked as
  running, and `sample` waits for it without a limit.
- An input of the RL build that is edited after its fingerprint was taken and
  put back later defeats the caches: the marker has the fingerprint of the old
  content and vouches for files of the new one. A later build, during which
  nobody edits anything, reuses them (`build_rl.py:2384`, `2512`); or, if the
  metadata changed before the catalog stage took its own fingerprint, the pool
  stage refuses the reused catalog and says to rerun it (`build_rl.py:1346`),
  which every rerun reuses again. `--force`, or a build of yet another content,
  repairs this.
- An index or SFT build that fingerprints one RL generation, reads files of the
  next while it is being published, and ends, leaves outputs of the second
  under the fingerprint of the first. If that publication is rolled back
  (`build_rl.py:298`), the marker matches again, and later builds reuse outputs
  that were not made from the RL generation they name.
- Between the abort and the removal of a hybrid server a client may still
  acquire it. Its call is held back over the server's sleep, and runs when the
  server is resumed, without weights of its own version.
- Bans caused by a selection that is discarded later stay, so a pool may be
  refused for lack of candidates although another selection had enough.
- The connected split may move the only row of a taxon into validation.

## 4. Proofs

TLAPS proves the following for every value of the constants that satisfies the
named assumptions (`...Assumption`), which say that sizes are natural numbers,
that sets of different kinds of servers or clients are disjoint, that texts are
sequences of the protocol's symbols, the preconditions of `TrainingData` named
in section 2, and, for `AsyncPipeline`, that `max_required_samples` is at least
one round (`staleness_threshold >= 0`).

- **AgentLoop**: `TypeCorrect`, `AlignedAlways`, `BudgetCorrect`. The invariant
  says of the three lists, as they grow, that the mask marks and the log
  probabilities belong pointwise, which concatenation preserves (the sequence
  lemmas), that the pending tool text comes from a tool, and which phase admits
  which counters. `AnswerOnlyGranted` follows from the same counters.
  `ResponsesAreWhole` needs `ResponsesInv`: an opening token is closed in its
  own response, or the response list is full and the loop on its way out; a
  turn's tool tokens are counted by cardinality. `RolloutIsDialogue` is the
  refinement of `Dialogue`: initial states map to initial states, every step
  to a step or a stutter, with `IInv` for what a phase implies.
- **Trajectory and Reward**: `RewardAgrees` and `AnswerIsJudged`, for every
  vocabulary over the protocol's symbols (`VocabularyAssumption`), every number
  of attempts up to the limit and every observation length. `validate_sequence`
  and `extract_answer` recurse along the text, so it has to be shown that their
  functions exist: the set of positions at which the defining equation could
  not be met has a greatest (or least) element, which is contradicted
  (`TurnUnfolds`, `LastUnfolds`); from then on every turn is read off from the
  next. The rollout appends at the end while the validator reads from the
  beginning, so the invariant (`TextInv`) looks ahead: a response is `Passed`
  if *every* text that begins with it is in the format exactly if its rest is,
  and `Awaiting` if it is one such response and a tool call. `RewardOnlyWatches`
  shows that `RewardSpec` implies `Spec`, which carries both theorems over to
  the composition, where `FormatPaidForAnswer` joins them with the score.
  `PaidForVerdict`; and `CorrectWins` for every budget up to the eight attempts
  the protocol allows.
- **ArtifactPublish**: `TypeCorrect`, `CommitMarkerLast`,
  `GenerationsNeverMix`, `NothingIsLost`, `OutcomeCorrect`. None of them is
  inductive; the invariant describes what every path and backup holds at every
  position of each of the five loops (`BackupPhase`, `PublishPhase`, ...), and
  that the generation being published is newer than anything on disk.
- **StageCache**: `CachedBuildIsFresh`, `ReusedIsNeverRefused`, for edits that
  may put any content back. What a marker says is compared with fingerprints
  long after it was written, by another build, when the files may have been
  replaced. `CacheInv` says of every marker (`MarkersTell`), of the files of the
  stages the current build has passed (`PassedAreMade`), and of the published
  manifest (`VouchedTells`) which contents their files were made from: where one
  of them is not the content of the fingerprint, the fingerprint's content was
  replaced by an edit under a build, and `replaced` has it (`Since`). Without such a content among the inputs, and without an
  edit, fingerprint and input are the same.
- **StagedPublish**: `TypeCorrect`, `FailuresRestore`,
  `CommittedOutputsSurvive`, `ConsumersSeeWholeGenerations` (the refinement of
  `VouchedGeneration`: initial states map to initial ones, every step to a step
  or a stutter), `SteadyBuildsAreFresh`. `Shape` says what each path and backup
  holds at every position of every loop relative to `before`, what the build
  found; `Ordered`, `Whole` and `Kept` are stated about `before`, which no step
  of the build changes, and so need to be shown only where a build begins and
  ends. Freshness adds what a build has fingerprinted and read at every position
  of its reading loops as long as no file was moved away under it (`PrintTells`,
  `ReadTells`, `Undisturbed`), and that a marker says the same of the build it is
  of, for as long as it is there (`MarkersTell`).
- **TrainingData**: `Convergence` and `PoolsCorrect`: each iteration but the
  first has banned one more category of the evidence, so the loop's bound, one
  more than there are such categories, is never exceeded; by cardinalities.
  `BuildNeverAsserts` and `CorpusKeepsPromise`, for any inputs and quotas.
  `PoolInv` says that the selections still to make are the end of their list
  and that every selection made has its quota in every image count; `DataInv`
  says what the scan has kept, that final and waiting rows together have the
  quotas of the pool whichever rows were replaced, and that no image is on both
  sides of the split. Quotas are compared count by count, so no sum over them
  is needed.
- **LoadBalancer**: `TypeCorrect`, `CountersCorrect`,
  `NewConversationsBalanced`, by counting holders with the cardinality
  theorems. `CacheIsCoherent` and `ConversationsStay` need the order of the
  routing cache (`CacheInv`): the entries behind a conversation's are exactly
  the conversations that acquired since it did, so only after `CacheSize` of
  those is it pushed out.
- **ReplayBuffer**: `SampleComplete`, `BatchIsComplete`, `QueueIsCleaned`, and
  `BatchIsStoredAndOwn`. The trainer reads what a poll thread copied, in two
  steps, from what the workers wrote. `ReplayInv` says of queue, snapshot and
  buffer separately what an entry tells of the prompt or session it is about.
  Its heart is `StoredUntilSampled`: nothing of a round leaves the queue before
  its sample, so a snapshot that shows the end of a prompt has everything its
  sessions put. `KeptTells` says of the batch that was trained on that its
  entries are stored until its cleanup and none is in the batch of a validation,
  so the cleanup of one does not touch the other. `BatchIsStoredAndOwn` holds of schedules in which no two rounds
  share partition and step (`RoundsDiffer`), because the code keeps rounds
  apart by nothing else: it is true of the training steps, and of validation
  with its default of one batch per step. Without it, trajectories of a prompt
  that failed in one validation batch could be sampled with the next. The other
  three need no hypothesis.
- **AsyncPipeline**: `TypeCorrect`, `BudgetExceededByOne`, `EndArrives`. That a
  sample may be received was decided before other coroutines ran, by comparison
  with a count that a reset overwrites, so `BudgetPlusOne` needs `CountCovers`
  (the count misses one sample at most), `RoomToReceive` (what the decision
  still grants when the sample is received) and `CountedIsActive` (the lock
  freezes the active tasks during a reset). The end signal needs
  `SlotsRespected` and `EndTail`: few tasks are left to push it out.
  `DropsRare` charges drops to resets: a drop moves a sample from the system to
  `dropped`, so the bound is on all samples of a version, the dropped ones
  included, and grows by one with each completed reset (`DropsInv`).
- **HybridRollout**: `TypeCorrect`, `BudgetIsKept`, `ThePoolIsAwake`,
  `VersionsAreBracketed`. Whatever fails, the pieces of a call add up
  (`CallInv`). While nothing failed, the trainer's position in its program
  determines what every engine holds (`EnginesInv`: one clause per group of
  positions), an engine with a running call holds the version `Served` under
  that label, and `Served` only grows (`ClientsInv`). The proof evaluates
  `Program` position by position once (`ProgramFacts`) and uses only that table.

Every safety invariant, action property and refinement the passing runs check
is stated by one of these theorems (`BatchStoredAndOwn` under the hypothesis
named above). Only model-checked is the liveness: `Termination`,
`PauseRecovered`, `EndEndsTraining`, `RunEnds` and `EverythingEnds`, which hold
by fairness and so by `ENABLED`, out of the prover's reach; so is absence of
deadlock. `async_hang` is a counterexample, found by TLC, to a liveness
property.

## 5. Plan

1. Search services: start-up checks against a generation that is being
   published, and reciprocal rank fusion as a pure operator.
2. `RateLimiter`: the token bucket of the reward loop under concurrent callers.
3. Composition: `LoadBalancer` instead of the choice from the pool in
   `HybridRollout`; `StageCache` before `ArtifactPublish`.
4. Proofs: the compositions of item 3, once they exist; the rounds of one
   partition that share a step in `ReplayBuffer` (what a later batch may contain
   then, instead of the hypothesis `RoundsDiffer`).

## 6. Not modelled

Numerical code (losses, advantages, engines, models, kernels), weight transfer
over device networks, vendored code, configuration values and shell scripts:
they have no protocol state that a model checker could explore, or are out of
its reach. This is most of `verl/`, so the share of the repository's lines that
the map names stays small whatever is modelled. Ranking in the search services
is floating-point arithmetic and library calls. Teacher and agent loops of the
framework that the project's scripts do not select are left out.

Inside the modelled components: contents of tokens beyond their writer, prompts
and wording, image preprocessing and decoding, downloads and archive formats,
the iterative fitting of the quota matrix (any matrix with its margins stands
for it), embedding, the teacher's text, metrics, logging, profiling; in the
pipeline also checkpoints and the last, partial batch; of the rollout engines
SGLang and TensorRT-LLM. The checkpoint of the asynchronous data loader loses
samples in flight, which the code says itself next to the save.

## 7. Running

In this directory, for a run of `PROJECT.json`:

    tlc -workers 2 -config AsyncPipeline.cfg AsyncPipeline.tla
    tlapm AsyncPipelineProofs.tla

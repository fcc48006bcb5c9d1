-------------------------- MODULE HybridRollout ---------------------------
(***************************************************************************)
(* Interrupted generation in fully asynchronous training: what the trainer *)
(* of fully_async_trainer.py does to the inference servers while clients   *)
(* generate on them, and how FullyAsyncLLMServerClient.generate puts the   *)
(* pieces of an interrupted generation together.                           *)
(*                                                                         *)
(* The standalone servers only generate.  The hybrid ones share their GPUs *)
(* with training: they sleep without weights, and the trainer wakes them   *)
(* and puts them into the routing pool for its validation only.  Program   *)
(* is the trainer's sequence of operations from one parameter version to   *)
(* the next, each of them gathered over a set of servers.                  *)
(*                                                                         *)
(* The engine (vLLM >= 0.12) is external: a paused engine holds new calls  *)
(* back, pausing aborts the running ones, and a token is made with the     *)
(* weights loaded at that moment.  Routing is a choice from the pool       *)
(* (LoadBalancer.tla: RoutesIntoPool).                                     *)
(***************************************************************************)
EXTENDS Integers, FiniteSets, Sequences

CONSTANTS
    Standalone, Hybrid,     \* the servers
    Rollout, Validation,    \* the clients: agent loops of either kind
    Budget,                 \* max_tokens of a generate call
    Calls,                  \* bound: generate calls of a rollout client
    Updates,                \* bound: parameter versions after the first
    MaxFailures             \* bound: server operations that fail

ASSUME ServerAssumption ==
    Standalone \intersect Hybrid = {} /\ Standalone # {} /\ Hybrid # {}
ASSUME ClientAssumption == Rollout \intersect Validation = {}
ASSUME BoundAssumption ==
    /\ Budget \in Nat \ {0} /\ Calls \in Nat
    /\ Updates \in Nat /\ MaxFailures \in Nat

Server == Standalone \union Hybrid
Client == Rollout \union Validation
NoServer == "none"
NoWeights == -1     \* of a server that sleeps
NoLabel == -1       \* of a call that has returned no output yet
Version == 0..Updates

Op(name, servers) == [op |-> name, on |-> servers]

\* CheckpointEngineManager.update_weights over the standalone servers ...
UpdateWeights == <<
    Op("abort", Standalone), Op("load", Standalone), Op("label", Standalone),
    Op("resume", Standalone)>>

\* The mutant does not resume the hybrid servers it has aborted.
ValidateHybridPaused == <<
    Op("load", Hybrid), Op("label", Hybrid),
    Op("abort", Standalone), Op("abort", Hybrid), Op("add", {}),
    Op("resume", Standalone),
    Op("validate", {}), Op("collect", {}),
    Op("abort", Standalone), Op("abort", Hybrid), Op("remove", {}),
    Op("sleep", Hybrid), Op("resume", Standalone), Op("resume", Hybrid)>>

\* The mutant lets the hybrid servers sleep before it removes them.
ValidateSleepsFirst == <<
    Op("load", Hybrid), Op("label", Hybrid),
    Op("abort", Standalone), Op("abort", Hybrid), Op("add", {}),
    Op("resume", Standalone), Op("resume", Hybrid),
    Op("validate", {}), Op("collect", {}),
    Op("abort", Standalone), Op("abort", Hybrid),
    Op("sleep", Hybrid), Op("remove", {}),
    Op("resume", Standalone), Op("resume", Hybrid)>>

\* ... then FullyAsyncTrainer._trainer_side_validate.
TrainerSideValidate == <<
    Op("load", Hybrid), Op("label", Hybrid),
    Op("abort", Standalone), Op("abort", Hybrid), Op("add", {}),
    Op("resume", Standalone), Op("resume", Hybrid),
    Op("validate", {}), Op("collect", {}),
    Op("abort", Standalone), Op("abort", Hybrid), Op("remove", {}),
    Op("sleep", Hybrid), Op("resume", Standalone), Op("resume", Hybrid)>>

Program == UpdateWeights \o TrainerSideValidate

VARIABLES
    weights,    \* the version a server's engine holds, or NoWeights
    label,      \* global_steps of the server
    paused,     \* the engine holds new calls back
    pool,       \* the load balancer's servers
    version,    \* current_param_version
    step,       \* the operation of Program the trainer is at
    todo,       \* the servers it has still to be done on
    state,      \* where a client is
    server,     \* the server it has acquired
    limit,      \* max_tokens of its next piece
    piece,      \* the versions that made the tokens of the current piece
    reported,   \* the label that came back with the piece
    aborted,    \* the piece came back because of an abort
    tokens,     \* final_output: the versions that made its tokens
    minLabel,   \* min_global_steps
    maxLabel,   \* max_global_steps
    calls,      \* bound: calls a client may still start
    failures,   \* bound: failures so far
    heldOver    \* history: clients whose call a server held back when it
                \* went to sleep

engines == <<weights, label, paused>>
trainer == <<version, step, todo>>
request == <<state, server, piece, reported, aborted>>
output == <<limit, tokens, minLabel, maxLabel>>
vars == <<engines, pool, trainer, request, output, calls, failures, heldOver>>

Init ==
    /\ weights = [s \in Server |-> IF s \in Hybrid THEN NoWeights ELSE 0]
    /\ label = [s \in Server |-> 0]
    /\ paused = [s \in Server |-> FALSE]
    /\ pool = Standalone
    /\ version = 0
    /\ step = 0
    /\ todo = {}
    /\ state = [c \in Client |-> "idle"]
    /\ server = [c \in Client |-> NoServer]
    /\ limit = [c \in Client |-> Budget]
    /\ piece = [c \in Client |-> <<>>]
    /\ reported = [c \in Client |-> NoLabel]
    /\ aborted = [c \in Client |-> FALSE]
    /\ tokens = [c \in Client |-> <<>>]
    /\ minLabel = [c \in Client |-> NoLabel]
    /\ maxLabel = [c \in Client |-> NoLabel]
    /\ calls = [c \in Client |-> IF c \in Rollout THEN Calls ELSE 0]
    /\ failures = 0
    /\ heldOver = {}

-----------------------------------------------------------------------------
(* The trainer                                                             *)

At(op) == step \in DOMAIN Program /\ Program[step].op = op
Ended == version = Updates /\ step \notin DOMAIN Program

\* The next operation, or rest once Program is through.
Advance ==
    /\ step' = IF step < Len(Program) THEN step + 1 ELSE 0
    /\ todo' = IF step < Len(Program) THEN Program[step + 1].on ELSE {}
    /\ UNCHANGED version

\* The operation is done on server s; the gather returns with the last one.
DoneOn(s) ==
    IF todo = {s} THEN Advance
    ELSE todo' = todo \ {s} /\ UNCHANGED <<version, step>>

\* A parameter version is ready.
NewVersion ==
    /\ step = 0
    /\ version < Updates
    /\ version' = version + 1
    /\ step' = 1
    /\ todo' = Program[1].on
    /\ UNCHANGED <<engines, pool, request, output, calls, failures, heldOver>>

RunningOn(s) == {c \in Client : state[c] = "running" /\ server[c] = s}

\* pause_generation: what runs on the server returns, what comes is held.
Abort(s) ==
    /\ At("abort")
    /\ s \in todo
    /\ paused' = [paused EXCEPT ![s] = TRUE]
    /\ state' = [c \in Client |->
                    IF c \in RunningOn(s) THEN "back" ELSE state[c]]
    /\ reported' = [c \in Client |->
                       IF c \in RunningOn(s) THEN label[s] ELSE reported[c]]
    /\ aborted' = [c \in Client |-> c \in RunningOn(s) \/ aborted[c]]
    /\ DoneOn(s)
    /\ UNCHANGED <<weights, label, pool, server, piece, output, calls,
                   failures, heldOver>>

\* An abort that raises is logged, and counts as done.
AbortRaises(s) ==
    /\ At("abort")
    /\ s \in todo
    /\ failures < MaxFailures
    /\ failures' = failures + 1
    /\ \E p \in {paused[s], TRUE} : paused' = [paused EXCEPT ![s] = p]
    /\ DoneOn(s)
    /\ UNCHANGED <<weights, label, pool, request, output, calls, heldOver>>

\* The weights of the current version; they wake a hybrid server.
Load(s) ==
    /\ At("load")
    /\ s \in todo
    /\ weights' = [weights EXCEPT ![s] = version]
    /\ DoneOn(s)
    /\ UNCHANGED <<label, paused, pool, request, output, calls, failures,
                   heldOver>>

\* set_global_steps
SetLabel(s) ==
    /\ At("label")
    /\ s \in todo
    /\ label' = [label EXCEPT ![s] = version]
    /\ DoneOn(s)
    /\ UNCHANGED <<weights, paused, pool, request, output, calls, failures,
                   heldOver>>

ResumeGeneration(s) ==
    /\ At("resume")
    /\ s \in todo
    /\ paused' = [paused EXCEPT ![s] = FALSE]
    /\ DoneOn(s)
    /\ UNCHANGED <<weights, label, pool, request, output, calls, failures,
                   heldOver>>

\* The engine drains, then gives its weights up.
Sleep(s) ==
    /\ At("sleep")
    /\ s \in todo
    /\ RunningOn(s) = {}
    /\ weights' = [weights EXCEPT ![s] = NoWeights]
    /\ heldOver' = heldOver \union
                   {c \in Client : state[c] = "sent" /\ server[c] = s}
    /\ DoneOn(s)
    /\ UNCHANGED <<label, paused, pool, request, output, calls, failures>>

AddReplicas ==
    /\ At("add")
    /\ pool' = pool \union Hybrid
    /\ Advance
    /\ UNCHANGED <<engines, request, output, calls, failures, heldOver>>

RemoveReplicas ==
    /\ At("remove")
    /\ pool' = pool \ Hybrid
    /\ Advance
    /\ UNCHANGED <<engines, request, output, calls, failures, heldOver>>

\* add_replicas and remove_replicas log what they raise and return 0.
PoolChangeRaises ==
    /\ At("add") \/ At("remove")
    /\ failures < MaxFailures
    /\ failures' = failures + 1
    /\ Advance
    /\ UNCHANGED <<engines, pool, request, output, calls, heldOver>>

\* rollouter.do_validate: every validation client makes one call ...
StartValidation ==
    /\ At("validate")
    /\ calls' = [c \in Client |-> IF c \in Validation THEN 1 ELSE calls[c]]
    /\ Advance
    /\ UNCHANGED <<engines, pool, request, output, failures, heldOver>>

\* ... and returns when all of them have ended.
CollectValidation ==
    /\ At("collect")
    /\ \A c \in Validation : state[c] = "idle" /\ calls[c] = 0
    /\ Advance
    /\ UNCHANGED <<engines, pool, request, output, calls, failures, heldOver>>

-----------------------------------------------------------------------------
(* The clients                                                             *)

\* A generate call begins with an empty final_output.
Begin(c) ==
    /\ state[c] = "idle"
    /\ calls[c] > 0
    /\ calls' = [calls EXCEPT ![c] = @ - 1]
    /\ state' = [state EXCEPT ![c] = "acquire"]
    /\ limit' = [limit EXCEPT ![c] = Budget]
    /\ tokens' = [tokens EXCEPT ![c] = <<>>]
    /\ minLabel' = [minLabel EXCEPT ![c] = NoLabel]
    /\ maxLabel' = [maxLabel EXCEPT ![c] = NoLabel]
    /\ heldOver' = heldOver \ {c}
    /\ UNCHANGED <<engines, pool, trainer, server, piece, reported, aborted,
                   failures>>

\* LLMServerClient.generate: the load balancer names a server of the pool.
Acquire(c, s) ==
    /\ state[c] = "acquire"
    /\ s \in pool
    /\ state' = [state EXCEPT ![c] = "sent"]
    /\ server' = [server EXCEPT ![c] = s]
    /\ UNCHANGED <<engines, pool, trainer, piece, reported, aborted, output,
                   calls, failures, heldOver>>

\* The engine takes the call unless it is paused.
Start(c) ==
    /\ state[c] = "sent"
    /\ ~paused[server[c]]
    /\ state' = [state EXCEPT ![c] = "running"]
    /\ UNCHANGED <<engines, pool, trainer, server, piece, reported, aborted,
                   output, calls, failures, heldOver>>

Token(c) ==
    /\ state[c] = "running"
    /\ Len(piece[c]) < limit[c]
    /\ piece' = [piece EXCEPT ![c] = Append(@, weights[server[c]])]
    /\ UNCHANGED <<engines, pool, trainer, state, server, reported, aborted,
                   output, calls, failures, heldOver>>

\* A stop token or max_tokens; the answer carries the server's label.
Complete(c) ==
    /\ state[c] = "running"
    /\ piece[c] # <<>>
    /\ state' = [state EXCEPT ![c] = "back"]
    /\ reported' = [reported EXCEPT ![c] = label[server[c]]]
    /\ UNCHANGED <<engines, pool, trainer, server, piece, aborted, output,
                   calls, failures, heldOver>>

Merged(c) == tokens[c] \o piece[c]

\* The mutant keeps the label of the first piece.
MergeLabelsFirst(c, l) ==
    /\ minLabel' = [minLabel EXCEPT ![c] = IF @ = NoLabel THEN l ELSE @]
    /\ maxLabel' = [maxLabel EXCEPT ![c] = IF @ = NoLabel THEN l ELSE @]

\* min_global_steps is the first label there is, max_global_steps the last.
MergeLabels(c, l) ==
    /\ minLabel' = [minLabel EXCEPT ![c] = IF @ = NoLabel THEN l ELSE @]
    /\ maxLabel' = [maxLabel EXCEPT ![c] = l]

\* The mutant sends the same max_tokens again.
MergeLimitKept(c) == limit' = limit

MergeLimit(c) == limit' = [limit EXCEPT ![c] = Budget - Len(Merged(c))]

Over(c) == ~aborted[c] \/ Len(Merged(c)) >= Budget

\* The piece is merged; an aborted call goes on from what it has.  An abort
\* before the first token may return no output, and then no label.
Merge(c) ==
    /\ state[c] = "back"
    /\ tokens' = [tokens EXCEPT ![c] = Merged(c)]
    /\ \E l \in {reported[c]} \union
               (IF piece[c] = <<>> THEN {NoLabel} ELSE {}) : MergeLabels(c, l)
    /\ MergeLimit(c)
    /\ state' = [state EXCEPT ![c] = IF Over(c) THEN "idle" ELSE "acquire"]
    /\ server' = [server EXCEPT ![c] = NoServer]
    /\ piece' = [piece EXCEPT ![c] = <<>>]
    /\ reported' = [reported EXCEPT ![c] = NoLabel]
    /\ aborted' = [aborted EXCEPT ![c] = FALSE]
    /\ UNCHANGED <<engines, pool, trainer, calls, failures, heldOver>>

-----------------------------------------------------------------------------

ServerStep(s) ==
    \/ Abort(s) \/ AbortRaises(s) \/ Load(s) \/ SetLabel(s)
    \/ ResumeGeneration(s) \/ Sleep(s)

TrainerStep ==
    \/ NewVersion
    \/ \E s \in Server : ServerStep(s)
    \/ AddReplicas \/ RemoveReplicas \/ PoolChangeRaises
    \/ StartValidation \/ CollectValidation

ClientStep(c) ==
    \/ Begin(c) \/ Start(c) \/ Token(c) \/ Complete(c) \/ Merge(c)
    \/ \E s \in Server : Acquire(c, s)

Next == TrainerStep \/ \E c \in Client : ClientStep(c)

Spec == Init /\ [][Next]_vars

\* The trainer's coroutine and every client's are scheduled; a request that
\* runs has at most limit tokens left, so its engine returns it.
Fairness == WF_vars(TrainerStep) /\ \A c \in Client : WF_vars(ClientStep(c))

FairSpec == Spec /\ Fairness

-----------------------------------------------------------------------------
(* Properties                                                              *)

States == {"idle", "acquire", "sent", "running", "back"}

\* Every variable has its type.
TypeOK ==
    /\ weights \in [Server -> Version \union {NoWeights}]
    /\ label \in [Server -> Version]
    /\ paused \in [Server -> BOOLEAN]
    /\ pool \in SUBSET Server
    /\ version \in Version
    /\ step \in 0..Len(Program)
    /\ todo \in SUBSET Server
    /\ state \in [Client -> States]
    /\ server \in [Client -> Server \union {NoServer}]
    /\ limit \in [Client -> Int]
    /\ piece \in [Client -> Seq(Version \union {NoWeights})]
    /\ reported \in [Client -> Version \union {NoLabel}]
    /\ aborted \in [Client -> BOOLEAN]
    /\ tokens \in [Client -> Seq(Version \union {NoWeights})]
    /\ minLabel \in [Client -> Version \union {NoLabel}]
    /\ maxLabel \in [Client -> Version \union {NoLabel}]
    /\ calls \in [Client -> Nat]
    /\ failures \in 0..MaxFailures
    /\ heldOver \in SUBSET Client

\* As long as no operation failed, a server without weights is out of the
\* pool, and the only calls that run on it are those it held back while it
\* was put to sleep.
PoolIsAwake ==
    failures = 0 =>
        \A s \in Server : weights[s] = NoWeights =>
            s \notin pool /\ RunningOn(s) \subseteq heldOver

\* A finished call knows the versions that made it: its labels bracket the
\* version of every token, however often it was interrupted, as long as no
\* abort failed and no server went to sleep with it.
VersionsBracketed ==
    \A c \in Client \ heldOver :
        failures = 0 /\ state[c] = "idle" => \A i \in DOMAIN tokens[c] :
            minLabel[c] <= tokens[c][i] /\ tokens[c][i] <= maxLabel[c]

\* Interruptions neither lengthen a generation nor lose a token of it.
BudgetKept ==
    \A c \in Client :
        /\ Len(tokens[c]) <= Budget
        /\ state[c] \in {"acquire", "sent", "running"} =>
               limit[c] = Budget - Len(tokens[c]) /\ limit[c] > 0

\* The trainer gets through every update and validation, and every call
\* returns: no engine stays paused with a call the others wait for.
EverythingEnds ==
    <>[](Ended /\ \A c \in Client : state[c] = "idle" /\ calls[c] = 0)
=============================================================================

------------------------ MODULE HybridRolloutProofs ------------------------
(***************************************************************************)
(* Interrupted generation in fully asynchronous training, for any servers, *)
(* clients, budget, number of calls, of parameter versions and of failed   *)
(* server operations.                                                      *)
(*                                                                         *)
(* The argument: as long as nothing failed, the position of the trainer in *)
(* its program determines what every engine holds (EnginesInv), and an     *)
(* engine that a client's call runs on holds the version Served, under     *)
(* that label, until the call is back (ClientsInv); Served never goes      *)
(* down.  A client in heldOver is exempt: its server slept with its call.  *)
(***************************************************************************)
EXTENDS HybridRollout, SequenceTheorems, TLAPS

\* The operations of the trainer's program by position.
ProgramTable ==
    /\ DOMAIN Program = 1..19 /\ Len(Program) = 19
    /\ \A i \in {1, 7, 14} : Program[i] = Op("abort", Standalone)
    /\ \A i \in {8, 15} : Program[i] = Op("abort", Hybrid)
    /\ Program[2] = Op("load", Standalone) /\ Program[5] = Op("load", Hybrid)
    /\ Program[3] = Op("label", Standalone) /\ Program[6] = Op("label", Hybrid)
    /\ \A i \in {4, 10, 18} : Program[i] = Op("resume", Standalone)
    /\ \A i \in {11, 19} : Program[i] = Op("resume", Hybrid)
    /\ Program[9] = Op("add", {}) /\ Program[16] = Op("remove", {})
    /\ Program[12] = Op("validate", {}) /\ Program[13] = Op("collect", {})
    /\ Program[17] = Op("sleep", Hybrid)

\* The servers an operation of the program is done on.
On(i) ==
    IF i \in {1, 2, 3, 4, 7, 10, 14, 18} THEN Standalone
    ELSE IF i \in {5, 6, 8, 11, 15, 17, 19} THEN Hybrid ELSE {}

StepInv ==
    /\ todo \subseteq On(step)
    /\ step = 1 => version >= 1

\* What is true of every call whatever fails: the pieces add up.
CallInv(c) ==
    /\ state[c] \in {"idle", "acquire", "sent"} => piece[c] = <<>>
    /\ state[c] # "idle" =>
        /\ limit[c] = Budget - Len(tokens[c])
        /\ limit[c] > 0
        /\ Len(piece[c]) <= limit[c]
    /\ Len(tokens[c]) <= Budget
    /\ state[c] = "back" => aborted[c] \/ piece[c] # <<>>
    /\ state[c] \in {"sent", "running"} => server[c] \in Server

\* The version that the engines which take calls hold.
Served == IF step = 1 THEN version - 1 ELSE version

StandaloneInv(s) ==
    /\ weights[s] \in Version
    /\ step = 1 => /\ weights[s] = Served /\ label[s] = Served
                   /\ s \notin todo => paused[s]
    /\ step \in {2, 3} => paused[s]
    /\ step = 2 /\ s \notin todo => weights[s] = version
    /\ step = 3 => /\ weights[s] = version
                   /\ s \notin todo => label[s] = version
    /\ step \notin {1, 2, 3} => weights[s] = version /\ label[s] = version

Awake(s) ==
    \/ step \in 6..16
    \/ step = 5 /\ s \notin todo
    \/ step = 17 /\ s \in todo

HybridInv(s) ==
    /\ weights[s] = IF Awake(s) THEN version ELSE NoWeights
    /\ step \in 7..17 \/ (step = 6 /\ s \notin todo) => label[s] = version

EnginesInv ==
    /\ \A s \in Standalone : StandaloneInv(s)
    /\ \A s \in Hybrid : HybridInv(s)
    /\ step \notin 10..16 => pool \subseteq Standalone

\* A call is on a hybrid server only while it is awake, and does not run on
\* a permanent one whose weights change.
Placed(c) ==
    /\ state[c] \in {"sent", "running"} /\ server[c] \in Hybrid =>
        step \in 10..16 \/ (step = 17 /\ server[c] \in todo)
    /\ state[c] = "running" /\ server[c] \in Standalone =>
        step \notin {2, 3} /\ (step = 1 => server[c] \in todo)

PieceInv(c) ==
    /\ state[c] = "running" => \A i \in DOMAIN piece[c] : piece[c][i] = Served
    /\ state[c] = "back" =>
        /\ reported[c] \in 0..Served
        /\ \A i \in DOMAIN piece[c] : piece[c][i] = reported[c]

LabelInv(c) ==
    /\ state[c] # "idle" =>
        /\ minLabel[c] <= Served
        /\ \A i \in DOMAIN tokens[c] :
            /\ minLabel[c] # NoLabel
            /\ minLabel[c] <= tokens[c][i]
            /\ tokens[c][i] <= Served
    /\ state[c] = "back" =>
        /\ minLabel[c] <= reported[c]
        /\ \A i \in DOMAIN tokens[c] : tokens[c][i] <= reported[c]
    /\ state[c] = "idle" => \A i \in DOMAIN tokens[c] :
        minLabel[c] <= tokens[c][i] /\ tokens[c][i] <= maxLabel[c]

ClientInv(c) == Placed(c) /\ PieceInv(c) /\ LabelInv(c)

ClientsInv == \A c \in Client \ heldOver : ClientInv(c)

SoundInv ==
    /\ TypeOK
    /\ StepInv
    /\ \A c \in Client : CallInv(c)

HybridRolloutInv == SoundInv /\ (failures = 0 => EnginesInv /\ ClientsInv)

-----------------------------------------------------------------------------
(* The program.                                                            *)

LEMMA ProgramFacts == ProgramTable
<1> DEFINE S == {Op("abort", Standalone), Op("abort", Hybrid),
                 Op("load", Standalone), Op("load", Hybrid),
                 Op("label", Standalone), Op("label", Hybrid),
                 Op("resume", Standalone), Op("resume", Hybrid),
                 Op("add", {}), Op("remove", {}), Op("validate", {}),
                 Op("collect", {}), Op("sleep", Hybrid)}
<1>1. /\ UpdateWeights \in Seq(S) /\ Len(UpdateWeights) = 4
  BY DEF UpdateWeights
<1>1a. /\ UpdateWeights[1] = Op("abort", Standalone)
       /\ UpdateWeights[2] = Op("load", Standalone)
       /\ UpdateWeights[3] = Op("label", Standalone)
       /\ UpdateWeights[4] = Op("resume", Standalone)
  BY DEF UpdateWeights
<1>2. /\ TrainerSideValidate \in Seq(S) /\ Len(TrainerSideValidate) = 15
  BY DEF TrainerSideValidate
<1> HIDE DEF S
<1>3. /\ TrainerSideValidate[1] = Op("load", Hybrid)
      /\ TrainerSideValidate[2] = Op("label", Hybrid)
      /\ TrainerSideValidate[3] = Op("abort", Standalone)
      /\ TrainerSideValidate[4] = Op("abort", Hybrid)
      /\ TrainerSideValidate[5] = Op("add", {})
      /\ TrainerSideValidate[6] = Op("resume", Standalone)
      /\ TrainerSideValidate[7] = Op("resume", Hybrid)
      /\ TrainerSideValidate[8] = Op("validate", {})
      /\ TrainerSideValidate[9] = Op("collect", {})
      /\ TrainerSideValidate[10] = Op("abort", Standalone)
      /\ TrainerSideValidate[11] = Op("abort", Hybrid)
      /\ TrainerSideValidate[12] = Op("remove", {})
      /\ TrainerSideValidate[13] = Op("sleep", Hybrid)
      /\ TrainerSideValidate[14] = Op("resume", Standalone)
      /\ TrainerSideValidate[15] = Op("resume", Hybrid)
  BY DEF TrainerSideValidate
<1>4. /\ Program \in Seq(S) /\ Len(Program) = 19
      /\ \A i \in 1..4 : Program[i] = UpdateWeights[i]
      /\ \A i \in 5..19 : Program[i] = TrainerSideValidate[i - 4]
  <2>1. /\ Program \in Seq(S)
        /\ Len(Program) = Len(UpdateWeights) + Len(TrainerSideValidate)
        /\ \A i \in 1..(Len(UpdateWeights) + Len(TrainerSideValidate)) :
             Program[i] = IF i <= Len(UpdateWeights) THEN UpdateWeights[i]
                          ELSE TrainerSideValidate[i - Len(UpdateWeights)]
    BY <1>1, <1>2, ConcatProperties, Zenon DEF Program
  <2>2. QED
    BY <2>1, <1>1, <1>2
<1>5. DOMAIN Program = 1..19
  BY <1>4, LenProperties
<1>6. /\ Program[1] = Op("abort", Standalone) /\ Program[2] = Op("load", Standalone)
      /\ Program[3] = Op("label", Standalone) /\ Program[4] = Op("resume", Standalone)
  BY <1>1a, <1>4
<1>7. /\ Program[5] = Op("load", Hybrid) /\ Program[6] = Op("label", Hybrid)
      /\ Program[7] = Op("abort", Standalone) /\ Program[8] = Op("abort", Hybrid)
      /\ Program[9] = Op("add", {})
      /\ Program[10] = Op("resume", Standalone) /\ Program[11] = Op("resume", Hybrid)
      /\ Program[12] = Op("validate", {}) /\ Program[13] = Op("collect", {})
  BY <1>3, <1>4
<1>8. /\ Program[14] = Op("abort", Standalone) /\ Program[15] = Op("abort", Hybrid)
      /\ Program[16] = Op("remove", {}) /\ Program[17] = Op("sleep", Hybrid)
      /\ Program[18] = Op("resume", Standalone) /\ Program[19] = Op("resume", Hybrid)
  BY <1>3, <1>4
<1>9. QED
  BY <1>4, <1>5, <1>6, <1>7, <1>8 DEF ProgramTable

LEMMA StepFacts ==
    ASSUME TypeOK
    PROVE  /\ step \in 0..19
           /\ At("abort") => step \in {1, 7, 8, 14, 15}
           /\ At("load") => step \in {2, 5}
           /\ At("label") => step \in {3, 6}
           /\ At("resume") => step \in {4, 10, 11, 18, 19}
           /\ At("add") => step = 9
           /\ At("remove") => step = 16
           /\ At("sleep") => step = 17
           /\ At("validate") => step = 12
           /\ At("collect") => step = 13
<1>1. step \in 0..19
  BY ProgramFacts DEF TypeOK, ProgramTable
<1>2. \A op : At(op) => step \in 1..19 /\ Program[step].op = op
  BY ProgramFacts DEF At, ProgramTable
<1>3. \A i \in 1..19 :
        Program[i].op = IF i \in {1, 7, 8, 14, 15} THEN "abort"
                        ELSE IF i \in {2, 5} THEN "load"
                        ELSE IF i \in {3, 6} THEN "label"
                        ELSE IF i \in {4, 10, 11, 18, 19} THEN "resume"
                        ELSE IF i = 9 THEN "add"
                        ELSE IF i = 16 THEN "remove"
                        ELSE IF i = 17 THEN "sleep"
                        ELSE IF i = 12 THEN "validate" ELSE "collect"
  BY ProgramFacts DEF ProgramTable, Op
<1>4. QED
  BY <1>1, <1>2, <1>3

\* The program counter goes around, and takes the servers with it.
Onward ==
    /\ step \in 1..19
    /\ step' = IF step < 19 THEN step + 1 ELSE 0
    /\ todo' = On(step')
    /\ version' = version

LEMMA AdvanceFacts == ASSUME TypeOK, step # 0, Advance PROVE Onward
<1>1. step \in 1..19 /\ Len(Program) = 19
  BY StepFacts, ProgramFacts DEF ProgramTable
<1>2. \A i \in 1..19 : Program[i].on = On(i)
  BY ProgramFacts DEF ProgramTable, Op, On
<1>3. CASE step < 19
  <2>1. step + 1 \in 1..19 /\ step' = step + 1 /\ todo' = Program[step + 1].on
    BY <1>1, <1>3 DEF Advance
  <2>2. QED
    BY <1>1, <1>2, <1>3, <2>1 DEF Onward, Advance
<1>4. CASE step = 19
  BY <1>1, <1>4 DEF Onward, Advance, On
<1>5. QED
  BY <1>1, <1>3, <1>4

LEMMA DoneOnFacts ==
    ASSUME TypeOK, StepInv, NEW s, s \in todo, DoneOn(s)
    PROVE  \/ todo = {s} /\ Onward
           \/ todo' = todo \ {s} /\ step' = step /\ version' = version
<1>1. step # 0
  BY DEF StepInv, On
<1>2. QED
  BY <1>1, AdvanceFacts DEF DoneOn

LEMMA NewVersionFacts ==
    ASSUME TypeOK, NewVersion
    PROVE  step = 0 /\ step' = 1 /\ todo' = Standalone /\ version' = version + 1
BY ProgramFacts DEF NewVersion, ProgramTable, Op

LEMMA OnServers ==
    /\ \A i \in 0..19 : On(i) \subseteq Server
    /\ Standalone \subseteq Server /\ Hybrid \subseteq Server
BY DEF On, Server

\* What a step may do to the trainer's position.
LEMMA Moves ==
    ASSUME TypeOK, StepInv, [Next]_vars
    PROVE  \/ NewVersion
           \/ Onward
           \/ step' = step /\ version' = version /\ todo' \subseteq todo
<1>1. CASE NewVersion
  BY <1>1
<1>2. ASSUME NEW s \in Server, ServerStep(s)
      PROVE  \/ Onward
             \/ step' = step /\ version' = version /\ todo' \subseteq todo
  <2>1. s \in todo /\ DoneOn(s)
    BY <1>2 DEF ServerStep, Abort, AbortRaises, Load, SetLabel,
                ResumeGeneration, Sleep
  <2>2. QED
    BY <2>1, DoneOnFacts
<1>3. CASE \/ AddReplicas \/ RemoveReplicas \/ PoolChangeRaises
           \/ StartValidation \/ CollectValidation
  <2>1. step # 0 /\ Advance
    BY <1>3, StepFacts DEF AddReplicas, RemoveReplicas, PoolChangeRaises,
                           StartValidation, CollectValidation
  <2>2. QED
    BY <2>1, AdvanceFacts
<1>4. ASSUME NEW c \in Client, ClientStep(c) PROVE UNCHANGED trainer
  BY <1>4 DEF ClientStep, Begin, Acquire, Start, Token, Complete, Merge
<1>5. CASE UNCHANGED vars
  BY <1>5 DEF vars, trainer
<1>6. QED
  BY <1>1, <1>2, <1>3, <1>4, <1>5 DEF Next, TrainerStep, trainer

LEMMA StepInvStep ==
    ASSUME TypeOK, StepInv, [Next]_vars
    PROVE  /\ StepInv' /\ step' \in 0..19
           /\ todo' \subseteq Server /\ version' \in Version
<1>1. step \in 0..19 /\ version \in Version /\ todo \subseteq Server
  BY StepFacts DEF TypeOK
<1>2. CASE NewVersion
  BY <1>1, <1>2, NewVersionFacts, OnServers, BoundAssumption
  DEF NewVersion, StepInv, On, Version
<1>3. CASE Onward
  <2>1. step' \in 0..19 /\ step' # 1
    BY <1>3 DEF Onward
  <2>2. QED
    BY <1>1, <1>3, <2>1, OnServers DEF Onward, StepInv
<1>4. CASE step' = step /\ version' = version /\ todo' \subseteq todo
  BY <1>1, <1>4 DEF StepInv
<1>5. QED
  BY <1>2, <1>3, <1>4, Moves

-----------------------------------------------------------------------------
(* Types, and the pieces of a call.                                        *)

Held == Version \union {NoWeights}

LEMMA VersionFacts ==
    /\ Updates \in Nat /\ Budget \in Nat \ {0}
    /\ Version = 0..Updates /\ NoLabel = -1 /\ NoWeights = -1
BY BoundAssumption DEF Version, NoLabel, NoWeights

\* The tokens of two pieces are the tokens of the first and of the second.
LEMMA MergedFacts ==
    ASSUME TypeOK, NEW c \in Client
    PROVE  /\ Merged(c) \in Seq(Held)
           /\ Len(Merged(c)) = Len(tokens[c]) + Len(piece[c])
           /\ Len(tokens[c]) \in Nat /\ Len(piece[c]) \in Nat
           /\ DOMAIN tokens[c] = 1..Len(tokens[c])
           /\ DOMAIN piece[c] = 1..Len(piece[c])
           /\ DOMAIN Merged(c) = 1..Len(Merged(c))
           /\ \A i \in DOMAIN Merged(c) :
                 \/ i \in DOMAIN tokens[c] /\ Merged(c)[i] = tokens[c][i]
                 \/ \E j \in DOMAIN piece[c] : Merged(c)[i] = piece[c][j]
<1>1. tokens[c] \in Seq(Held) /\ piece[c] \in Seq(Held)
  BY DEF TypeOK, Held
<1>2. /\ Merged(c) \in Seq(Held)
      /\ Len(Merged(c)) = Len(tokens[c]) + Len(piece[c])
      /\ \A i \in 1..(Len(tokens[c]) + Len(piece[c])) :
            Merged(c)[i] = IF i <= Len(tokens[c]) THEN tokens[c][i]
                           ELSE piece[c][i - Len(tokens[c])]
  BY <1>1, ConcatProperties, Zenon DEF Merged
<1>3. /\ Len(tokens[c]) \in Nat /\ Len(piece[c]) \in Nat
      /\ DOMAIN tokens[c] = 1..Len(tokens[c])
      /\ DOMAIN piece[c] = 1..Len(piece[c])
      /\ DOMAIN Merged(c) = 1..Len(Merged(c))
  BY <1>1, <1>2, LenProperties, Zenon
<1>4. ASSUME NEW i \in DOMAIN Merged(c)
      PROVE  \/ i \in DOMAIN tokens[c] /\ Merged(c)[i] = tokens[c][i]
             \/ \E j \in DOMAIN piece[c] : Merged(c)[i] = piece[c][j]
  <2> DEFINE m == Len(tokens[c])  n == Len(piece[c])
  <2>a. i \in 1..(m + n) /\ m \in Nat /\ n \in Nat
    BY <1>2, <1>3
  <2>b. Merged(c)[i] = IF i <= m THEN tokens[c][i] ELSE piece[c][i - m]
    BY <1>2, <2>a
  <2>c. DOMAIN tokens[c] = 1..m /\ DOMAIN piece[c] = 1..n
    BY <1>3
  <2> HIDE DEF m, n
  <2>1. CASE i <= m
    BY <2>1, <2>a, <2>b, <2>c
  <2>2. CASE i > m
    <3>1. i - m \in 1..n
      BY <2>2, <2>a
    <3>2. QED
      BY <2>2, <2>a, <2>b, <2>c, <3>1
  <2>3. QED
    BY <2>1, <2>2, <2>a
<1>5. QED
  BY <1>2, <1>3, <1>4

LEMMA InitSound == Init => HybridRolloutInv
<1> SUFFICES ASSUME Init PROVE HybridRolloutInv
  OBVIOUS
<1> USE VersionFacts, OnServers
<1>1. TypeOK
  <2>1. /\ weights \in [Server -> Version \union {NoWeights}]
        /\ label \in [Server -> Version] /\ paused \in [Server -> BOOLEAN]
    BY DEF Init
  <2>2. pool \in SUBSET Server /\ todo \in SUBSET Server /\ version \in Version
    BY DEF Init
  <2>3. step \in 0..Len(Program) /\ failures \in 0..MaxFailures
    BY ProgramFacts, BoundAssumption DEF Init, ProgramTable
  <2>4. <<>> \in Seq(Version \union {NoWeights})
    BY EmptySeq
  <2>5. /\ piece \in [Client -> Seq(Version \union {NoWeights})]
        /\ tokens \in [Client -> Seq(Version \union {NoWeights})]
    BY <2>4 DEF Init
  <2>6. /\ state \in [Client -> States]
        /\ server \in [Client -> Server \union {NoServer}]
        /\ aborted \in [Client -> BOOLEAN]
    BY DEF Init, States
  <2>7. /\ limit \in [Client -> Int]
        /\ reported \in [Client -> Version \union {NoLabel}]
        /\ minLabel \in [Client -> Version \union {NoLabel}]
        /\ maxLabel \in [Client -> Version \union {NoLabel}]
    BY DEF Init
  <2>8. calls \in [Client -> Nat] /\ heldOver \in SUBSET Client
    BY BoundAssumption DEF Init
  <2>9. QED
    BY <2>1, <2>2, <2>3, <2>5, <2>6, <2>7, <2>8 DEF TypeOK
<1>2. StepInv
  BY DEF Init, StepInv, On
<1>3. ASSUME NEW c \in Client PROVE CallInv(c)
  BY DEF Init, CallInv
<1>4. EnginesInv
  BY ServerAssumption
  DEF Init, EnginesInv, StandaloneInv, HybridInv, Awake
<1>5. ASSUME NEW c \in Client PROVE ClientInv(c)
  BY DEF Init, ClientInv, Placed, PieceInv, LabelInv
<1>6. QED
  BY <1>1, <1>2, <1>3, <1>4, <1>5 DEF HybridRolloutInv, SoundInv, ClientsInv

LEMMA ServerTypes ==
    ASSUME TypeOK, StepInv, NEW s \in Server, ServerStep(s)
    PROVE  TypeOK'
<1> USE VersionFacts, BoundAssumption
<1>1. /\ step' \in 0..Len(Program) /\ todo' \in SUBSET Server
      /\ version' \in Version
  <2>1. [Next]_vars
    BY DEF Next, TrainerStep
  <2>2. QED
    BY <2>1, StepInvStep, ProgramFacts DEF ProgramTable
<1>2. CASE Abort(s)
  <2>1. paused' \in [Server -> BOOLEAN] /\ aborted' \in [Client -> BOOLEAN]
    BY <1>2 DEF Abort, TypeOK
  <2>2. state' \in [Client -> States]
    BY <1>2 DEF Abort, TypeOK, States
  <2>3. reported' \in [Client -> Version \union {NoLabel}]
    BY <1>2 DEF Abort, TypeOK
  <2>4. QED
    BY <1>1, <1>2, <2>1, <2>2, <2>3 DEF Abort, TypeOK, output
<1>3. CASE AbortRaises(s)
  <2>1. paused' \in [Server -> BOOLEAN]
    BY <1>3 DEF AbortRaises, TypeOK
  <2>2. QED
    BY <1>1, <1>3, <2>1 DEF AbortRaises, TypeOK, request, output
<1>4. CASE Load(s)
  BY <1>1, <1>4 DEF Load, TypeOK, request, output
<1>5. CASE SetLabel(s)
  BY <1>1, <1>5 DEF SetLabel, TypeOK, request, output
<1>6. CASE ResumeGeneration(s)
  BY <1>1, <1>6 DEF ResumeGeneration, TypeOK, request, output
<1>7. CASE Sleep(s)
  BY <1>1, <1>7 DEF Sleep, TypeOK, request, output
<1>8. QED
  BY <1>2, <1>3, <1>4, <1>5, <1>6, <1>7 DEF ServerStep

LEMMA ClientTypes ==
    ASSUME TypeOK, NEW c \in Client, CallInv(c), ClientStep(c)
    PROVE  TypeOK'
<1> USE VersionFacts DEF States
<1>1. CASE Begin(c)
  <2>1. tokens' \in [Client -> Seq(Version \union {NoWeights})]
    BY <1>1, EmptySeq DEF Begin, TypeOK
  <2>2. limit' \in [Client -> Int] /\ calls' \in [Client -> Nat]
    BY <1>1 DEF Begin, TypeOK
  <2>3. /\ minLabel' \in [Client -> Version \union {NoLabel}]
        /\ maxLabel' \in [Client -> Version \union {NoLabel}]
        /\ state' \in [Client -> States]
    BY <1>1 DEF Begin, TypeOK
  <2>4. QED
    BY <1>1, <2>1, <2>2, <2>3 DEF Begin, TypeOK, engines, trainer
<1>2. CASE \E s \in Server : Acquire(c, s)
  BY <1>2 DEF Acquire, TypeOK, engines, trainer, output
<1>3. CASE Start(c)
  BY <1>3 DEF Start, TypeOK, engines, trainer, output
<1>4. CASE Token(c)
  <2>1. server[c] \in Server
    BY <1>4 DEF Token, CallInv
  <2>2. Append(piece[c], weights[server[c]]) \in Seq(Version \union {NoWeights})
    BY <2>1 DEF TypeOK
  <2>3. piece' \in [Client -> Seq(Version \union {NoWeights})]
    BY <1>4, <2>2 DEF Token, TypeOK
  <2>4. QED
    BY <1>4, <2>3 DEF Token, TypeOK, engines, trainer, output
<1>5. CASE Complete(c)
  <2>1. server[c] \in Server
    BY <1>5 DEF Complete, CallInv
  <2>2. reported' \in [Client -> Version \union {NoLabel}]
    BY <1>5, <2>1 DEF Complete, TypeOK
  <2>3. QED
    BY <1>5, <2>2 DEF Complete, TypeOK, engines, trainer, output
<1>6. CASE Merge(c)
  <2>1. tokens' \in [Client -> Seq(Version \union {NoWeights})]
    BY <1>6, MergedFacts DEF Merge, TypeOK, Held
  <2>2. piece' \in [Client -> Seq(Version \union {NoWeights})]
    BY <1>6, EmptySeq DEF Merge, TypeOK
  <2>3. limit' \in [Client -> Int]
    BY <1>6, MergedFacts DEF Merge, MergeLimit, TypeOK
  <2>4. /\ minLabel' \in [Client -> Version \union {NoLabel}]
        /\ maxLabel' \in [Client -> Version \union {NoLabel}]
    <3>1. PICK l \in {reported[c]} \union {NoLabel} : MergeLabels(c, l)
      BY <1>6 DEF Merge
    <3>2. l \in Version \union {NoLabel}
      BY <3>1 DEF TypeOK
    <3>3. QED
      BY <3>1, <3>2 DEF MergeLabels, TypeOK
  <2>5. /\ state' \in [Client -> States]
        /\ server' \in [Client -> Server \union {NoServer}]
        /\ reported' \in [Client -> Version \union {NoLabel}]
        /\ aborted' \in [Client -> BOOLEAN]
    BY <1>6 DEF Merge, TypeOK
  <2>6. QED
    BY <1>6, <2>1, <2>2, <2>3, <2>4, <2>5 DEF Merge, TypeOK, engines, trainer
<1>7. QED
  BY <1>1, <1>2, <1>3, <1>4, <1>5, <1>6 DEF ClientStep

LEMMA TypeStep == SoundInv /\ [Next]_vars => TypeOK'
<1> SUFFICES ASSUME SoundInv, [Next]_vars PROVE TypeOK'
  OBVIOUS
<1>1. TypeOK /\ StepInv /\ \A c \in Client : CallInv(c)
  BY DEF SoundInv
<1>2. /\ step' \in 0..Len(Program) /\ todo' \in SUBSET Server
      /\ version' \in Version
  BY <1>1, StepInvStep, ProgramFacts DEF ProgramTable
<1>3. CASE NewVersion
  BY <1>1, <1>2, <1>3 DEF NewVersion, TypeOK, engines, request, output
<1>4. CASE AddReplicas \/ RemoveReplicas \/ CollectValidation
  BY <1>1, <1>2, <1>4, OnServers
  DEF AddReplicas, RemoveReplicas, CollectValidation, TypeOK, engines, request,
      output
<1>5. CASE PoolChangeRaises
  BY <1>1, <1>2, <1>5, BoundAssumption
  DEF PoolChangeRaises, TypeOK, engines, request, output
<1>6. CASE StartValidation
  <2>1. calls' \in [Client -> Nat]
    BY <1>1, <1>6 DEF StartValidation, TypeOK
  <2>2. QED
    BY <1>1, <1>2, <1>6, <2>1
    DEF StartValidation, TypeOK, engines, request, output
<1>7. CASE UNCHANGED vars
  BY <1>1, <1>7 DEF vars, engines, trainer, request, output, TypeOK
<1>8. QED
  BY <1>1, <1>3, <1>4, <1>5, <1>6, <1>7, ServerTypes, ClientTypes
  DEF Next, TrainerStep

\* A call that a step does not touch.
LEMMA CallSame ==
    ASSUME NEW c \in Client, CallInv(c),
           /\ state'[c] = state[c] /\ server'[c] = server[c]
           /\ limit'[c] = limit[c] /\ piece'[c] = piece[c]
           /\ aborted'[c] = aborted[c] /\ tokens'[c] = tokens[c]
    PROVE  CallInv(c)'
BY DEF CallInv

LEMMA CallStep ==
    ASSUME SoundInv, [Next]_vars, NEW d \in Client
    PROVE  CallInv(d)'
<1>0. TypeOK /\ CallInv(d)
  BY DEF SoundInv
<1>1. CASE UNCHANGED <<request, output>>
  BY <1>0, <1>1, CallSame DEF request, output
<1>2. ASSUME NEW s \in Server, Abort(s) PROVE CallInv(d)'
  <2>1. /\ server' = server /\ piece' = piece /\ UNCHANGED output
        /\ d \in RunningOn(s) => state'[d] = "back" /\ aborted'[d]
        /\ d \notin RunningOn(s) => state'[d] = state[d] /\ aborted'[d] = aborted[d]
    BY <1>0, <1>2 DEF Abort, TypeOK
  <2>2. CASE d \in RunningOn(s)
    BY <1>0, <2>1, <2>2 DEF CallInv, RunningOn, output
  <2>3. CASE d \notin RunningOn(s)
    BY <1>0, <2>1, <2>3, CallSame DEF output
  <2>4. QED
    BY <2>2, <2>3
<1>3. ASSUME NEW c \in Client, ClientStep(c), c # d PROVE CallInv(d)'
  <2>1. /\ state'[d] = state[d] /\ server'[d] = server[d]
        /\ limit'[d] = limit[d] /\ piece'[d] = piece[d]
        /\ aborted'[d] = aborted[d] /\ tokens'[d] = tokens[d]
    BY <1>0, <1>3 DEF ClientStep, Begin, Acquire, Start, Token, Complete, Merge,
       MergeLimit, TypeOK, output
  <2>2. QED
    BY <1>0, <2>1, CallSame
<1>4. CASE Begin(d)
  <2>1. /\ state'[d] = "acquire" /\ limit'[d] = Budget /\ tokens'[d] = <<>>
        /\ piece'[d] = piece[d] /\ state[d] = "idle"
    BY <1>0, <1>4 DEF Begin, TypeOK
  <2>2. QED
    BY <1>0, <2>1, VersionFacts DEF CallInv
<1>5. CASE \E s \in Server : Acquire(d, s)
  BY <1>0, <1>5 DEF Acquire, TypeOK, output, CallInv
<1>6. CASE Start(d)
  BY <1>0, <1>6 DEF Start, TypeOK, output, CallInv
<1>7. CASE Token(d)
  <2>1. /\ state[d] = "running" /\ state' = state /\ server' = server
        /\ aborted' = aborted /\ limit' = limit /\ tokens' = tokens
        /\ piece'[d] = Append(piece[d], weights[server[d]])
        /\ Len(piece[d]) < limit[d]
    BY <1>0, <1>7 DEF Token, TypeOK, output
  <2>2. Len(piece'[d]) = Len(piece[d]) + 1 /\ Len(piece[d]) \in Nat
    BY <1>0, <2>1 DEF TypeOK
  <2>3. Len(piece'[d]) <= limit'[d]
    BY <1>0, <2>1, <2>2 DEF TypeOK
  <2>4. QED
    BY <1>0, <2>1, <2>3 DEF CallInv
<1>8. CASE Complete(d)
  BY <1>0, <1>8 DEF Complete, TypeOK, output, CallInv
<1>9. CASE Merge(d)
  <2>1. /\ tokens'[d] = Merged(d) /\ piece'[d] = <<>>
        /\ limit'[d] = Budget - Len(Merged(d))
        /\ state'[d] = IF Over(d) THEN "idle" ELSE "acquire"
        /\ state[d] = "back"
    BY <1>0, <1>9 DEF Merge, MergeLimit, TypeOK
  <2>2. /\ Len(Merged(d)) = Len(tokens[d]) + Len(piece[d])
        /\ Len(tokens[d]) \in Nat /\ Len(piece[d]) \in Nat
    BY <1>0, MergedFacts
  <2>3. Len(Merged(d)) <= Budget
    BY <1>0, <2>1, <2>2, VersionFacts DEF CallInv, TypeOK
  <2>4. ~Over(d) => Budget - Len(Merged(d)) > 0
    <3>1. ~Over(d) => ~(Len(Merged(d)) >= Budget)
      BY DEF Over
    <3>2. Len(Merged(d)) \in Nat
      BY <1>0, MergedFacts, LenProperties, Zenon
    <3>3. QED
      BY <3>1, <3>2, VersionFacts
  <2>5. Len(piece'[d]) = 0
    BY <2>1
  <2>6. /\ limit'[d] = Budget - Len(tokens'[d])
        /\ state'[d] # "idle" => limit'[d] > 0
        /\ Len(tokens'[d]) <= Budget
    BY <2>1, <2>3, <2>4
  <2>7. state'[d] # "idle" => Len(piece'[d]) <= limit'[d]
    <3> SUFFICES ASSUME state'[d] # "idle" PROVE 0 <= limit'[d]
      BY <2>5
    <3>1. Budget - Len(Merged(d)) > 0 /\ limit'[d] = Budget - Len(Merged(d))
      BY <2>1, <2>4
    <3>2. Len(Merged(d)) \in Nat
      BY <1>0, MergedFacts, LenProperties, Zenon
    <3>3. QED
      BY <3>1, <3>2, VersionFacts
  <2>8. QED
    BY <2>1, <2>6, <2>7 DEF CallInv
<1>10. ASSUME NEW c \in Client, ClientStep(c) PROVE CallInv(d)'
  <2>1. CASE c = d
    BY <1>4, <1>5, <1>6, <1>7, <1>8, <1>9, <1>10, <2>1 DEF ClientStep
  <2>2. CASE c # d
    BY <1>3, <1>10, <2>2
  <2>3. QED
    BY <2>1, <2>2
<1>11. QED
  <2>1. CASE \E s \in Server : Abort(s)
    BY <1>2, <2>1
  <2>2. CASE \E c \in Client : ClientStep(c)
    BY <1>10, <2>2
  <2>3. CASE UNCHANGED vars \/ (TrainerStep /\ ~ \E s \in Server : Abort(s))
    <3>1. UNCHANGED <<request, output>>
      BY <2>3 DEF vars, TrainerStep, NewVersion, ServerStep, AbortRaises, Load,
         SetLabel, ResumeGeneration, Sleep, AddReplicas, RemoveReplicas,
         PoolChangeRaises, StartValidation, CollectValidation
    <3>2. QED
      BY <1>1, <3>1
  <2>4. QED
    BY <2>1, <2>2, <2>3 DEF Next

LEMMA SoundStep == SoundInv /\ [Next]_vars => SoundInv'
<1> SUFFICES ASSUME SoundInv, [Next]_vars PROVE SoundInv'
  OBVIOUS
<1>1. StepInv'
  BY StepInvStep DEF SoundInv
<1>2. QED
  BY <1>1, TypeStep, CallStep DEF SoundInv

-----------------------------------------------------------------------------
(* What the engines hold, as long as nothing failed.                       *)

LEMMA NoFailure ==
    ASSUME TypeOK, [Next]_vars, failures' = 0
    PROVE  /\ failures = 0
           /\ \A s \in Server : ~AbortRaises(s)
           /\ ~PoolChangeRaises
<1>1. failures \in Nat
  BY BoundAssumption DEF TypeOK
<1>2. \A s \in Server : ~AbortRaises(s)
  BY <1>1 DEF AbortRaises
<1>3. ~PoolChangeRaises
  BY <1>1 DEF PoolChangeRaises
<1>4. failures' = failures
  BY <1>2, <1>3 DEF Next, TrainerStep, NewVersion, ServerStep, Abort, Load,
     SetLabel, ResumeGeneration, Sleep, AddReplicas, RemoveReplicas,
     StartValidation, CollectValidation, ClientStep, Begin, Acquire, Start,
     Token, Complete, Merge, vars
<1>5. QED
  BY <1>2, <1>3, <1>4

\* The clients of a step of the trainer have their servers where they were.
LEMMA ServerEngines ==
    ASSUME SoundInv, EnginesInv, NEW s \in Server,
           Abort(s) \/ Load(s) \/ SetLabel(s) \/ ResumeGeneration(s) \/ Sleep(s)
    PROVE  EnginesInv'
<1>0. /\ TypeOK /\ StepInv /\ s \in todo /\ DoneOn(s) /\ pool' = pool
  BY DEF SoundInv, Abort, Load, SetLabel, ResumeGeneration, Sleep
<1>00. version' = version
  BY <1>0, DoneOnFacts DEF Onward
<1>a. /\ TypeOK /\ StepInv /\ s \in todo /\ DoneOn(s) /\ pool' = pool
      /\ todo \subseteq On(step) /\ step \in 0..19 /\ version \in Version
      /\ version' = version
  <2>1. step \in 0..19
    BY <1>0, StepFacts
  <2>2. QED
    BY <1>0, <1>00, <2>1 DEF StepInv, TypeOK
<1>b. \/ /\ todo = {s} /\ step' = IF step < 19 THEN step + 1 ELSE 0
         /\ todo' = On(step')
      \/ todo' = todo \ {s} /\ step' = step
  BY <1>a, DoneOnFacts DEF Onward
<1>c. Standalone \intersect Hybrid = {}
  BY ServerAssumption
<1>1. CASE Abort(s)
  <2>1. /\ step \in {1, 7, 8, 14, 15} /\ weights' = weights /\ label' = label
        /\ paused' = [paused EXCEPT ![s] = TRUE]
    BY <1>1, <1>a, StepFacts DEF Abort
  <2>2. ASSUME NEW t \in Standalone PROVE StandaloneInv(t)'
    <3>1. StandaloneInv(t) /\ paused'[t] = (paused[t] \/ t = s)
      BY <1>a, <2>1 DEF EnginesInv, TypeOK, Server
    <3>2. CASE step = 1 /\ todo = {s} /\ step' = 2
      <4>1. weights'[t] \in Version /\ paused'[t] /\ t \in Standalone
        BY <2>1, <3>1, <3>2 DEF StandaloneInv
      <4>2. todo' = Standalone
        BY <1>b, <3>2 DEF On
      <4>3. QED
        BY <3>2, <4>1, <4>2 DEF StandaloneInv
    <3>5. CASE step = 1 /\ todo' = todo \ {s} /\ step' = 1
      <4>1. Served' = Served
        BY <1>a, <3>5 DEF Served
      <4>2. QED
        BY <1>a, <2>1, <3>1, <3>5, <4>1 DEF StandaloneInv
    <3>3. CASE step # 1
      BY <1>a, <1>b, <2>1, <3>1, <3>3 DEF StandaloneInv
    <3>4. QED
      BY <1>b, <3>2, <3>3, <3>5
  <2>3. ASSUME NEW t \in Hybrid PROVE HybridInv(t)'
    <3>1. HybridInv(t)
      BY DEF EnginesInv
    <3>2. CASE step = 1
      BY <1>a, <1>b, <2>1, <3>1, <3>2 DEF HybridInv, Awake
    <3>3. CASE step # 1
      BY <1>a, <1>b, <2>1, <3>1, <3>3 DEF HybridInv, Awake
    <3>4. QED
      BY <3>2, <3>3
  <2>4. step' \notin 10..16 => pool' \subseteq Standalone
    BY <1>a, <1>b, <2>1 DEF EnginesInv
  <2>5. QED
    BY <2>2, <2>3, <2>4 DEF EnginesInv
<1>2. CASE Load(s)
  <2>1. /\ step \in {2, 5} /\ weights' = [weights EXCEPT ![s] = version]
        /\ label' = label /\ paused' = paused
    BY <1>2, <1>a, StepFacts DEF Load
  <2>2. ASSUME NEW t \in Standalone PROVE StandaloneInv(t)'
    <3>1. /\ StandaloneInv(t)
          /\ weights'[t] = IF t = s THEN version ELSE weights[t]
      BY <1>a, <2>1 DEF EnginesInv, TypeOK, Server
    <3>2. CASE step = 2
      BY <1>a, <1>b, <2>1, <3>1, <3>2 DEF StandaloneInv, On
    <3>3. CASE step = 5
      <4>1. t # s
        BY <1>a, <1>c, <3>3 DEF On
      <4>2. QED
        BY <1>a, <1>b, <2>1, <3>1, <3>3, <4>1 DEF StandaloneInv
    <3>4. QED
      BY <2>1, <3>2, <3>3
  <2>3. ASSUME NEW t \in Hybrid PROVE HybridInv(t)'
    <3>1. /\ HybridInv(t)
          /\ weights'[t] = IF t = s THEN version ELSE weights[t]
      BY <1>a, <2>1 DEF EnginesInv, TypeOK, Server
    <3>2. CASE step = 2
      <4>1. t # s
        BY <1>a, <1>c, <3>2 DEF On
      <4>2. QED
        BY <1>a, <1>b, <2>1, <3>1, <3>2, <4>1 DEF HybridInv, Awake
    <3>3. CASE step = 5
      BY <1>a, <1>b, <2>1, <3>1, <3>3 DEF HybridInv, Awake, On
    <3>4. QED
      BY <2>1, <3>2, <3>3
  <2>4. step' \notin 10..16 => pool' \subseteq Standalone
    BY <1>a, <1>b, <2>1 DEF EnginesInv
  <2>5. QED
    BY <2>2, <2>3, <2>4 DEF EnginesInv
<1>3. CASE SetLabel(s)
  <2>1. /\ step \in {3, 6} /\ label' = [label EXCEPT ![s] = version]
        /\ weights' = weights /\ paused' = paused
    BY <1>3, <1>a, StepFacts DEF SetLabel
  <2>2. ASSUME NEW t \in Standalone PROVE StandaloneInv(t)'
    <3>1. /\ StandaloneInv(t)
          /\ label'[t] = IF t = s THEN version ELSE label[t]
      BY <1>a, <2>1 DEF EnginesInv, TypeOK, Server
    <3>2. CASE step = 3
      BY <1>a, <1>b, <2>1, <3>1, <3>2 DEF StandaloneInv, On
    <3>3. CASE step = 6
      <4>1. t # s
        BY <1>a, <1>c, <3>3 DEF On
      <4>2. QED
        BY <1>a, <1>b, <2>1, <3>1, <3>3, <4>1 DEF StandaloneInv
    <3>4. QED
      BY <2>1, <3>2, <3>3
  <2>3. ASSUME NEW t \in Hybrid PROVE HybridInv(t)'
    <3>1. /\ HybridInv(t)
          /\ label'[t] = IF t = s THEN version ELSE label[t]
      BY <1>a, <2>1 DEF EnginesInv, TypeOK, Server
    <3>2. CASE step = 3
      <4>1. t # s
        BY <1>a, <1>c, <3>2 DEF On
      <4>2. QED
        BY <1>a, <1>b, <2>1, <3>1, <3>2, <4>1 DEF HybridInv, Awake
    <3>3. CASE step = 6
      BY <1>a, <1>b, <2>1, <3>1, <3>3 DEF HybridInv, Awake, On
    <3>4. QED
      BY <2>1, <3>2, <3>3
  <2>4. step' \notin 10..16 => pool' \subseteq Standalone
    BY <1>a, <1>b, <2>1 DEF EnginesInv
  <2>5. QED
    BY <2>2, <2>3, <2>4 DEF EnginesInv
<1>4. CASE ResumeGeneration(s)
  <2>1. /\ step \in {4, 10, 11, 18, 19} /\ weights' = weights /\ label' = label
    BY <1>4, <1>a, StepFacts DEF ResumeGeneration
  <2>2. ASSUME NEW t \in Standalone PROVE StandaloneInv(t)'
    BY <1>a, <1>b, <2>1 DEF EnginesInv, StandaloneInv
  <2>3. ASSUME NEW t \in Hybrid PROVE HybridInv(t)'
    BY <1>a, <1>b, <2>1 DEF EnginesInv, HybridInv, Awake, On
  <2>4. step' \notin 10..16 => pool' \subseteq Standalone
    BY <1>a, <1>b, <2>1 DEF EnginesInv
  <2>5. QED
    BY <2>2, <2>3, <2>4 DEF EnginesInv
<1>5. CASE Sleep(s)
  <2>1. /\ step = 17 /\ weights' = [weights EXCEPT ![s] = NoWeights]
        /\ label' = label /\ paused' = paused
    BY <1>5, <1>a, StepFacts DEF Sleep
  <2>2. ASSUME NEW t \in Standalone PROVE StandaloneInv(t)'
    <3>1. StandaloneInv(t) /\ t # s
      BY <1>a, <1>c, <2>1 DEF EnginesInv, On
    <3>2. weights'[t] = weights[t]
      BY <2>1, <3>1 DEF SoundInv, TypeOK
    <3>3. QED
      BY <1>a, <1>b, <2>1, <3>1, <3>2 DEF StandaloneInv
  <2>3. ASSUME NEW t \in Hybrid PROVE HybridInv(t)'
    <3>1. /\ HybridInv(t)
          /\ weights'[t] = IF t = s THEN NoWeights ELSE weights[t]
      BY <1>a, <2>1 DEF EnginesInv, TypeOK, Server
    <3>2. QED
      BY <1>a, <1>b, <2>1, <3>1 DEF HybridInv, Awake
  <2>4. step' \notin 10..16 => pool' \subseteq Standalone
    BY <1>a, <1>b, <2>1 DEF EnginesInv
  <2>5. QED
    BY <2>2, <2>3, <2>4 DEF EnginesInv
<1>6. QED
  BY <1>1, <1>2, <1>3, <1>4, <1>5

LEMMA EnginesStep ==
    ASSUME SoundInv, EnginesInv, [Next]_vars, failures' = 0
    PROVE  EnginesInv'
<1>a. TypeOK /\ StepInv /\ step \in 0..19 /\ version \in Version
  BY StepFacts DEF SoundInv, TypeOK
<1>1. CASE NewVersion
  <2>1. /\ step = 0 /\ step' = 1 /\ todo' = Standalone /\ version' = version + 1
        /\ weights' = weights /\ label' = label /\ paused' = paused /\ pool' = pool
    BY <1>1, <1>a, NewVersionFacts DEF NewVersion, engines
  <2>2. ASSUME NEW t \in Standalone PROVE StandaloneInv(t)'
    BY <1>a, <2>1, VersionFacts DEF EnginesInv, StandaloneInv, Served
  <2>3. ASSUME NEW t \in Hybrid PROVE HybridInv(t)'
    BY <1>a, <2>1 DEF EnginesInv, HybridInv, Awake
  <2>4. QED
    BY <2>1, <2>2, <2>3 DEF EnginesInv
<1>2. CASE \E s \in Server : ServerStep(s)
  BY <1>2, <1>a, NoFailure, ServerEngines DEF ServerStep
<1>3. CASE \/ AddReplicas \/ RemoveReplicas
           \/ StartValidation \/ CollectValidation
  <2>1. /\ weights' = weights /\ label' = label /\ paused' = paused
        /\ step \in {9, 16, 12, 13} /\ Advance
    BY <1>3, <1>a, StepFacts DEF AddReplicas, RemoveReplicas, StartValidation,
       CollectValidation, engines
  <2>2. /\ step' = step + 1 /\ todo' = On(step + 1) /\ version' = version
    BY <1>a, <2>1, AdvanceFacts DEF Onward
  <2>3. ASSUME NEW t \in Standalone PROVE StandaloneInv(t)'
    BY <1>a, <2>1, <2>2 DEF EnginesInv, StandaloneInv
  <2>4. ASSUME NEW t \in Hybrid PROVE HybridInv(t)'
    BY <1>a, <2>1, <2>2 DEF EnginesInv, HybridInv, Awake, On
  <2>5. step' \notin 10..16 => pool' \subseteq Standalone
    <3>1. CASE RemoveReplicas
      BY <1>a, <3>1 DEF RemoveReplicas, TypeOK, Server
    <3>2. CASE AddReplicas
      BY <1>a, <2>2, <3>2, StepFacts DEF AddReplicas
    <3>3. CASE StartValidation \/ CollectValidation
      BY <1>a, <2>2, <3>3, StepFacts DEF StartValidation, CollectValidation
    <3>4. QED
      BY <1>3, <3>1, <3>2, <3>3
  <2>6. QED
    BY <2>3, <2>4, <2>5 DEF EnginesInv
<1>4. CASE UNCHANGED <<engines, pool, trainer>>
  BY <1>4 DEF engines, trainer, EnginesInv, StandaloneInv, HybridInv, Awake,
     Served
<1>5. CASE \E c \in Client : ClientStep(c)
  <2>1. UNCHANGED <<engines, pool, trainer>>
    BY <1>5 DEF ClientStep, Begin, Acquire, Start, Token, Complete, Merge
  <2>2. QED
    BY <1>4, <2>1
<1>6. CASE UNCHANGED vars
  BY <1>4, <1>6 DEF vars
<1>7. QED
  BY <1>a, <1>1, <1>2, <1>3, <1>5, <1>6, NoFailure DEF Next, TrainerStep

-----------------------------------------------------------------------------
(* What the calls get, as long as nothing failed.                          *)

LEMMA HeldFacts ==
    /\ Held \subseteq Int
    /\ \A q \in Seq(Held) : \A i \in DOMAIN q : q[i] \in Int
<1>1. Held \subseteq Int
  BY VersionFacts DEF Held
<1>2. ASSUME NEW q \in Seq(Held), NEW i \in DOMAIN q PROVE q[i] \in Int
  <2>1. i \in 1..Len(q)
    BY LenProperties
  <2>2. q[i] \in Held
    BY <2>1, ElementOfSeq
  <2>3. QED
    BY <1>1, <2>2
<1>3. QED
  BY <1>1, <1>2

LEMMA ServedFacts ==
    ASSUME SoundInv, [Next]_vars
    PROVE  /\ Served \in 0..Updates /\ Served' \in 0..Updates
           /\ Served <= Served'
           /\ Served' # Served => step = 1 /\ step' = 2
<1>a. TypeOK /\ StepInv /\ TypeOK' /\ StepInv'
  BY SoundStep DEF SoundInv
<1>b. step \in 0..19 /\ version \in 0..Updates /\ version' \in 0..Updates
  BY <1>a, StepFacts, VersionFacts DEF TypeOK
<1>c. /\ step = 1 => version >= 1
      /\ step' = 1 => version' >= 1
      /\ step' \in 0..19 /\ Updates \in Nat
  BY <1>a, StepInvStep, VersionFacts DEF StepInv
<1>1. /\ Served \in 0..Updates /\ Served' \in 0..Updates
  <2>1. Served = IF step = 1 THEN version - 1 ELSE version
    BY DEF Served
  <2>2. Served' = IF step' = 1 THEN version' - 1 ELSE version'
    BY DEF Served
  <2>3. Served \in 0..Updates
    BY <1>b, <1>c, <2>1
  <2>4. Served' \in 0..Updates
    <3>1. CASE step' = 1
      <4>1. ASSUME NEW v \in 0..Updates, v >= 1 PROVE v - 1 \in 0..Updates
        BY <1>c, <4>1
      <4>2. version' - 1 \in 0..Updates
        BY <1>b, <1>c, <3>1, <4>1
      <4>3. Served' = version' - 1
        BY <2>2, <3>1
      <4>4. QED
        BY <4>2, <4>3
    <3>2. CASE step' # 1
      BY <1>b, <2>2, <3>2, Zenon
    <3>3. QED
      BY <3>1, <3>2
  <2>5. QED
    BY <2>3, <2>4
<1>2. CASE NewVersion
  BY <1>a, <1>b, <1>2, NewVersionFacts, VersionFacts DEF Served
<1>3. CASE Onward
  <2>1. version' = version /\ step \in 1..19 /\ step' # 1
    BY <1>3 DEF Onward
  <2>2. step = 1 => step' = 2
    BY <1>3 DEF Onward
  <2>3. Served' = version
    BY <2>1 DEF Served
  <2>4. QED
    BY <1>b, <1>c, <2>1, <2>2, <2>3 DEF Served
<1>4. CASE step' = step /\ version' = version
  <2>1. Served' = Served
    BY <1>4 DEF Served
  <2>2. QED
    BY <1>1, <2>1
<1>5. QED
  BY <1>a, <1>1, <1>2, <1>3, <1>4, Moves

\* A call that runs, runs on the version the engines serve, under its label.
LEMMA RunningFacts ==
    ASSUME SoundInv, EnginesInv, NEW d \in Client, Placed(d),
           state[d] = "running"
    PROVE  /\ server[d] \in Server
           /\ weights[server[d]] = Served /\ label[server[d]] = Served
<1>a. /\ TypeOK /\ server[d] \in Server /\ step \in 0..19
  BY StepFacts DEF SoundInv, CallInv
<1>1. CASE server[d] \in Hybrid
  <2>1. step \in 10..16 \/ (step = 17 /\ server[d] \in todo)
    BY <1>1 DEF Placed
  <2>2. HybridInv(server[d])
    BY <1>1 DEF EnginesInv
  <2>3. QED
    BY <1>a, <2>1, <2>2 DEF HybridInv, Awake, Served
<1>2. CASE server[d] \in Standalone
  <2>1. StandaloneInv(server[d])
    BY <1>2 DEF EnginesInv
  <2>2. QED
    BY <1>a, <1>2, <2>1 DEF StandaloneInv, Placed, Served
<1>3. QED
  BY <1>a, <1>1, <1>2 DEF Server

\* A call is the same, and its server still serves it.
LEMMA ClientSame ==
    ASSUME SoundInv, [Next]_vars, NEW d \in Client, ClientInv(d), Placed(d)',
           state'[d] = state[d], server'[d] = server[d], piece'[d] = piece[d],
           reported'[d] = reported[d], tokens'[d] = tokens[d],
           minLabel'[d] = minLabel[d], maxLabel'[d] = maxLabel[d]
    PROVE  ClientInv(d)'
<1>a. /\ Served \in 0..Updates /\ Served' \in 0..Updates /\ Served <= Served'
  BY ServedFacts
<1>b. /\ TypeOK /\ tokens[d] \in Seq(Held)
      /\ minLabel[d] \in Version \union {NoLabel}
  BY DEF SoundInv, TypeOK, Held
<1>c. \A i \in DOMAIN tokens[d] : tokens[d][i] \in Int
  BY <1>b, HeldFacts
<1>1. state[d] = "running" => Served' = Served
  <2> SUFFICES ASSUME state[d] = "running", step' = 2 PROVE FALSE
    BY ServedFacts
  <2>1. server'[d] \in Server
    BY DEF SoundInv, CallInv
  <2>2. QED
    BY <2>1 DEF Placed, Server
<1>2. PieceInv(d)'
  BY <1>a, <1>1, VersionFacts DEF ClientInv, PieceInv
<1>3. LabelInv(d)'
  BY <1>a, <1>b, <1>c, VersionFacts DEF ClientInv, LabelInv
<1>4. QED
  BY <1>2, <1>3 DEF ClientInv

\* A call comes back with the label of the version that made it.
LEMMA ClientBack ==
    ASSUME SoundInv, EnginesInv, [Next]_vars, NEW d \in Client, ClientInv(d),
           state[d] = "running", state'[d] = "back", server'[d] = server[d],
           piece'[d] = piece[d], reported'[d] = label[server[d]],
           tokens'[d] = tokens[d], minLabel'[d] = minLabel[d],
           maxLabel'[d] = maxLabel[d]
    PROVE  ClientInv(d)'
<1>a. /\ Served \in 0..Updates /\ Served' \in 0..Updates /\ Served <= Served'
  BY ServedFacts
<1>b. /\ TypeOK /\ tokens[d] \in Seq(Held)
      /\ minLabel[d] \in Version \union {NoLabel}
  BY DEF SoundInv, TypeOK, Held
<1>c. \A i \in DOMAIN tokens[d] : tokens[d][i] \in Int
  BY <1>b, HeldFacts
<1>1. reported'[d] = Served
  BY RunningFacts DEF ClientInv
<1>2. PieceInv(d)'
  BY <1>a, <1>1, VersionFacts DEF ClientInv, PieceInv
<1>3. LabelInv(d)'
  BY <1>a, <1>b, <1>c, <1>1, VersionFacts DEF ClientInv, LabelInv
<1>4. QED
  BY <1>2, <1>3 DEF ClientInv, Placed

\* A step of the trainer leaves a call where it is served, or takes it back.
LEMMA ServerPlaced ==
    ASSUME SoundInv, EnginesInv, NEW s \in Server, NEW d \in Client, Placed(d),
           Abort(s) \/ Load(s) \/ SetLabel(s) \/ ResumeGeneration(s) \/ Sleep(s),
           state'[d] = state[d], server'[d] = server[d], d \notin heldOver',
           Abort(s) => d \notin RunningOn(s)
    PROVE  Placed(d)'
<1>0. /\ TypeOK /\ StepInv /\ s \in todo /\ DoneOn(s)
  BY DEF SoundInv, Abort, Load, SetLabel, ResumeGeneration, Sleep
<1>a. /\ step \in 0..19 /\ todo \subseteq On(step)
      /\ Standalone \intersect Hybrid = {}
  BY <1>0, StepFacts, ServerAssumption DEF StepInv
<1>b. \/ /\ todo = {s} /\ step' = IF step < 19 THEN step + 1 ELSE 0
         /\ todo' = On(step')
      \/ todo' = todo \ {s} /\ step' = step
  BY <1>0, DoneOnFacts DEF Onward
<1>1. ASSUME state[d] \in {"sent", "running"}, server[d] \in Hybrid
      PROVE  step' \in 10..16 \/ (step' = 17 /\ server'[d] \in todo')
  <2>1. step \in 10..16 \/ (step = 17 /\ server[d] \in todo)
    BY <1>1 DEF Placed
  <2>2. CASE step \in 10..16
    BY <1>1, <1>a, <1>b, <2>2 DEF On
  <2>3. CASE step = 17 /\ server[d] \in todo
    <3>1. Sleep(s)
      BY <1>0, <2>3, StepFacts DEF Abort, Load, SetLabel, ResumeGeneration
    <3>2. server[d] # s
      BY <1>1, <3>1 DEF Sleep, RunningOn
    <3>3. QED
      BY <1>b, <2>3, <3>2
  <2>4. QED
    BY <2>1, <2>2, <2>3
<1>2. ASSUME state[d] = "running", server[d] \in Standalone
      PROVE  step' \notin {2, 3} /\ (step' = 1 => server'[d] \in todo')
  <2>1. step \notin {2, 3} /\ (step = 1 => server[d] \in todo)
    BY <1>2 DEF Placed
  <2>2. CASE step = 1
    <3>1. Abort(s)
      BY <1>0, <2>2, StepFacts DEF Load, SetLabel, ResumeGeneration, Sleep
    <3>2. server[d] # s
      BY <1>2, <3>1 DEF RunningOn
    <3>3. QED
      BY <1>b, <2>1, <2>2, <3>2
  <2>3. CASE step # 1
    <3>1. step # 0
      BY <1>0, <1>a DEF On
    <3>2. QED
      BY <1>a, <1>b, <2>1, <2>3, <3>1
  <2>4. QED
    BY <2>2, <2>3
<1>3. QED
  BY <1>1, <1>2 DEF Placed

LEMMA ServerClients ==
    ASSUME SoundInv, EnginesInv, ClientsInv, [Next]_vars, NEW s \in Server,
           Abort(s) \/ Load(s) \/ SetLabel(s) \/ ResumeGeneration(s) \/ Sleep(s),
           NEW d \in Client \ heldOver'
    PROVE  ClientInv(d)'
<1>a. /\ TypeOK /\ heldOver \subseteq heldOver'
      /\ UNCHANGED <<server, piece, output>>
  BY DEF SoundInv, Abort, Load, SetLabel, ResumeGeneration, Sleep, request
<1>b. ClientInv(d) /\ Placed(d)
  BY <1>a DEF ClientsInv, ClientInv
<1>1. CASE Abort(s) /\ d \in RunningOn(s)
  <2>1. state'[d] = "back" /\ reported'[d] = label[s]
    BY <1>1 DEF Abort
  <2>2. state[d] = "running" /\ server[d] = s
    BY <1>1 DEF RunningOn
  <2>3. QED
    BY <1>a, <1>b, <2>1, <2>2, ClientBack DEF output
<1>2. CASE ~(Abort(s) /\ d \in RunningOn(s))
  <2>1. state'[d] = state[d] /\ reported'[d] = reported[d]
    BY <1>2 DEF Abort, Load, SetLabel, ResumeGeneration, Sleep, request
  <2>2. Placed(d)'
    BY <1>a, <1>b, <1>2, <2>1, ServerPlaced
  <2>3. QED
    BY <1>a, <1>b, <2>1, <2>2, ClientSame DEF output
<1>3. QED
  BY <1>1, <1>2

\* A call makes its own way.
LEMMA OwnStep ==
    ASSUME SoundInv, EnginesInv, [Next]_vars, NEW d \in Client, ClientInv(d),
           Start(d) \/ Token(d) \/ Complete(d)
           \/ \E s \in Server : Acquire(d, s)
    PROVE  ClientInv(d)'
<1>a. /\ TypeOK /\ CallInv(d) /\ Placed(d) /\ PieceInv(d) /\ LabelInv(d)
      /\ UNCHANGED <<engines, trainer, output>>
  BY DEF SoundInv, ClientInv, Start, Token, Complete, Acquire
<1>b. Served' = Served
  BY <1>a DEF Served, trainer
<1>c. step \in 0..19
  BY <1>a, StepFacts
<1>1. ASSUME NEW s \in Server, Acquire(d, s) PROVE ClientInv(d)'
  <2>1. /\ state[d] = "acquire" /\ state'[d] = "sent" /\ server'[d] = s /\ s \in pool
    BY <1>a, <1>1 DEF Acquire, TypeOK
  <2>2. s \in Hybrid => step \in 10..16
    BY <2>1, ServerAssumption DEF EnginesInv
  <2>3. QED
    BY <1>a, <1>b, <2>1, <2>2 DEF ClientInv, Placed, PieceInv, LabelInv, output, trainer
<1>2. CASE Start(d)
  <2>1. /\ state[d] = "sent" /\ state'[d] = "running" /\ server' = server
        /\ piece' = piece /\ ~paused[server[d]]
    BY <1>a, <1>2 DEF Start, TypeOK
  <2>2. piece[d] = <<>>
    BY <1>a, <2>1 DEF CallInv
  <2>3. server[d] \in Standalone => step \notin {2, 3} /\ (step = 1 => server[d] \in todo)
    BY <2>1 DEF EnginesInv, StandaloneInv
  <2>4. QED
    BY <1>a, <1>b, <2>1, <2>2, <2>3 DEF ClientInv, Placed, PieceInv, LabelInv, output, trainer
<1>3. CASE Token(d)
  <2>1. /\ state[d] = "running" /\ state' = state /\ server' = server
        /\ piece'[d] = Append(piece[d], weights[server[d]])
    BY <1>a, <1>3 DEF Token, TypeOK
  <2>2. weights[server[d]] = Served
    BY <1>a, <2>1, RunningFacts
  <2>3. piece[d] \in Seq(Held) /\ Served \in Held
    BY <1>a, ServedFacts, VersionFacts DEF TypeOK, Held
  <2>4. \A i \in DOMAIN piece'[d] : piece'[d][i] = Served
    <3>1. \A i \in DOMAIN piece[d] : piece[d][i] = Served
      BY <1>a, <2>1 DEF PieceInv
    <3>2. QED
      BY <2>1, <2>2, <2>3, <3>1
  <2>5. QED
    BY <1>a, <1>b, <2>1, <2>4 DEF ClientInv, Placed, PieceInv, LabelInv, output, trainer
<1>4. CASE Complete(d)
  <2>1. /\ state[d] = "running" /\ state'[d] = "back" /\ server' = server
        /\ piece' = piece /\ reported'[d] = label[server[d]]
    BY <1>a, <1>4 DEF Complete, TypeOK
  <2>2. QED
    BY <1>a, <2>1, ClientBack DEF output
<1>5. QED
  BY <1>1, <1>2, <1>3, <1>4

\* A piece is merged: its label is the next of the call, and its tokens are
\* of that version.
LEMMA MergeStep ==
    ASSUME SoundInv, [Next]_vars, NEW d \in Client, ClientInv(d), Merge(d)
    PROVE  ClientInv(d)'
<1>a. /\ TypeOK /\ CallInv(d) /\ PieceInv(d) /\ LabelInv(d) /\ state[d] = "back"
      /\ UNCHANGED trainer
  BY DEF SoundInv, ClientInv, Merge
<1>b. Served' = Served /\ Served \in 0..Updates
  BY <1>a, ServedFacts DEF Served, trainer
<1>1. PICK l \in {reported[d]} \union (IF piece[d] = <<>> THEN {NoLabel} ELSE {}) :
        MergeLabels(d, l)
  BY DEF Merge
<1>2. /\ tokens'[d] = Merged(d) /\ piece'[d] = <<>>
      /\ state'[d] = IF Over(d) THEN "idle" ELSE "acquire"
      /\ maxLabel'[d] = l
      /\ minLabel'[d] = IF minLabel[d] = NoLabel THEN l ELSE minLabel[d]
  BY <1>a, <1>1 DEF Merge, MergeLabels, TypeOK
<1>3. /\ reported[d] \in 0..Served /\ minLabel[d] \in Version \union {NoLabel}
      /\ minLabel[d] <= reported[d]
      /\ l = reported[d] \/ (l = NoLabel /\ piece[d] = <<>>)
  BY <1>a, <1>1 DEF PieceInv, LabelInv, TypeOK
<1>4. ASSUME NEW i \in DOMAIN tokens'[d]
      PROVE  /\ minLabel'[d] # NoLabel
             /\ minLabel'[d] <= tokens'[d][i]
             /\ tokens'[d][i] <= reported[d]
  <2>1. CASE i \in DOMAIN tokens[d] /\ Merged(d)[i] = tokens[d][i]
    <3>1. minLabel[d] # NoLabel
      BY <1>a, <2>1 DEF LabelInv
    <3>2. minLabel'[d] = minLabel[d]
      BY <1>2, <3>1
    <3>3. QED
      BY <1>a, <1>2, <2>1, <3>1, <3>2 DEF LabelInv
  <2>2. CASE \E j \in DOMAIN piece[d] : Merged(d)[i] = piece[d][j]
    <3>1. tokens'[d][i] = reported[d] /\ piece[d] # <<>>
      BY <1>a, <1>2, <2>2 DEF PieceInv
    <3>2. l = reported[d]
      BY <1>3, <3>1
    <3>3. QED
      BY <1>2, <1>3, <1>b, <3>1, <3>2, VersionFacts
  <2>3. QED
    BY <1>a, <1>2, <2>1, <2>2, MergedFacts
<1>5. tokens'[d] \in Seq(Held)
  BY <1>a, <1>2, MergedFacts
<1>6. \A i \in DOMAIN tokens'[d] : tokens'[d][i] \in Int
  BY <1>5, HeldFacts
<1>7. CASE Over(d)
  <2>1. piece[d] # <<>>
    <3>1. CASE ~aborted[d]
      BY <1>a, <3>1 DEF CallInv
    <3>2. CASE Len(Merged(d)) >= Budget
      <4>1. Len(Merged(d)) = Len(tokens[d]) + Len(piece[d]) /\ Len(tokens[d]) \in Nat
        BY <1>a, MergedFacts
      <4>2. Len(tokens[d]) < Budget
        BY <1>a, <4>1, VersionFacts DEF CallInv, TypeOK
      <4>3. SUFFICES ASSUME piece[d] = <<>> PROVE FALSE
        OBVIOUS
      <4>4. Len(piece[d]) = 0
        BY <4>3
      <4>5. Len(Merged(d)) = Len(tokens[d])
        BY <4>1, <4>4
      <4>6. ASSUME NEW m \in Nat, NEW b \in Nat, m < b, m >= b PROVE FALSE
        BY <4>6
      <4>7. Budget \in Nat
        BY VersionFacts
      <4>8. QED
        BY <3>2, <4>1, <4>2, <4>5, <4>6, <4>7, Zenon
    <3>3. QED
      BY <1>7, <3>1, <3>2 DEF Over
  <2>2. maxLabel'[d] = reported[d] /\ state'[d] = "idle"
    BY <1>2, <1>3, <1>7, <2>1
  <2>3. QED
    BY <1>4, <2>2 DEF ClientInv, Placed, PieceInv, LabelInv
<1>8. CASE ~Over(d)
  <2>1. state'[d] = "acquire"
    BY <1>2, <1>8
  <2>2. minLabel'[d] <= Served'
    BY <1>2, <1>3, <1>b, VersionFacts
  <2>3. \A i \in DOMAIN tokens'[d] : tokens'[d][i] <= Served'
    BY <1>3, <1>4, <1>6, <1>b
  <2>4. QED
    BY <1>4, <2>1, <2>2, <2>3 DEF ClientInv, Placed, PieceInv, LabelInv
<1>9. QED
  BY <1>7, <1>8

LEMMA ClientsStep ==
    ASSUME SoundInv, EnginesInv, ClientsInv, [Next]_vars, failures' = 0
    PROVE  ClientsInv'
<1> SUFFICES ASSUME NEW d \in Client, d \notin heldOver' PROVE ClientInv(d)'
  BY DEF ClientsInv
<1>a. TypeOK /\ step \in 0..19 /\ TypeOK'
  BY StepFacts, SoundStep DEF SoundInv
<1>1. CASE Begin(d)
  <2>1. /\ state'[d] = "acquire" /\ tokens'[d] = <<>> /\ minLabel'[d] = NoLabel
    BY <1>a, <1>1 DEF Begin, TypeOK
  <2>2. NoLabel <= Served'
    BY ServedFacts, VersionFacts
  <2>3. QED
    BY <2>1, <2>2 DEF ClientInv, Placed, PieceInv, LabelInv
<1>2. CASE \E s \in Server : ServerStep(s)
  BY <1>2, <1>a, NoFailure, ServerClients DEF ServerStep
<1>3. CASE \/ NewVersion \/ AddReplicas \/ RemoveReplicas
           \/ StartValidation \/ CollectValidation
  <2>1. UNCHANGED <<request, output, heldOver>>
    BY <1>3 DEF NewVersion, AddReplicas, RemoveReplicas, StartValidation,
       CollectValidation
  <2>2. ClientInv(d) /\ Placed(d)
    BY <2>1 DEF ClientsInv, ClientInv
  <2>3. Placed(d)'
    <3>1. CASE NewVersion
      BY <1>a, <2>1, <2>2, <3>1, NewVersionFacts, ServerAssumption DEF Placed, request
    <3>2. CASE ~NewVersion
      <4>1. step \in {9, 16, 12, 13} /\ Advance
        BY <1>3, <1>a, <3>2, StepFacts DEF AddReplicas, RemoveReplicas, StartValidation,
           CollectValidation
      <4>2. step' = step + 1 /\ todo' = On(step + 1)
        BY <1>a, <4>1, AdvanceFacts DEF Onward
      <4>3. QED
        BY <1>a, <2>1, <2>2, <4>1, <4>2 DEF Placed, request, On
    <3>3. QED
      BY <3>1, <3>2
  <2>4. QED
    BY <2>1, <2>2, <2>3, ClientSame DEF request, output
<1>4. ASSUME NEW c \in Client, ClientStep(c), c # d PROVE ClientInv(d)'
  <2>1. /\ state'[d] = state[d] /\ server'[d] = server[d] /\ piece'[d] = piece[d]
        /\ reported'[d] = reported[d] /\ tokens'[d] = tokens[d]
        /\ minLabel'[d] = minLabel[d] /\ maxLabel'[d] = maxLabel[d]
        /\ UNCHANGED trainer
    <3>1. CASE Begin(c)
      BY <1>a, <1>4, <3>1 DEF Begin, TypeOK
    <3>2. CASE Merge(c)
      BY <1>a, <1>4, <3>2 DEF Merge, MergeLabels, TypeOK
    <3>3. CASE Start(c) \/ Token(c) \/ Complete(c) \/ \E s \in Server : Acquire(c, s)
      BY <1>a, <1>4, <3>3 DEF Start, Token, Complete, Acquire, TypeOK, output
    <3>4. QED
      BY <1>4, <3>1, <3>2, <3>3 DEF ClientStep
  <2>2. d \notin heldOver
    BY <1>4 DEF ClientStep, Begin, Acquire, Start, Token, Complete, Merge
  <2>3. ClientInv(d)
    BY <2>2 DEF ClientsInv
  <2>4. Placed(d)'
    BY <2>1, <2>3 DEF ClientInv, Placed, trainer
  <2>5. QED
    BY <2>1, <2>3, <2>4, ClientSame
<1>5. CASE ClientStep(d)
  <2>1. CASE Begin(d)
    BY <1>1, <2>1
  <2>2. CASE ~Begin(d)
    <3>1. heldOver' = heldOver
      BY <1>5, <2>2 DEF ClientStep, Acquire, Start, Token, Complete, Merge
    <3>2. ClientInv(d)
      BY <3>1 DEF ClientsInv
    <3>3. QED
      BY <1>5, <2>2, <3>2, OwnStep, MergeStep DEF ClientStep
  <2>3. QED
    BY <2>1, <2>2
<1>6. CASE UNCHANGED vars
  <2>1. ClientInv(d) /\ UNCHANGED <<request, output, trainer>>
    BY <1>6 DEF vars, ClientsInv
  <2>2. Placed(d)'
    BY <2>1 DEF ClientInv, Placed, trainer, request
  <2>3. QED
    BY <2>1, <2>2, ClientSame DEF request, output
<1>7. QED
  BY <1>a, <1>2, <1>3, <1>4, <1>5, <1>6, NoFailure DEF Next, TrainerStep

LEMMA Invariance == Spec => []HybridRolloutInv
<1>1. HybridRolloutInv /\ [Next]_vars => HybridRolloutInv'
  <2> SUFFICES ASSUME HybridRolloutInv, [Next]_vars PROVE HybridRolloutInv'
    OBVIOUS
  <2>1. SoundInv'
    BY SoundStep DEF HybridRolloutInv
  <2>2. ASSUME failures' = 0 PROVE EnginesInv' /\ ClientsInv'
    <3>1. failures = 0
      BY <2>2, NoFailure DEF HybridRolloutInv, SoundInv
    <3>2. QED
      BY <2>2, <3>1, EnginesStep, ClientsStep DEF HybridRolloutInv
  <2>3. QED
    BY <2>1, <2>2 DEF HybridRolloutInv
<1>2. QED
  BY InitSound, <1>1, PTL DEF Spec

-----------------------------------------------------------------------------
(* The theorems.                                                           *)

\* Every variable keeps its type: no operation of the trainer and no step of
\* a client leaves a server, a call or an answer in a state the code does
\* not know.
THEOREM TypeCorrect == Spec => []TypeOK
<1>1. HybridRolloutInv => TypeOK
  BY DEF HybridRolloutInv, SoundInv
<1>2. QED
  BY Invariance, <1>1, PTL

\* However often a generation is interrupted, and whatever fails, its pieces
\* together stay within max_tokens, and each next piece asks for exactly the
\* rest (FullyAsyncLLMServerClient.generate).
THEOREM BudgetIsKept == Spec => []BudgetKept
<1>1. HybridRolloutInv => BudgetKept
  BY DEF HybridRolloutInv, SoundInv, CallInv, BudgetKept
<1>2. QED
  BY Invariance, <1>1, PTL

\* As long as no operation failed, a server whose weights training has taken
\* is out of the pool, and runs at most the calls it held back while it was
\* put to sleep (_trainer_side_validate).
THEOREM ThePoolIsAwake == Spec => []PoolIsAwake
<1>1. ASSUME HybridRolloutInv, failures = 0, NEW s \in Server,
             weights[s] = NoWeights
      PROVE  s \notin pool /\ RunningOn(s) \subseteq heldOver
  <2>a. TypeOK /\ step \in 0..19 /\ version \in Version /\ EnginesInv
    BY <1>1, StepFacts DEF HybridRolloutInv, SoundInv, TypeOK
  <2>1. s \in Hybrid
    BY <1>1, <2>a, VersionFacts DEF EnginesInv, StandaloneInv, Server
  <2>2. ~Awake(s)
    BY <1>1, <2>a, <2>1, VersionFacts DEF EnginesInv, HybridInv
  <2>3. step \notin 10..16 /\ s \notin Standalone
    BY <2>1, <2>2, <2>a, ServerAssumption DEF Awake
  <2>4. s \notin pool
    BY <2>3, <2>a DEF EnginesInv
  <2>5. ASSUME NEW c \in RunningOn(s), c \notin heldOver PROVE FALSE
    <3>1. c \in Client /\ state[c] = "running" /\ server[c] = s
      BY DEF RunningOn
    <3>2. Placed(c)
      BY <1>1, <2>5, <3>1 DEF HybridRolloutInv, ClientsInv, ClientInv
    <3>3. QED
      BY <2>1, <2>2, <2>3, <3>1, <3>2 DEF Placed, Awake
  <2>6. QED
    BY <2>4, <2>5
<1>2. HybridRolloutInv => PoolIsAwake
  BY <1>1 DEF PoolIsAwake
<1>3. QED
  BY Invariance, <1>2, PTL

\* A finished call knows the versions that made it: min_global_steps and
\* max_global_steps bracket the version of every token, through any number
\* of interruptions and updates.
THEOREM VersionsAreBracketed == Spec => []VersionsBracketed
<1>1. HybridRolloutInv => VersionsBracketed
  BY DEF HybridRolloutInv, ClientsInv, ClientInv, LabelInv, VersionsBracketed
<1>2. QED
  BY Invariance, <1>1, PTL

=============================================================================

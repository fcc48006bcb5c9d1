------------------------- MODULE StagedPublishProofs -------------------------
(***************************************************************************)
(* The publication of data/build_index.py and data/build_sft.py, for any   *)
(* number of outputs, of files and generations of the RL data, of builds,  *)
(* failures, interrupts, kills and moves of RL files.                      *)
(*                                                                         *)
(* The argument: at every position of every loop, each final path holds    *)
(* what it held when the build began, or that is in the backup directory   *)
(* (Shape), so whatever the build found before can be put back, or stays   *)
(* on disk.  Outputs that agree with their marker are those of the last    *)
(* committed generation (Whole), and the last committed generation, or a   *)
(* newer one, is kept (Kept): both are carried through the build as facts  *)
(* about what it found, "before", which no step changes.                   *)
(*                                                                         *)
(* What outputs were made from: as long as no file of the RL generation is *)
(* moved away under a build, the files it has hashed stay as they are, so  *)
(* the whole generation is the one of its fingerprint (Hashed, AsPrinted)  *)
(* and it reads nothing else (ReadTells, MarkersTell).                     *)
(***************************************************************************)
EXTENDS StagedPublish, TLAPS

ShapeIdle ==
    pc = "idle" => held = NoFiles /\ (outcome = "failed" => final = before)

ShapeRead ==
    pc \in Preparing =>
        /\ k \in 1..Reads
        /\ held = NoFiles
        /\ final = before

ShapeBackup ==
    pc = "backup" =>
        /\ k \in 1..Last
        /\ \A i \in File :
            IF i < k THEN final[i] = Absent /\ held[i] = before[i]
                     ELSE final[i] = before[i] /\ held[i] = Absent

\* The first n positions of the batch hold the new files, the others none.
Replaced(n) ==
    \A i \in File :
        /\ final[i] = IF i <= n THEN gen ELSE IF i <= Last THEN Absent ELSE before[i]
        /\ held[i] = IF i <= Last THEN before[i] ELSE Absent

ShapePublish == pc = "publish" => k \in 1..Last /\ Replaced(k - 1)

ShapeUnpublish == pc = "unpublish" => k \in 1..(Last - 1) /\ Replaced(k)

ShapeRestore ==
    pc = "restore" =>
        /\ k \in 1..Last
        /\ \A i \in File :
            \/ final[i] = before[i] /\ held[i] = Absent
            \/ i <= k /\ final[i] = Absent /\ held[i] = before[i]

ShapeMark ==
    pc = "mark" =>
        /\ builder = "sft"
        /\ held = NoFiles
        /\ \A i \in Output : final[i] = gen
        /\ final[Marker] = before[Marker]

Shape ==
    /\ ShapeIdle
    /\ ShapeRead
    /\ ShapeBackup
    /\ ShapePublish
    /\ ShapeUnpublish
    /\ ShapeRestore
    /\ ShapeMark

\* Generations are numbered as they come, and a marker is a single file.
Ordered ==
    /\ committed <= gen
    /\ \A i \in File : final[i] <= gen
    /\ final[Marker] # Torn
    /\ pc # "idle" =>
        /\ gen \in Generation
        /\ committed < gen
        /\ \A i \in File : before[i] < gen
        /\ before[Marker] # Torn

\* Files whose outputs agree with the marker are the last committed ones.
Whole(files) ==
    files[Marker] # Absent /\ (\A i \in Output : files[i] = files[Marker]) =>
        files[Marker] = committed

\* The outputs of the last committed generation, or of a newer one, are
\* among these files or in a backup directory that was left behind.
Kept(files) ==
    committed # Absent /\ ~damaged =>
        \E g \in Generation :
            /\ g >= committed
            /\ \A i \in Output : files[i] = g \/ g \in orphans[i]

Found ==
    /\ pc = "idle" => Whole(final) /\ Kept(final)
    /\ pc # "idle" => Whole(before) /\ Kept(before)

\* A build under way has not ended in any way yet.
Running == pc # "idle" => outcome = "none"

DiskInv == TypeOK /\ Shape /\ Ordered /\ Found /\ Running

-----------------------------------------------------------------------------
(* Types.                                                                  *)

LEMMA SizeFacts ==
    /\ N \in Nat /\ N >= 1
    /\ Last \in {N, N + 1}
    /\ Last \in Nat /\ 1 <= Last /\ Last <= N + 1
    /\ File = 1..(N + 1) /\ Marker = N + 1 /\ Output = 1..N
    /\ MaxBuilds \in Nat /\ Reads \in Nat /\ Reads >= 1
    /\ NoFiles \in [File -> {Absent}]
BY SizeAssumption, BoundsAssumption DEF Last, Marker, File, Output, NoFiles

\* A step of the preparation: the disk stays as it is, and the build goes on,
\* or it reuses what the marker accepts.
Prepares == HashFile \/ Check \/ Recheck \/ Read

LEMMA PreparesFacts ==
    ASSUME TypeOK, Shape, Prepares
    PROVE  /\ pc \in Preparing /\ k \in 1..Reads
           /\ held = NoFiles /\ final = before
           /\ UNCHANGED <<builder, rl, disturbed, moves, final, held, orphans,
                          gen, edited, before, committed, damaged, faults, stops>>
           /\ \/ /\ pc' \in Preparing /\ k' \in 1..Reads /\ outcome' = outcome
              \/ /\ pc = "read" /\ pc' = "backup" /\ k' = 1 /\ outcome' = outcome
              \/ /\ pc \in {"print", "check"} /\ print' = print
                 /\ Accepts(final[Marker], print[gen])
                 /\ pc' = "idle" /\ k' = 1 /\ outcome' = "reused"
<1> USE SizeFacts
<1>1. pc \in Preparing /\ k \in 1..Reads /\ held = NoFiles /\ final = before
  BY DEF Prepares, HashFile, Check, Recheck, Read, Preparing, Shape, ShapeRead
<1>2. UNCHANGED <<builder, rl, disturbed, moves, final, held, orphans,
                  gen, edited, before, committed, damaged, faults, stops>>
  BY DEF Prepares, HashFile, Check, Recheck, Read, source, disk, history
<1>3. ASSUME Decide
      PROVE  \/ /\ pc' \in Preparing /\ k' \in 1..Reads /\ outcome' = outcome
             \/ /\ Accepts(final[Marker], print[gen])
                /\ pc' = "idle" /\ k' = 1 /\ outcome' = "reused"
  BY <1>3 DEF Decide, Leave, Goto, Preparing
<1>4. CASE HashFile
  <2>1. CASE k < Reads
    <3>1. k + 1 \in 1..Reads
      BY <1>1, <2>1
    <3>2. pc' = "print" /\ k' = k + 1 /\ outcome' = outcome
      BY <1>4, <2>1 DEF HashFile, Goto
    <3>3. QED
      BY <1>1, <1>2, <3>1, <3>2 DEF Preparing
  <2>2. CASE ~(k < Reads) /\ builder = "index"
    <3>1. Decide /\ print' = print /\ pc = "print"
      BY <1>4, <2>2 DEF HashFile
    <3>2. QED
      BY <1>1, <1>2, <1>3, <3>1
  <2>3. CASE ~(k < Reads) /\ builder # "index"
    <3>1. pc' = "check" /\ k' = 1 /\ outcome' = outcome
      BY <1>4, <2>3 DEF HashFile, Goto
    <3>2. QED
      BY <1>1, <1>2, <3>1 DEF Preparing
  <2>4. QED
    BY <2>1, <2>2, <2>3
<1>5. CASE Check
  <2>1. Decide /\ print' = print /\ pc = "check"
    BY <1>5 DEF Check, record
  <2>2. QED
    BY <1>1, <1>2, <1>3, <2>1
<1>6. CASE Recheck
  BY <1>1, <1>2, <1>6 DEF Recheck, Goto, Preparing
<1>7. CASE Read
  <2>1. CASE k = Reads
    BY <1>1, <1>2, <1>7, <2>1 DEF Read, Goto
  <2>2. CASE k # Reads
    <3>1. k + 1 \in 1..Reads
      BY <1>1, <2>2
    <3>2. QED
      BY <1>1, <1>2, <1>7, <2>2, <3>1 DEF Read, Goto, Preparing
  <2>3. QED
    BY <2>1, <2>2
<1>8. QED
  BY <1>4, <1>5, <1>6, <1>7 DEF Prepares

\* The preparation fails: nothing has been published.
Fails == Refuse \/ ReadRaises

LEMMA FailsFacts ==
    ASSUME Fails, Shape
    PROVE  /\ pc \in Preparing /\ pc' = "idle" /\ k' = 1 /\ outcome' = "failed"
           /\ held' = NoFiles /\ final = before
           /\ UNCHANGED <<builder, rl, disturbed, moves, final, orphans, print,
                          madeFrom, gen, edited, before, committed, damaged,
                          stops>>
           /\ faults' = faults \/ (faults < MaxFaults /\ faults' = faults + 1)
<1>1. CASE Refuse
  BY <1>1 DEF Refuse, Refused, Preparing, LeaveClean, Leave, Goto, source, record,
              history, Shape, ShapeRead
<1>2. CASE ReadRaises
  BY <1>2 DEF ReadRaises, Raises, LeaveClean, Leave, Goto, source, record, history,
              Shape, ShapeRead
<1>3. QED
  BY <1>1, <1>2 DEF Fails

LEMMA InitHolds == Init => DiskInv
<1> SUFFICES ASSUME Init PROVE DiskInv
  OBVIOUS
<1> USE SizeFacts
<1>1. TypeOK
  <2> USE BoundsAssumption DEF Init, Absent
  <2>1. final \in [File -> {0}] /\ held \in [File -> {0}] /\ before \in [File -> {0}]
    OBVIOUS
  <2>2. /\ print \in [Generation -> Source \union {Absent, Mixed}]
        /\ rl \in [RLFile -> Source \union {Absent}]
        /\ disturbed \subseteq Generation /\ moves \in 0..MaxMoves
    BY SizeAssumption DEF Source
  <2>3. /\ madeFrom \in [Generation -> SUBSET Source]
        /\ orphans \in [File -> SUBSET (Generation \union {Torn})]
    OBVIOUS
  <2>4. k \in File \union 1..Reads
    OBVIOUS
  <2>5. gen \in 0..MaxBuilds /\ committed \in 0..MaxBuilds
    OBVIOUS
  <2>6. faults \in 0..MaxFaults /\ stops \in 0..MaxStops
    OBVIOUS
  <2>7. QED
    BY <2>1, <2>2, <2>3, <2>4, <2>5, <2>6 DEF TypeOK
<1>2. Shape
  BY DEF Init, Preparing, Shape, ShapeIdle, ShapeRead, ShapeBackup, ShapePublish,
         ShapeUnpublish, ShapeRestore, ShapeMark
<1>3. Ordered /\ Found /\ Running
  BY DEF Init, Running, Ordered, Found, Whole, Kept, NoFiles, Absent, Torn
<1>4. QED
  BY <1>1, <1>2, <1>3 DEF DiskInv

LEMMA TypeStep == TypeOK /\ Shape /\ Ordered /\ [Next]_vars => TypeOK'
<1> SUFFICES ASSUME TypeOK, Shape, Ordered, [Next]_vars PROVE TypeOK'
  OBVIOUS
<1> USE SizeFacts, BoundsAssumption DEF TypeOK, Generation, Absent, Torn
<1>1. CASE Begin
  <2>1. gen + 1 \in Generation /\ gen' = gen + 1 /\ gen' \in 0..MaxBuilds
    BY <1>1 DEF Begin
  <2>2. print' \in [Generation -> Source \union {Absent, Mixed}]
    <3>1. CASE rl[RLManifest] = Absent
      BY <1>1, <3>1 DEF Begin
    <3>2. CASE rl[RLManifest] # Absent
      <4>1. RLManifest \in RLFile
        BY DEF RLManifest, RLFile
      <4>2. rl[RLManifest] \in Source
        BY <3>2, <4>1
      <4>3. print' = [print EXCEPT ![gen + 1] = rl[RLManifest]]
        BY <1>1, <3>2 DEF Begin
      <4>4. QED
        BY <2>1, <4>2, <4>3
    <3>3. QED
      BY <3>1, <3>2
  <2>3. k' = 1 /\ pc' \in {"idle", "print"} /\ outcome' \in {"failed", "none"}
    BY <1>1 DEF Begin, Leave, Goto
  <2>4. before' = final /\ edited' = FALSE /\ k' \in File
    BY <1>1, <2>3 DEF Begin
  <2>5. QED
    BY <1>1, <2>1, <2>2, <2>3, <2>4 DEF Begin, disk, source
<1>2. CASE Prepares
  <2>1. madeFrom' \in [Generation -> SUBSET Source]
    <3>1. CASE HashFile \/ Check
      BY <3>1 DEF HashFile, Check, record
    <3>2. CASE Recheck
      <4>1. RLManifest \in RLFile
        BY DEF RLManifest, RLFile
      <4>2. rl[RLManifest] \in Source
        BY <3>2, <4>1 DEF Recheck, RLWhole
      <4>3. QED
        BY <3>2, <4>2 DEF Recheck
    <3>3. CASE Read
      <4>1. k \in RLFile
        BY <1>2, PreparesFacts DEF RLFile, RLManifest
      <4>2. rl[k] \in Source
        BY <3>3, <4>1 DEF Read
      <4>3. QED
        BY <3>3, <4>2 DEF Read
    <3>4. QED
      BY <1>2, <3>1, <3>2, <3>3 DEF Prepares
  <2>2. print' \in [Generation -> Source \union {Absent, Mixed}]
    BY <1>2 DEF Prepares, HashFile, Check, Recheck, Read, record
  <2>3. /\ k' \in File \union 1..Reads
        /\ pc' \in {"print", "check", "recheck", "read", "backup", "idle"}
        /\ outcome' \in {outcome, "reused"}
    BY <1>2, PreparesFacts DEF Preparing
  <2>4. QED
    BY <1>2, <2>1, <2>2, <2>3, PreparesFacts
<1>3. CASE Fails
  <2>1. k' \in File \union 1..Reads
    BY <1>3, FailsFacts
  <2>2. held' \in [File -> Generation \union {Absent, Torn}]
    BY <1>3, FailsFacts
  <2>3. faults' \in 0..MaxFaults
    BY <1>3, FailsFacts
  <2>4. pc' = "idle" /\ outcome' = "failed"
    BY <1>3, FailsFacts
  <2>5. QED
    BY <1>3, <2>1, <2>2, <2>3, <2>4, FailsFacts
<1>4. CASE BackupOne
  <2>1. k \in File
    BY <1>4 DEF BackupOne, Shape, ShapeBackup
  <2>2. /\ held' \in [File -> Generation \union {Absent, Torn}]
        /\ final' \in [File -> Generation \union {Absent, Torn}]
    BY <1>4, <2>1 DEF BackupOne
  <2>3. k' \in File /\ pc' \in {"publish", "backup"}
    BY <1>4 DEF BackupOne, Goto, Shape, ShapeBackup
  <2>4. QED
    BY <1>4, <2>2, <2>3 DEF BackupOne, source, record, history
<1>5. CASE PublishOne
  <2>1. k \in 1..Last /\ k \in File /\ gen \in Generation
    BY <1>5 DEF PublishOne, Shape, ShapePublish, Ordered
  <2>2. final' \in [File -> Generation \union {Absent, Torn}]
    BY <1>5, <2>1 DEF PublishOne
  <2>3. held' \in [File -> Generation \union {Absent, Torn}]
    BY <1>5 DEF PublishOne, Published, LeaveClean
  <2>4. k' \in File /\ pc' \in {"idle", "mark", "publish"}
    BY <1>5, <2>1 DEF PublishOne, Published, LeaveClean, Leave, Goto
  <2>5. /\ committed' \in {committed, gen} /\ outcome' \in {outcome, "built"}
        /\ orphans' = orphans
    BY <1>5 DEF PublishOne, Published, LeaveClean, Leave
  <2>6. QED
    BY <1>5, <2>1, <2>2, <2>3, <2>4, <2>5 DEF PublishOne, source, record
<1>6. CASE RenameRaises
  BY <1>6 DEF RenameRaises, Rollback, Raises, Goto, disk, source, record, history,
              Shape, ShapePublish, ShapeBackup
<1>7. CASE UnpublishOne
  <2>1. k \in 1..(Last - 1) /\ k \in File
    BY <1>7 DEF UnpublishOne, Shape, ShapeUnpublish
  <2>2. final' \in [File -> Generation \union {Absent, Torn}]
    BY <1>7, <2>1 DEF UnpublishOne
  <2>3. \/ k' = Last /\ pc' = "restore"
        \/ k # 1 /\ k' = k - 1 /\ pc' = "unpublish"
    BY <1>7 DEF UnpublishOne, Goto
  <2>4. k' \in File
    BY <2>1, <2>3
  <2>5. QED
    BY <1>7, <2>2, <2>3, <2>4 DEF UnpublishOne, source, record, history
<1>8. CASE RestoreOne
  <2>1. k \in 1..Last /\ k \in File
    BY <1>8 DEF RestoreOne, Shape, ShapeRestore
  <2>2. final' \in [File -> Generation \union {Absent, Torn}]
    BY <1>8, <2>1 DEF RestoreOne
  <2>3. held' \in [File -> Generation \union {Absent, Torn}]
    BY <1>8, <2>1 DEF RestoreOne, LeaveClean
  <2>4. /\ \/ k' = 1 /\ pc' = "idle"
           \/ k # 1 /\ k' = k - 1 /\ pc' = "restore"
        /\ outcome' \in {outcome, "failed"} /\ orphans' = orphans
    BY <1>8 DEF RestoreOne, LeaveClean, Leave, Goto
  <2>5. k' \in File
    BY <2>1, <2>4
  <2>6. QED
    BY <1>8, <2>2, <2>3, <2>4, <2>5 DEF RestoreOne, source, record, history
<1>9. CASE RollbackRaises
  BY <1>9 DEF RollbackRaises, Raises, LeaveClean, Leave, Goto, NoFiles, source, record
<1>10. CASE MarkPublished
  BY <1>10 DEF MarkPublished, LeaveClean, Leave, Goto, NoFiles, source, record, Ordered
<1>11. CASE MarkRaises
  BY <1>11 DEF MarkRaises, Raises, LeaveClean, Leave, Goto, NoFiles, source, record, history
<1>12. CASE Interrupt
  BY <1>12 DEF Interrupt, Stops, LeaveClean, Leave, Goto, NoFiles, source, record
<1>13. CASE Crash
  BY <1>13 DEF Crash, Stops, Leave, Goto, NoFiles, source, record, history
<1>14. ASSUME NEW j \in RLFile, Move(j) PROVE TypeOK'
  <2>1. rl' \in [RLFile -> Source \union {Absent}]
    BY <1>14 DEF Move
  <2>2. disturbed' \subseteq Generation
    BY <1>14 DEF Move, Ordered
  <2>3. moves' \in 0..MaxMoves /\ edited' = TRUE
    BY <1>14 DEF Move
  <2>4. QED
    BY <1>14, <2>1, <2>2, <2>3 DEF Move, disk, record, control
<1>15. CASE UNCHANGED vars
  BY <1>15 DEF vars, source, disk, record, control, history
<1>16. QED
  BY <1>1, <1>2, <1>3, <1>4, <1>5, <1>6, <1>7, <1>8, <1>9, <1>10, <1>11, <1>12,
     <1>13, <1>14, <1>15 DEF Next, Prepares, Fails

-----------------------------------------------------------------------------
(* Where every file is, at every position of every loop.                   *)

\* A step out of the build that keeps the shape: nothing is asked of the
\* files then, but the backup directory is gone.
LEMMA LeaveShape ==
    ASSUME pc' = "idle", held' = NoFiles,
           outcome' = "failed" => final' = before'
    PROVE  Shape'
BY DEF Shape, Preparing, ShapeIdle, ShapeRead, ShapeBackup, ShapePublish,
       ShapeUnpublish, ShapeRestore, ShapeMark

LEMMA ShapeStep == TypeOK /\ Shape /\ Ordered /\ [Next]_vars => Shape'
<1> SUFFICES ASSUME TypeOK, Shape, Ordered, [Next]_vars PROVE Shape'
  OBVIOUS
<1> USE SizeFacts
<1>1. CASE Begin
  <2>1. held' = NoFiles /\ final' = final /\ before' = final
    BY <1>1 DEF Begin, disk, Shape, ShapeIdle
  <2>2. CASE pc' = "idle"
    <3>1. QED
      BY <2>1, <2>2, LeaveShape
  <2>3. CASE pc' # "idle"
    <3>1. pc' = "print" /\ k' = 1
      BY <1>1, <2>3 DEF Begin, Leave, Goto
    <3>2. ShapeRead'
      BY <2>1, <3>1 DEF ShapeRead
    <3>3. QED
      BY <3>1, <3>2 DEF Shape, ShapeIdle, ShapeBackup, ShapePublish,
                        ShapeUnpublish, ShapeRestore, ShapeMark
  <2>4. QED
    BY <2>2, <2>3
<1>2. CASE Prepares
  <2>1. /\ held = NoFiles /\ final = before /\ held' = held /\ final' = final
        /\ before' = before /\ builder' = builder
    BY <1>2, PreparesFacts
  <2>2. \/ pc' \in Preparing /\ k' \in 1..Reads
        \/ pc' = "backup" /\ k' = 1
        \/ pc' = "idle"
    BY <1>2, PreparesFacts
  <2>3. CASE pc' \in Preparing /\ k' \in 1..Reads
    <3>1. ShapeRead'
      BY <2>1, <2>3 DEF ShapeRead
    <3>2. QED
      BY <2>3, <3>1 DEF Preparing, Shape, ShapeIdle, ShapeBackup,
          ShapePublish, ShapeUnpublish, ShapeRestore, ShapeMark
  <2>4. CASE pc' = "backup" /\ k' = 1
    <3>1. ShapeBackup'
      BY <2>1, <2>4 DEF ShapeBackup, Last, NoFiles, Marker, Absent
    <3>2. QED
      BY <2>4, <3>1 DEF Preparing, Shape, ShapeIdle, ShapeRead,
          ShapePublish, ShapeUnpublish, ShapeRestore, ShapeMark
  <2>5. CASE pc' = "idle"
    BY <2>1, <2>5, LeaveShape
  <2>6. QED
    BY <2>2, <2>3, <2>4, <2>5
<1>3. CASE Fails
  <2>1. /\ pc' = "idle" /\ held' = NoFiles /\ final' = before'
    BY <1>3, FailsFacts
  <2>2. QED
    BY <2>1, LeaveShape
<1>4. CASE BackupOne
  <2>1. /\ k \in 1..Last /\ k \in File /\ builder' = builder
        /\ before' = before /\ gen' = gen
        /\ \A i \in File :
            IF i < k THEN final[i] = Absent /\ held[i] = before[i]
                     ELSE final[i] = before[i] /\ held[i] = Absent
    BY <1>4 DEF BackupOne, history, Shape, ShapeBackup
  <2>2. /\ final' = [final EXCEPT ![k] = Absent]
        /\ held' = [held EXCEPT ![k] = final[k]]
    BY <1>4 DEF BackupOne
  <2>3. \/ pc' = "publish" /\ k' = 1 /\ k = Last
        \/ pc' = "backup" /\ k' = k + 1 /\ k # Last
    BY <1>4 DEF BackupOne, Goto
  <2>4. Last' = Last
    BY <2>1 DEF Last
  <2>5. \A i \in File :
            IF i < k + 1 THEN final'[i] = Absent /\ held'[i] = before[i]
                         ELSE final'[i] = before[i] /\ held'[i] = Absent
    BY <2>1, <2>2 DEF TypeOK
  <2>6. pc' = "publish" => ShapePublish'
    <3> SUFFICES ASSUME pc' = "publish" PROVE ShapePublish'
      BY DEF ShapePublish
    <3>1. k' = 1 /\ k = Last
      BY <2>3
    <3>2. Replaced(0)'
      BY <2>1, <2>4, <2>5, <3>1 DEF Replaced
    <3>3. QED
      BY <2>4, <3>1, <3>2 DEF ShapePublish, Replaced
  <2>7. pc' = "backup" => ShapeBackup'
    BY <2>1, <2>3, <2>4, <2>5 DEF ShapeBackup
  <2>8. QED
    BY <2>3, <2>6, <2>7 DEF Preparing, Shape, ShapeIdle, ShapeRead, ShapeBackup,
        ShapePublish, ShapeUnpublish, ShapeRestore, ShapeMark
<1>5. CASE PublishOne
  <2>1. /\ k \in 1..Last /\ k \in File /\ builder' = builder
        /\ before' = before /\ gen' = gen /\ Replaced(k - 1)
    BY <1>5 DEF PublishOne, Shape, ShapePublish
  <2>2. final' = [final EXCEPT ![k] = gen]
    BY <1>5 DEF PublishOne
  <2>3. Last' = Last
    BY <2>1 DEF Last
  <2>4. \A i \in File : final'[i] = IF i <= k THEN gen
                                    ELSE IF i <= Last THEN Absent ELSE before[i]
    BY <2>1, <2>2 DEF TypeOK, Replaced
  <2>5. CASE k # Last
    <3>1. pc' = "publish" /\ k' = k + 1 /\ held' = held
      BY <1>5, <2>5 DEF PublishOne, Goto
    <3>2. Replaced(k - 1)'
      BY <2>1, <2>3, <2>4, <3>1 DEF Replaced
    <3>3. ShapePublish'
      BY <2>1, <2>3, <2>5, <3>1, <3>2 DEF ShapePublish
    <3>4. QED
      BY <3>1, <3>3 DEF Preparing, Shape, ShapeIdle, ShapeRead, ShapeBackup,
        ShapeUnpublish, ShapeRestore, ShapeMark
  <2>6. CASE k = Last /\ builder = "index"
    <3>1. pc' = "idle" /\ held' = NoFiles /\ outcome' = "built"
      BY <1>5, <2>6 DEF PublishOne, Published, LeaveClean, Leave, Goto
    <3>2. QED
      BY <3>1, LeaveShape
  <2>7. CASE k = Last /\ builder # "index"
    <3>1. pc' = "mark" /\ held' = NoFiles /\ k = N /\ builder = "sft"
      BY <1>5, <2>7 DEF PublishOne, Published, Goto, Last, TypeOK
    <3>2. ShapeMark'
      BY <2>1, <2>4, <2>7, <3>1 DEF ShapeMark
    <3>3. QED
      BY <3>1, <3>2 DEF Preparing, Shape, ShapeIdle, ShapeRead, ShapeBackup,
        ShapePublish, ShapeUnpublish, ShapeRestore
  <2>8. QED
    BY <2>5, <2>6, <2>7
<1>6. CASE RenameRaises
  <2>1. /\ builder' = builder /\ before' = before /\ gen' = gen
        /\ final' = final /\ held' = held
    BY <1>6 DEF RenameRaises, disk, history
  <2>2. Last' = Last
    BY <2>1 DEF Last
  <2>3. CASE pc = "publish" /\ k # 1
    <3>1. /\ pc' = "unpublish" /\ k' = k - 1 /\ k \in 1..Last
          /\ Replaced(k - 1)
      BY <1>6, <2>3 DEF RenameRaises, Rollback, Goto, Shape, ShapePublish
    <3>2. Replaced(k)'
      BY <2>1, <2>2, <3>1 DEF Replaced
    <3>3. ShapeUnpublish'
      BY <2>2, <2>3, <3>1, <3>2 DEF ShapeUnpublish
    <3>4. QED
      BY <3>1, <3>3 DEF Preparing, Shape, ShapeIdle, ShapeRead, ShapeBackup,
        ShapePublish, ShapeRestore, ShapeMark
  <2>4. CASE pc = "publish" /\ k = 1
    <3>1. pc' = "restore" /\ k' = Last /\ Replaced(0)
      BY <1>6, <2>4 DEF RenameRaises, Rollback, Goto, Shape, ShapePublish
    <3>2. ShapeRestore'
      BY <2>1, <2>2, <3>1 DEF ShapeRestore, Replaced
    <3>3. QED
      BY <3>1, <3>2 DEF Preparing, Shape, ShapeIdle, ShapeRead, ShapeBackup,
        ShapePublish, ShapeUnpublish, ShapeMark
  <2>5. CASE pc = "backup"
    <3>1. pc' = "restore" /\ k' = Last
      BY <1>6, <2>5 DEF RenameRaises, Rollback, Goto
    <3>2. ShapeRestore'
      BY <2>1, <2>2, <2>5, <3>1 DEF ShapeRestore, Shape, ShapeBackup
    <3>3. QED
      BY <3>1, <3>2 DEF Preparing, Shape, ShapeIdle, ShapeRead, ShapeBackup,
        ShapePublish, ShapeUnpublish, ShapeMark
  <2>6. QED
    BY <1>6, <2>3, <2>4, <2>5 DEF RenameRaises
<1>7. CASE UnpublishOne
  <2>1. /\ k \in 1..(Last - 1) /\ k \in File /\ builder' = builder
        /\ before' = before /\ gen' = gen /\ held' = held /\ Replaced(k)
    BY <1>7 DEF UnpublishOne, history, Shape, ShapeUnpublish
  <2>2. final' = [final EXCEPT ![k] = Absent]
    BY <1>7 DEF UnpublishOne
  <2>3. Last' = Last
    BY <2>1 DEF Last
  <2>4. \A i \in File :
          /\ final'[i] = IF i <= k - 1 THEN gen
                         ELSE IF i <= Last THEN Absent ELSE before[i]
          /\ held'[i] = IF i <= Last THEN before[i] ELSE Absent
    BY <2>1, <2>2 DEF TypeOK, Replaced
  <2>5. CASE k # 1
    <3>1. pc' = "unpublish" /\ k' = k - 1
      BY <1>7, <2>5 DEF UnpublishOne, Goto
    <3>2. ShapeUnpublish'
      BY <2>1, <2>3, <2>4, <2>5, <3>1 DEF ShapeUnpublish, Replaced
    <3>3. QED
      BY <3>1, <3>2 DEF Preparing, Shape, ShapeIdle, ShapeRead, ShapeBackup,
        ShapePublish, ShapeRestore, ShapeMark
  <2>6. CASE k = 1
    <3>1. pc' = "restore" /\ k' = Last
      BY <1>7, <2>6 DEF UnpublishOne, Goto
    <3>2. ShapeRestore'
      BY <2>1, <2>3, <2>4, <2>6, <3>1 DEF ShapeRestore
    <3>3. QED
      BY <3>1, <3>2 DEF Preparing, Shape, ShapeIdle, ShapeRead, ShapeBackup,
        ShapePublish, ShapeUnpublish, ShapeMark
  <2>7. QED
    BY <2>5, <2>6
<1>8. CASE RestoreOne
  <2>1. /\ k \in 1..Last /\ k \in File /\ builder' = builder
        /\ before' = before
        /\ \A i \in File :
            \/ final[i] = before[i] /\ held[i] = Absent
            \/ i <= k /\ final[i] = Absent /\ held[i] = before[i]
    BY <1>8 DEF RestoreOne, history, Shape, ShapeRestore
  <2>2. \A i \in File :
            \/ final'[i] = before[i]
            \/ i <= k - 1 /\ final'[i] = Absent /\ held[i] = before[i]
    BY <1>8, <2>1 DEF RestoreOne, TypeOK
  <2>3. CASE k # 1
    <3>1. /\ pc' = "restore" /\ k' = k - 1
          /\ held' = [held EXCEPT ![k] = Absent]
      BY <1>8, <2>3 DEF RestoreOne, Goto
    <3>2. \A i \in File :
            \/ final'[i] = before[i] /\ held'[i] = Absent
            \/ i <= k - 1 /\ final'[i] = Absent /\ held'[i] = before[i]
      BY <1>8, <2>1, <3>1 DEF RestoreOne, TypeOK
    <3>3. ShapeRestore'
      BY <2>1, <2>3, <3>1, <3>2 DEF ShapeRestore, Last
    <3>4. QED
      BY <3>1, <3>3 DEF Preparing, Shape, ShapeIdle, ShapeRead, ShapeBackup,
        ShapePublish, ShapeUnpublish, ShapeMark
  <2>4. CASE k = 1
    <3>1. pc' = "idle" /\ held' = NoFiles
      BY <1>8, <2>4 DEF RestoreOne, LeaveClean, Leave, Goto
    <3>2. final' = before'
      <4>1. \A i \in File : final'[i] = before[i]
        BY <2>2, <2>4
      <4>2. final' \in [File -> Generation \union {Absent, Torn}]
        BY <1>8, <2>1 DEF RestoreOne, TypeOK
      <4>3. QED
        BY <2>1, <4>1, <4>2 DEF TypeOK
    <3>3. QED
      BY <3>1, <3>2, LeaveShape
  <2>5. QED
    BY <2>3, <2>4
<1>9. CASE RollbackRaises
  <2>1. pc' = "idle" /\ held' = NoFiles /\ outcome' = "damaged"
    BY <1>9 DEF RollbackRaises, LeaveClean, Leave, Goto
  <2>2. QED
    BY <2>1, LeaveShape
<1>10. CASE MarkPublished
  <2>1. pc' = "idle" /\ held' = NoFiles /\ outcome' = "built"
    BY <1>10 DEF MarkPublished, LeaveClean, Leave, Goto
  <2>2. QED
    BY <2>1, LeaveShape
<1>11. CASE MarkRaises
  <2>1. pc' = "idle" /\ held' = NoFiles /\ outcome' = "unmarked"
    BY <1>11 DEF MarkRaises, LeaveClean, Leave, Goto
  <2>2. QED
    BY <2>1, LeaveShape
<1>12. CASE Interrupt
  <2>1. pc' = "idle" /\ held' = NoFiles /\ outcome' = "interrupted"
    BY <1>12 DEF Interrupt, LeaveClean, Leave, Goto
  <2>2. QED
    BY <2>1, LeaveShape
<1>13. CASE Crash
  <2>1. pc' = "idle" /\ held' = NoFiles /\ outcome' = "crashed"
    BY <1>13 DEF Crash, Leave, Goto
  <2>2. QED
    BY <2>1, LeaveShape
<1>14. CASE (\E j \in RLFile : Move(j)) \/ UNCHANGED vars
  <2>1. /\ pc' = pc /\ k' = k /\ final' = final /\ held' = held
        /\ outcome' = outcome /\ before' = before /\ builder' = builder
        /\ gen' = gen
    BY <1>14 DEF Move, vars, disk, control, history
  <2>2. QED
    BY <2>1 DEF Preparing, Shape, ShapeIdle, ShapeRead, ShapeBackup, ShapePublish,
        ShapeUnpublish, ShapeRestore, ShapeMark, Replaced, Last
<1>15. QED
  BY <1>1, <1>2, <1>3, <1>4, <1>5, <1>6, <1>7, <1>8, <1>9, <1>10, <1>11, <1>12,
     <1>13, <1>14 DEF Next, Prepares, Fails

-----------------------------------------------------------------------------
(* The generations on disk.                                                *)

LEMMA OrderedStep == TypeOK /\ Shape /\ Ordered /\ [Next]_vars => Ordered'
<1> SUFFICES ASSUME TypeOK, Shape, Ordered, [Next]_vars PROVE Ordered'
  OBVIOUS
<1> USE SizeFacts
<1>a. /\ gen \in Nat /\ committed \in Nat /\ Marker \in File
      /\ final \in [File -> Int] /\ before \in [File -> Int]
      /\ Generation \subseteq Nat
  BY BoundsAssumption DEF TypeOK, Generation, Absent, Torn
<1>1. CASE Begin
  <2>1. /\ gen' = gen + 1 /\ gen' \in Generation /\ before' = final
        /\ final' = final /\ committed' = committed
    BY <1>1, <1>a DEF Begin, disk, Generation
  <2>2. QED
    BY <1>a, <2>1 DEF Ordered
<1>2. CASE Prepares \/ Fails \/ RenameRaises \/ MarkRaises \/ Interrupt \/ Crash
  <2>1. pc # "idle"
    BY <1>2, PreparesFacts, FailsFacts
    DEF Preparing, RenameRaises, MarkRaises, Interrupt, Crash
  <2>2. /\ gen' = gen /\ before' = before /\ final' = final
        /\ committed' = committed
    BY <1>2, PreparesFacts, FailsFacts
    DEF RenameRaises, MarkRaises, Interrupt, Crash, disk, history
  <2>3. QED
    BY <2>1, <2>2 DEF Ordered
<1>3. CASE BackupOne \/ UnpublishOne
  <2>1. /\ pc # "idle" /\ gen' = gen /\ before' = before
        /\ committed' = committed /\ final' = [final EXCEPT ![k] = Absent]
    BY <1>3 DEF BackupOne, UnpublishOne, history
  <2>2. \A i \in File : final'[i] <= gen
    BY <1>a, <2>1 DEF Ordered, Absent
  <2>3. final'[Marker] # Torn
    BY <1>a, <2>1 DEF Ordered, Absent, Torn
  <2>4. QED
    BY <2>1, <2>2, <2>3 DEF Ordered
<1>4. CASE PublishOne \/ MarkPublished
  <2>0. pc # "idle" /\ gen' = gen /\ before' = before
    BY <1>4 DEF PublishOne, MarkPublished
  <2>1. committed' = committed \/ (committed' = gen /\ pc' = "idle")
    <3>1. CASE PublishOne
      BY <3>1 DEF PublishOne, Published, LeaveClean, Leave, Goto
    <3>2. CASE MarkPublished
      BY <3>2 DEF MarkPublished, LeaveClean, Leave, Goto
    <3>3. QED
      BY <1>4, <3>1, <3>2
  <2>2. \E i \in File : final' = [final EXCEPT ![i] = gen]
    BY <1>4 DEF PublishOne, MarkPublished, Shape, ShapePublish
  <2>3. (\A i \in File : final'[i] <= gen) /\ final'[Marker] # Torn
    BY <1>a, <2>2 DEF Ordered, Torn
  <2>4. QED
    BY <1>a, <2>0, <2>1, <2>3 DEF Ordered
<1>5. CASE RestoreOne
  <2>1. /\ pc # "idle" /\ gen' = gen /\ before' = before
        /\ committed' = committed
    BY <1>5 DEF RestoreOne, history
  <2>2. \A i \in File : final'[i] \in {final[i], before[i], Absent}
    BY <1>5 DEF RestoreOne, Shape, ShapeRestore, TypeOK
  <2>3. ASSUME NEW i \in File PROVE final'[i] <= gen
    <3>1. /\ final[i] <= gen /\ before[i] < gen
          /\ final[i] \in Int /\ before[i] \in Int
      BY <1>a, <2>1 DEF Ordered
    <3>2. \/ final'[i] = final[i] \/ final'[i] = before[i] \/ final'[i] = 0
      BY <2>2 DEF Absent
    <3>3. QED
      BY <1>a, <3>1, <3>2
  <2>4. final'[Marker] # Torn
    BY <1>a, <2>1, <2>2 DEF Ordered, Absent, Torn
  <2>5. QED
    BY <2>1, <2>3, <2>4 DEF Ordered
<1>6. CASE RollbackRaises
  <2>1. /\ pc # "idle" /\ gen' = gen /\ before' = before
        /\ committed' = committed
    BY <1>6 DEF RollbackRaises
  <2>2. \A i \in File : final'[i] \in {final[i], Torn}
    BY <1>6 DEF RollbackRaises, TypeOK
  <2>3. final'[Marker] = final[Marker]
    BY <1>6 DEF RollbackRaises, TypeOK, Shape, ShapeUnpublish
  <2>4. ASSUME NEW i \in File PROVE final'[i] <= gen
    <3>1. final[i] <= gen
      BY DEF Ordered
    <3>2. final'[i] = final[i] \/ final'[i] = -1
      BY <2>2 DEF Torn
    <3>3. QED
      BY <1>a, <3>1, <3>2
  <2>5. final'[Marker] # Torn
    BY <2>3 DEF Ordered
  <2>6. QED
    BY <2>1, <2>4, <2>5 DEF Ordered
<1>7. CASE (\E j \in RLFile : Move(j)) \/ UNCHANGED vars
  <2>1. /\ gen' = gen /\ before' = before /\ final' = final
        /\ committed' = committed /\ pc' = pc
    BY <1>7 DEF Move, vars, disk, control, history
  <2>2. QED
    BY <2>1 DEF Ordered
<1>8. QED
  BY <1>1, <1>2, <1>3, <1>4, <1>5, <1>6, <1>7 DEF Next, Prepares, Fails

\* However far the build is, the files at the final paths agree with their
\* marker only if they are what the build found.
LEMMA LeftWhole ==
    TypeOK /\ Shape /\ Ordered /\ pc # "idle" /\ Whole(before) => Whole(final)
<1> SUFFICES ASSUME TypeOK, Shape, Ordered, pc # "idle", Whole(before),
                    final[Marker] # Absent,
                    \A i \in Output : final[i] = final[Marker]
             PROVE  final[Marker] = committed
  BY DEF Whole
<1> USE SizeFacts
<1>a. /\ gen \in Nat /\ gen # 0 /\ final[1] = final[Marker]
      /\ 1 \in Output /\ 1 \in File /\ Marker \in File
      /\ before[Marker] < gen /\ before[Marker] \in Int
  BY BoundsAssumption DEF TypeOK, Ordered, Generation, Absent, Torn
<1>1. CASE pc \in Preparing \union {"backup", "restore"}
  <2>1. \A i \in File : final[i] \in {before[i], Absent}
    BY <1>1 DEF Shape, ShapeRead, ShapeBackup, ShapeRestore
  <2>2. \A i \in Output : final[i] = before[i]
    BY <2>1
  <2>3. final[Marker] = before[Marker]
    BY <1>a, <2>1
  <2>4. QED
    BY <2>2, <2>3 DEF Whole
<1>2. CASE pc \in {"publish", "unpublish"}
  <2>1. PICK n \in Int : n < Last /\ Replaced(n)
    <3>1. CASE pc = "publish"
      BY <3>1 DEF Shape, ShapePublish
    <3>2. CASE pc = "unpublish"
      BY <3>2 DEF Shape, ShapeUnpublish
    <3>3. QED
      BY <1>2, <3>1, <3>2
  <2>2. final[1] \in {gen, Absent}
    BY <1>a, <2>1 DEF Replaced
  <2>3. final[Marker] \in {before[Marker], Absent}
    BY <1>a, <2>1 DEF Replaced
  <2>4. QED
    BY <1>a, <2>2, <2>3
<1>3. CASE pc = "mark"
  BY <1>3, <1>a DEF Shape, ShapeMark
<1>4. QED
  BY <1>1, <1>2, <1>3 DEF TypeOK, Preparing

\* However far the build is, every output it found is still on disk, or all
\* of its own outputs are.
LEMMA LeftOnDisk ==
    ASSUME Shape, pc # "idle", TypeOK
    PROVE  \/ pc = "mark" /\ \A i \in Output : final[i] = gen
           \/ \A i \in Output : final[i] = before[i] \/ held[i] = before[i]
<1> USE SizeFacts
<1>1. CASE pc \in Preparing \union {"backup", "restore"}
  BY <1>1 DEF Shape, ShapeRead, ShapeBackup, ShapeRestore
<1>2. CASE pc \in {"publish", "unpublish"}
  BY <1>2 DEF Shape, ShapePublish, ShapeUnpublish, Replaced
<1>3. CASE pc = "mark"
  BY <1>3 DEF Shape, ShapeMark
<1>4. QED
  BY <1>1, <1>2, <1>3 DEF TypeOK, Preparing

LEMMA FoundStep ==
    TypeOK /\ Shape /\ Ordered /\ Found /\ [Next]_vars => Found'
<1> SUFFICES ASSUME TypeOK, Shape, Ordered, Found, [Next]_vars PROVE Found'
  OBVIOUS
<1> USE SizeFacts
<1>1. CASE Begin
  <2>1. /\ final' = final /\ before' = final /\ orphans' = orphans
        /\ committed' = committed /\ damaged' = damaged /\ pc = "idle"
    BY <1>1 DEF Begin, disk
  <2>2. QED
    BY <2>1 DEF Found, Whole, Kept
<1>2. CASE pc # "idle" /\ pc' # "idle" /\ Next
  <2>1. /\ before' = before /\ orphans' = orphans /\ committed' = committed
        /\ damaged' = damaged
    <3>0. CASE Prepares
      BY <3>0, PreparesFacts
    <3>1. CASE \/ BackupOne \/ RenameRaises \/ UnpublishOne
               \/ \E j \in RLFile : Move(j)
      BY <3>1 DEF BackupOne, RenameRaises, UnpublishOne, Move, disk, history
    <3>2. CASE PublishOne
      BY <1>2, <3>2 DEF PublishOne, Published, LeaveClean, Leave, Goto
    <3>3. CASE RestoreOne
      BY <1>2, <3>3 DEF RestoreOne, LeaveClean, Leave, Goto, history
    <3>4. QED
      BY <1>2, <3>0, <3>1, <3>2, <3>3, FailsFacts
      DEF Next, Prepares, Fails, Begin, RollbackRaises, MarkPublished,
          MarkRaises, Interrupt, Crash, LeaveClean, Leave, Goto
  <2>2. QED
    BY <1>2, <2>1 DEF Found, Whole, Kept
<1>3. CASE pc # "idle" /\ pc' = "idle" /\ Next
  <2> SUFFICES Whole(final)' /\ Kept(final)'
    BY <1>3 DEF Found
  <2>1. /\ Whole(before) /\ Kept(before) /\ Whole(final)
        /\ gen \in Generation /\ committed < gen
        /\ gen \in Nat /\ committed \in Nat
    <3>1. Whole(before) /\ Kept(before)
      BY <1>3 DEF Found
    <3>2. Whole(final)
      BY <1>3, <3>1, LeftWhole
    <3>3. gen \in Generation /\ committed < gen
      BY <1>3 DEF Ordered
    <3>4. gen \in Nat /\ committed \in Nat
      BY BoundsAssumption DEF TypeOK
    <3>5. QED
      BY <3>1, <3>2, <3>3, <3>4
  <2>2. CASE PublishOne \/ MarkPublished
    <3>1. committed' = gen
      <4>1. CASE PublishOne
        BY <1>3, <4>1 DEF PublishOne, Published, LeaveClean, Leave, Goto
      <4>2. CASE MarkPublished
        BY <4>2 DEF MarkPublished
      <4>3. QED
        BY <2>2, <4>1, <4>2
    <3>2. \A i \in Output : final'[i] = gen
      <4>1. CASE PublishOne
        <5>1. k = Last /\ final' = [final EXCEPT ![k] = gen] /\ Replaced(k - 1)
          BY <1>3, <4>1 DEF PublishOne, Goto, Shape, ShapePublish
        <5>2. QED
          BY <5>1 DEF Replaced, TypeOK
      <4>2. CASE MarkPublished
        BY <4>2 DEF MarkPublished, Shape, ShapeMark, TypeOK
      <4>3. QED
        BY <2>2, <4>1, <4>2
    <3>3. Whole(final)'
      BY <3>1, <3>2 DEF Whole
    <3>4. Kept(final)'
      BY <2>1, <3>1, <3>2 DEF Kept
    <3>5. QED
      BY <3>3, <3>4
  <2>3. CASE Prepares \/ Fails \/ RestoreOne
    <3>1. /\ final' = before /\ committed' = committed /\ orphans' = orphans
          /\ damaged' = damaged
      <4>1. CASE Prepares \/ Fails
        BY <4>1, PreparesFacts, FailsFacts
      <4>2. CASE RestoreOne
        <5>1. outcome' = "failed" /\ pc' = "idle" /\ before' = before
          BY <1>3, <4>2 DEF RestoreOne, LeaveClean, Leave, Goto, history
        <5>2. final' = before'
          BY <5>1, ShapeStep DEF Shape, ShapeIdle
        <5>3. QED
          BY <1>3, <4>2, <5>1, <5>2 DEF RestoreOne, LeaveClean, Goto, history
      <4>3. QED
        BY <2>3, <4>1, <4>2
    <3>2. QED
      BY <2>1, <3>1 DEF Whole, Kept
  <2>4. CASE RollbackRaises
    <3>1. damaged' = TRUE /\ committed' = committed
      BY <2>4 DEF RollbackRaises
    <3>2. CASE final' = final
      BY <2>1, <3>1, <3>2 DEF Whole, Kept
    <3>3. CASE final' # final
      <4>1. /\ k \in Output /\ final' = [final EXCEPT ![k] = Torn]
        BY <2>4, <3>3 DEF RollbackRaises, Shape, ShapeUnpublish
      <4>2. final'[k] = Torn /\ final'[Marker] # Torn
        BY <4>1, OrderedStep DEF TypeOK, Ordered
      <4>3. QED
        BY <3>1, <4>1, <4>2 DEF Whole, Kept
    <3>4. QED
      BY <3>2, <3>3
  <2>5. CASE MarkRaises \/ Interrupt
    <3>1. /\ final' = final /\ committed' = committed /\ orphans' = orphans
      BY <2>5 DEF MarkRaises, Interrupt, LeaveClean, history
    <3>2. Whole(final)'
      BY <2>1, <3>1 DEF Whole
    <3>3. ~damaged' => ~damaged /\ pc \in Preparing \union {"mark"}
      BY <2>5, <1>3 DEF MarkRaises, Interrupt, history, TypeOK, Preparing
    <3>4. Kept(final)'
      <4> SUFFICES ASSUME committed # Absent, ~damaged, pc \in Preparing \union {"mark"}
                   PROVE  \E g \in Generation :
                            /\ g >= committed
                            /\ \A i \in Output : final[i] = g \/ g \in orphans[i]
        BY <3>1, <3>3 DEF Kept
      <4>1. CASE pc \in Preparing
        BY <2>1, <4>1 DEF Kept, Shape, ShapeRead
      <4>2. CASE pc = "mark"
        <5>1. \A i \in Output : final[i] = gen
          BY <4>2 DEF Shape, ShapeMark
        <5>2. gen >= committed
          BY <2>1
        <5>3. QED
          BY <2>1, <5>1, <5>2
      <4>3. QED
        BY <4>1, <4>2
    <3>5. QED
      BY <3>2, <3>4
  <2>6. CASE Crash
    <3>1. /\ final' = final /\ committed' = committed /\ damaged' = damaged
          /\ orphans' = [i \in File |-> orphans[i] \union ({held[i]} \ {Absent})]
      BY <2>6 DEF Crash, history
    <3>2. Whole(final)'
      BY <2>1, <3>1 DEF Whole
    <3>3. Kept(final)'
      <4> SUFFICES ASSUME committed # Absent, ~damaged
                   PROVE  \E g \in Generation :
                            /\ g >= committed
                            /\ \A i \in Output : final[i] = g \/ g \in orphans'[i]
        BY <3>1 DEF Kept
      <4>1. CASE \A i \in Output : final[i] = gen
        BY <2>1, <4>1
      <4>2. CASE \A i \in Output : final[i] = before[i] \/ held[i] = before[i]
        <5>1. PICK g \in Generation :
                /\ g >= committed
                /\ \A i \in Output : before[i] = g \/ g \in orphans[i]
          BY <2>1 DEF Kept
        <5>2. g # Absent
          BY <5>1, BoundsAssumption DEF Generation, Absent
        <5>3. \A i \in Output : final[i] = g \/ g \in orphans'[i]
          BY <3>1, <4>2, <5>1, <5>2
        <5>4. QED
          BY <5>1, <5>3
      <4>3. QED
        BY <1>3, <4>1, <4>2, LeftOnDisk
    <3>4. QED
      BY <3>2, <3>3
  <2>7. QED
    BY <1>3, <2>2, <2>3, <2>4, <2>5, <2>6
    DEF Next, Prepares, Fails, Begin, BackupOne, RenameRaises, Rollback,
        UnpublishOne, Move, control, Goto
<1>4. CASE (\E j \in RLFile : Move(j)) \/ UNCHANGED vars
  <2>1. /\ pc' = pc /\ before' = before /\ final' = final
        /\ orphans' = orphans /\ committed' = committed /\ damaged' = damaged
    BY <1>4 DEF Move, vars, disk, control, history
  <2>2. QED
    BY <2>1 DEF Found, Whole, Kept
<1>5. QED
  <2>1. CASE pc = "idle" /\ Next
    BY <1>1, <1>4, <2>1, PreparesFacts, FailsFacts
    DEF Next, Prepares, Fails, Preparing, BackupOne, PublishOne, RenameRaises,
        UnpublishOne, RestoreOne, RollbackRaises, MarkPublished, MarkRaises,
        Interrupt, Crash
  <2>2. QED
    BY <1>2, <1>3, <1>4, <2>1

-----------------------------------------------------------------------------
(* The theorems.                                                           *)

LEMMA RunningStep == TypeOK /\ Shape /\ Running /\ [Next]_vars => Running'
<1> SUFFICES ASSUME TypeOK, Shape, Running, [Next]_vars PROVE Running'
  OBVIOUS
<1>0. CASE Prepares \/ Fails
  BY <1>0, PreparesFacts, FailsFacts DEF Running, Preparing
<1>1. CASE Begin \/ BackupOne \/ RenameRaises \/ UnpublishOne
  BY <1>1 DEF Running, Begin, BackupOne, RenameRaises, UnpublishOne, LeaveClean,
              Leave, Goto
<1>2. CASE PublishOne
  BY <1>2 DEF Running, PublishOne, Published, LeaveClean, Leave, Goto
<1>3. CASE RestoreOne
  BY <1>3 DEF Running, RestoreOne, LeaveClean, Leave, Goto
<1>4. CASE RollbackRaises \/ MarkPublished \/ MarkRaises \/ Interrupt \/ Crash
  BY <1>4 DEF Running, RollbackRaises, MarkPublished, MarkRaises, Interrupt,
              Crash, LeaveClean, Leave, Goto
<1>5. CASE (\E j \in RLFile : Move(j)) \/ UNCHANGED vars
  BY <1>5 DEF Running, Move, vars, control
<1>6. QED
  BY <1>0, <1>1, <1>2, <1>3, <1>4, <1>5 DEF Next, Prepares, Fails

LEMMA DiskStep == DiskInv /\ [Next]_vars => DiskInv'
BY TypeStep, ShapeStep, OrderedStep, FoundStep, RunningStep DEF DiskInv

LEMMA DiskHolds == Spec => []DiskInv
BY InitHolds, DiskStep, PTL DEF Spec

LEMMA Survives == DiskInv => CommittedSurvives
<1> SUFFICES ASSUME DiskInv, committed # Absent, ~damaged
             PROVE  \/ \A i \in Output : OnDisk(i, committed)
                    \/ \E g \in Generation :
                        g > committed /\ \A i \in Output : OnDisk(i, g)
  BY DEF CommittedSurvives
<1> USE SizeFacts
<1>1. \E g \in Generation : g >= committed /\ \A i \in Output : OnDisk(i, g)
  <2>1. CASE pc = "idle"
    BY <2>1 DEF DiskInv, Found, Kept, OnDisk
  <2>2. CASE pc # "idle" /\ \A i \in Output : final[i] = gen
    BY <2>2, BoundsAssumption
    DEF DiskInv, TypeOK, Generation, Ordered, OnDisk
  <2>3. CASE pc # "idle" /\ \A i \in Output : final[i] = before[i] \/ held[i] = before[i]
    BY <2>3 DEF DiskInv, Found, Kept, OnDisk
  <2>4. QED
    BY <2>1, <2>2, <2>3, LeftOnDisk DEF DiskInv
<1>2. committed \in Nat /\ Generation \subseteq Nat
  BY BoundsAssumption DEF DiskInv, TypeOK, Generation
<1>3. QED
  BY <1>1, <1>2

\* The type of the state, for every number of files, builds and faults.
THEOREM TypeCorrect == Spec => []TypeOK
BY DiskHolds, PTL DEF DiskInv

\* data/build_index.py:872-892, data/build_sft.py:2191-2216: a build that
\* fails with its rollback complete has put back exactly the files it found,
\* wherever in the publication it failed, and whatever the builds before it
\* left.
THEOREM FailuresRestore == Spec => []FailureRestores
<1>1. DiskInv => FailureRestores
  BY DEF DiskInv, Running, Shape, ShapeIdle, FailureRestores
<1>2. QED
  BY <1>1, DiskHolds, PTL

\* The outputs of the last accepted generation, or of a newer one, are never
\* lost to failures and kills: only a rollback that itself fails, or an
\* interrupt in the publication, can lose one.
THEOREM CommittedOutputsSurvive == Spec => []CommittedSurvives
BY DiskHolds, Survives, PTL

-----------------------------------------------------------------------------
(* What a consumer sees.                                                   *)

LEMMA VisibleWhole == DiskInv => Visible \in {0, committed}
<1> SUFFICES ASSUME DiskInv, Visible # 0 PROVE Visible = committed
  OBVIOUS
<1>1. Visible = final[Marker] /\ final[Marker] # Absent /\ Vouched
  BY DEF Visible, Absent
<1>2. \A i \in Output : final[i] = final[Marker]
  BY <1>1 DEF Vouched, Accepts
<1>3. Whole(final)
  <2>1. CASE pc = "idle"
    BY <2>1 DEF DiskInv, Found
  <2>2. CASE pc # "idle"
    BY <2>2, LeftWhole DEF DiskInv, Found
  <2>3. QED
    BY <2>1, <2>2
<1>4. QED
  BY <1>1, <1>2, <1>3 DEF Whole

\* A build that commits leaves its own files at every final path.
LEMMA Commits ==
    ASSUME DiskInv, \/ PublishOne /\ pc' = "idle"
                    \/ MarkPublished
    PROVE  /\ committed' = gen
           /\ \A i \in File : final'[i] = gen
<1> USE SizeFacts
<1>1. CASE PublishOne /\ pc' = "idle"
  <2>1. /\ k = Last /\ builder = "index" /\ Replaced(k - 1)
        /\ final' = [final EXCEPT ![k] = gen] /\ committed' = gen
    BY <1>1 DEF PublishOne, Published, LeaveClean, Leave, Goto, DiskInv,
                Shape, ShapePublish
  <2>2. Last = N + 1
    BY <2>1 DEF Last
  <2>3. QED
    BY <2>1, <2>2 DEF Replaced, DiskInv, TypeOK
<1>2. CASE MarkPublished
  <2>1. /\ final' = [final EXCEPT ![Marker] = gen] /\ committed' = gen
        /\ \A i \in Output : final[i] = gen
    BY <1>2 DEF MarkPublished, DiskInv, Shape, ShapeMark
  <2>2. QED
    BY <2>1 DEF DiskInv, TypeOK
<1>3. QED
  BY <1>1, <1>2

LEMMA CommitStep ==
    ASSUME DiskInv, [Next]_vars
    PROVE  \/ committed' = committed
           \/ committed' > committed /\ Visible' = committed'
<1> USE SizeFacts
<1>1. CASE (PublishOne /\ pc' = "idle") \/ MarkPublished
  <2>1. /\ committed' = gen /\ committed < gen /\ gen \in Generation
        /\ \A i \in File : final'[i] = gen
    BY <1>1, Commits DEF DiskInv, Ordered, PublishOne, MarkPublished
  <2>2. gen # Absent /\ committed \in Nat /\ gen \in Nat
    BY <2>1, BoundsAssumption DEF Generation, Absent, DiskInv, TypeOK
  <2>3. Visible' = gen
    BY <2>1, <2>2 DEF Visible, Vouched, Accepts
  <2>4. QED
    BY <2>1, <2>2, <2>3
<1>2. CASE PublishOne /\ pc' # "idle"
  BY <1>2 DEF PublishOne, Published, LeaveClean, Leave, Goto
<1>0. CASE Prepares \/ Fails
  BY <1>0, PreparesFacts, FailsFacts DEF DiskInv
<1>3. CASE Begin \/ BackupOne \/ RenameRaises \/ UnpublishOne
  BY <1>3 DEF Begin, BackupOne, RenameRaises, UnpublishOne, history
<1>4. CASE \/ RestoreOne \/ RollbackRaises \/ MarkRaises \/ Interrupt \/ Crash
           \/ \E j \in RLFile : Move(j)
  BY <1>4 DEF RestoreOne, RollbackRaises, MarkRaises, Interrupt, Crash,
              Move, history
<1>5. CASE UNCHANGED vars
  BY <1>5 DEF vars, history
<1>6. QED
  BY <1>0, <1>1, <1>2, <1>3, <1>4, <1>5 DEF Next, Prepares, Fails

\* A consumer who looks only at accepted outputs sees whole generations in
\* the order they were published: the publication implements
\* VouchedGeneration.
THEOREM ConsumersSeeWholeGenerations == Spec => ConsumersSeeWhole
<1>1. Init => Consumers!Init
  BY SizeFacts DEF Init, Consumers!Init, Visible, NoFiles, Absent
<1>2. DiskInv /\ DiskInv' /\ [Next]_vars => [Consumers!Next]_<<Visible, committed>>
  <2> SUFFICES ASSUME DiskInv, DiskInv', [Next]_vars
               PROVE  Consumers!Next
    OBVIOUS
  <2>1. Visible' \in {0, committed'}
    <3>1. DiskInv' => (Visible \in {0, committed})'
      BY VisibleWhole, PTL
    <3>2. QED
      BY <3>1
  <2>2. CASE committed' = committed
    BY <2>1, <2>2 DEF Consumers!Next, Consumers!Withdraw, Consumers!Return
  <2>3. CASE committed' > committed /\ Visible' = committed'
    BY <2>3 DEF Consumers!Next, Consumers!Publish
  <2>4. QED
    BY <2>2, <2>3, CommitStep
<1>3. QED
  BY <1>1, <1>2, DiskHolds, PTL DEF Spec, ConsumersSeeWhole, Consumers!Spec

-----------------------------------------------------------------------------
(* What a build was made from.                                             *)

NewBuilds ==
    \A g \in Generation : g > gen => madeFrom[g] = {} /\ g \notin disturbed

Undisturbed == pc # "idle" /\ ~edited => gen \notin disturbed

\* The manifest and the first n files are of the generation of the fingerprint,
\* or the fingerprint is of two, and files of both are still there.
Hashed(n) ==
    \/ /\ print[gen] \in Source
       /\ rl[RLManifest] = print[gen]
       /\ \A j \in 1..n : rl[j] = print[gen]
    \/ /\ builder = "sft"
       /\ print[gen] = Mixed
       /\ \E i, j \in RLFile : rl[i] # Absent /\ rl[j] # Absent /\ rl[i] # rl[j]

\* The RL generation is whole and is the one that was fingerprinted.
AsPrinted == print[gen] \in Source /\ \A j \in RLFile : rl[j] = print[gen]

PrintTells ==
    gen \notin disturbed =>
        /\ pc = "print" => Hashed(k - 1)
        /\ pc = "check" => Hashed(Reads)
        /\ pc \notin {"idle", "print", "check"} => AsPrinted

ReadTells ==
    /\ pc \in {"print", "check", "recheck"} => madeFrom[gen] = {}
    /\ pc = "read" /\ gen \notin disturbed => madeFrom[gen] \subseteq {print[gen]}

\* A marker tells what the outputs were made from, unless a file of it was
\* moved away meanwhile.
Tells(g) == g # Absent /\ g \notin disturbed => madeFrom[g] = {print[g]}

MarkersTell ==
    /\ Tells(final[Marker])
    /\ pc # "idle" => Tells(before[Marker])
    /\ pc \notin {"idle"} \union Preparing => Tells(gen)

FreshInv ==
    /\ DiskInv
    /\ NewBuilds
    /\ Undisturbed
    /\ PrintTells
    /\ ReadTells
    /\ MarkersTell
    /\ SteadyBuildIsFresh

LEMMA FreshInit == Init => FreshInv
<1> SUFFICES ASSUME Init PROVE FreshInv
  OBVIOUS
<1> USE SizeFacts
<1>1. NewBuilds /\ Undisturbed /\ PrintTells /\ ReadTells
  BY DEF Init, NewBuilds, Undisturbed, PrintTells, ReadTells
<1>2. MarkersTell /\ SteadyBuildIsFresh
  BY DEF Init, MarkersTell, Tells, SteadyBuildIsFresh, NoFiles, Absent
<1>3. QED
  BY <1>1, <1>2, InitHolds DEF FreshInv

\* The steps of the publication, and those that end the build before it.
Publishes ==
    \/ BackupOne \/ PublishOne \/ RenameRaises \/ UnpublishOne \/ RestoreOne
    \/ RollbackRaises \/ MarkPublished \/ MarkRaises

Leaves == Fails \/ Interrupt \/ Crash

LEMMA PublishesFacts ==
    ASSUME Publishes
    PROVE  /\ pc \notin {"idle"} \union Preparing
           /\ pc' \notin Preparing
           /\ UNCHANGED <<builder, rl, disturbed, print, madeFrom, gen, edited, before>>
<1>1. pc \in {"backup", "publish", "unpublish", "restore", "mark"}
  BY DEF Publishes, BackupOne, PublishOne, RenameRaises, UnpublishOne,
         RestoreOne, RollbackRaises, MarkPublished, MarkRaises
<1>2. pc' \in {"idle", "backup", "publish", "unpublish", "restore", "mark"}
  BY DEF Publishes, BackupOne, PublishOne, Published, RenameRaises, Rollback,
         UnpublishOne, RestoreOne, RollbackRaises, MarkPublished, MarkRaises,
         LeaveClean, Leave, Goto
<1>3. UNCHANGED <<builder, rl, disturbed, print, madeFrom, gen, edited, before>>
  BY DEF Publishes, BackupOne, PublishOne, RenameRaises, UnpublishOne,
         RestoreOne, RollbackRaises, MarkPublished, MarkRaises, source, record,
         history
<1>4. QED
  BY <1>1, <1>2, <1>3 DEF Preparing

LEMMA LeavesFacts ==
    ASSUME Leaves, Shape
    PROVE  /\ pc # "idle" /\ pc' = "idle" /\ outcome' \notin {"built", "reused"}
           /\ UNCHANGED <<rl, disturbed, print, madeFrom, gen, edited, before, final>>
<1>1. CASE Fails
  BY <1>1, FailsFacts DEF Preparing
<1>2. CASE Interrupt \/ Crash
  BY <1>2 DEF Interrupt, Crash, LeaveClean, Leave, Goto, source, record, history
<1>3. QED
  BY <1>1, <1>2 DEF Leaves

LEMMA MoveFacts ==
    ASSUME NEW j \in RLFile, Move(j), TypeOK
    PROVE  /\ UNCHANGED <<builder, print, madeFrom, gen, pc, k, outcome, before, final>>
           /\ edited' = TRUE
           /\ disturbed' \in {disturbed, disturbed \union {gen}}
           /\ pc = "idle" => disturbed' = disturbed
           /\ pc # "idle" /\ gen \notin disturbed' =>
                /\ gen \notin disturbed
                /\ rl[j] = Absent
                /\ \A i \in RLFile : i # j => rl'[i] = rl[i]
<1>1. /\ UNCHANGED <<builder, print, madeFrom, gen, pc, k, outcome, before, final>>
      /\ edited' = TRUE
  BY DEF Move, disk, record, control
<1>2. disturbed' \in {disturbed, disturbed \union {gen}}
  BY DEF Move
<1>3. pc = "idle" => disturbed' = disturbed
  BY DEF Move
<1>4. ASSUME pc # "idle", gen \notin disturbed'
      PROVE  gen \notin disturbed /\ rl[j] = Absent
  BY <1>4 DEF Move
<1>5. \A i \in RLFile : i # j => rl'[i] = rl[i]
  BY DEF Move, TypeOK
<1>6. QED
  BY <1>1, <1>2, <1>3, <1>4, <1>5

LEMMA RLFileFacts ==
    /\ RLManifest \in RLFile /\ 1..Reads \subseteq RLFile
    /\ \A j \in RLFile : j \in 1..Reads \/ j = RLManifest
    /\ Absent \notin Source /\ Mixed \notin Source /\ Mixed # Absent
BY SizeAssumption DEF RLFile, RLManifest, Source, Absent, Mixed

LEMMA NewBuildsStep ==
    TypeOK /\ Shape /\ Ordered /\ NewBuilds /\ [Next]_vars => NewBuilds'
<1> SUFFICES ASSUME TypeOK, Shape, Ordered, NewBuilds, [Next]_vars
             PROVE  NewBuilds'
  OBVIOUS
<1>a. /\ gen \in Nat /\ Generation \subseteq Nat
      /\ pc # "idle" => gen \in Generation
  BY BoundsAssumption DEF TypeOK, Generation, Ordered
<1>1. CASE Begin
  <2>1. gen' = gen + 1 /\ madeFrom' = madeFrom /\ disturbed' = disturbed
    BY <1>1 DEF Begin, source
  <2>2. QED
    BY <1>a, <2>1 DEF NewBuilds, Generation
<1>2. CASE Prepares
  <2>1. gen' = gen /\ disturbed' = disturbed
    BY <1>2, PreparesFacts
  <2>2. \A g \in Generation : g # gen => madeFrom'[g] = madeFrom[g]
    BY <1>2 DEF Prepares, HashFile, Check, Recheck, Read, record, TypeOK
  <2>3. QED
    BY <1>a, <2>1, <2>2 DEF NewBuilds, Generation
<1>3. CASE Publishes \/ Leaves \/ UNCHANGED vars
  <2>1. gen' = gen /\ disturbed' = disturbed /\ madeFrom' = madeFrom
    BY <1>3, PublishesFacts, LeavesFacts DEF vars, source, record, control
  <2>2. QED
    BY <2>1 DEF NewBuilds, Generation
<1>4. CASE \E j \in RLFile : Move(j)
  <2>1. /\ gen' = gen /\ madeFrom' = madeFrom
        /\ disturbed' \in {disturbed, disturbed \union {gen}}
    BY <1>4, MoveFacts
  <2>2. QED
    BY <1>a, <2>1 DEF NewBuilds, Generation
<1>5. QED
  BY <1>1, <1>2, <1>3, <1>4 DEF Next, Prepares, Fails, Publishes, Leaves

LEMMA UndisturbedStep ==
    TypeOK /\ Shape /\ NewBuilds /\ Undisturbed /\ [Next]_vars => Undisturbed'
<1> SUFFICES ASSUME TypeOK, Shape, NewBuilds, Undisturbed, [Next]_vars
             PROVE  Undisturbed'
  OBVIOUS
<1>1. CASE Begin
  <2>1. /\ gen' = gen + 1 /\ gen + 1 \in Generation /\ disturbed' = disturbed
        /\ gen + 1 > gen
    BY <1>1, BoundsAssumption DEF Begin, source, TypeOK, Generation
  <2>2. QED
    BY <2>1 DEF NewBuilds, Undisturbed
<1>2. CASE Prepares \/ Publishes \/ Leaves \/ UNCHANGED vars
  <2>1. /\ UNCHANGED <<gen, disturbed, edited>>
        /\ pc # "idle" \/ pc' = pc
    BY <1>2, PreparesFacts, PublishesFacts, LeavesFacts
    DEF Preparing, vars, source, control, history
  <2>2. QED
    BY <2>1 DEF Undisturbed
<1>3. CASE \E j \in RLFile : Move(j)
  BY <1>3, MoveFacts DEF Undisturbed
<1>4. QED
  BY <1>1, <1>2, <1>3 DEF Next, Prepares, Fails, Publishes, Leaves

\* Hashing file k keeps what the fingerprint tells.
LEMMA PrintHashes ==
    ASSUME TypeOK, Shape, Ordered, HashFile, Hashed(k - 1), NEW n \in Nat, n = k
    PROVE  Hashed(n)'
<1> USE RLFileFacts
<1>1. /\ k \in 1..Reads /\ k \in RLFile /\ rl[k] # Absent
      /\ rl' = rl /\ gen' = gen /\ builder' = builder
      /\ gen \in Generation /\ DOMAIN print = Generation
  BY PreparesFacts, RLFileFacts
  DEF Prepares, HashFile, source, Shape, ShapeRead, Preparing, Ordered, TypeOK
<1>2. CASE rl[k] = print[gen] /\ print' = print
  <2>1. print[gen] \in Source \/ print[gen] = Mixed
    BY DEF Hashed
  <2>2. rl[k] \in Source
    BY <1>1 DEF TypeOK
  <2>3. print[gen] \in Source
    BY <1>2, <2>2
  <2>4. rl[RLManifest] = print[gen] /\ \A j \in 1..(k - 1) : rl[j] = print[gen]
    BY <2>3 DEF Hashed
  <2>5. \A j \in 1..k : j \in 1..(k - 1) \/ j = k
    BY <1>1
  <2>6. \A j \in 1..n : rl[j] = print[gen]
    BY <1>2, <2>4, <2>5
  <2>7. QED
    BY <1>1, <1>2, <2>3, <2>4, <2>6 DEF Hashed
<1>3. CASE /\ rl[k] # print[gen] /\ builder = "sft"
           /\ print' = [print EXCEPT ![gen] = Mixed]
  <2>1. print'[gen] = Mixed
    BY <1>1, <1>3
  <2>2. \E i, j \in RLFile : rl[i] # Absent /\ rl[j] # Absent /\ rl[i] # rl[j]
    <3>1. CASE print[gen] \in Source /\ rl[RLManifest] = print[gen]
      BY <1>1, <1>3, <3>1
    <3>2. CASE ~(print[gen] \in Source /\ rl[RLManifest] = print[gen])
      BY <3>2 DEF Hashed
    <3>3. QED
      BY <3>1, <3>2
  <2>3. QED
    BY <1>1, <1>3, <2>1, <2>2 DEF Hashed
<1>4. QED
  BY <1>2, <1>3 DEF HashFile

\* Once all are hashed and found whole, the fingerprint is the one of all.
LEMMA WholeAsPrinted ==
    ASSUME TypeOK, Hashed(Reads), RLWhole \/ builder = "index"
    PROVE  AsPrinted
<1> USE RLFileFacts
<1>1. CASE /\ print[gen] \in Source /\ rl[RLManifest] = print[gen]
           /\ \A j \in 1..Reads : rl[j] = print[gen]
  BY <1>1 DEF AsPrinted
<1>2. CASE /\ builder = "sft"
           /\ \E i, j \in RLFile : rl[i] # Absent /\ rl[j] # Absent /\ rl[i] # rl[j]
  BY <1>2 DEF RLWhole
<1>3. QED
  BY <1>1, <1>2 DEF Hashed

LEMMA PrintTellsStep ==
    TypeOK /\ Shape /\ Ordered /\ PrintTells /\ [Next]_vars => PrintTells'
<1> SUFFICES ASSUME TypeOK, Shape, Ordered, PrintTells, [Next]_vars
             PROVE  PrintTells'
  OBVIOUS
<1> USE RLFileFacts
<1>1. CASE Begin
  <2>1. CASE pc' = "idle"
    BY <2>1 DEF PrintTells
  <2>2. CASE pc' # "idle"
    <3>1. /\ pc' = "print" /\ k' = 1 /\ rl' = rl /\ gen' = gen + 1
          /\ gen + 1 \in Generation /\ rl[RLManifest] # Absent
          /\ print' = [print EXCEPT ![gen + 1] = rl[RLManifest]]
      BY <1>1, <2>2, BoundsAssumption DEF Begin, Leave, Goto, source, TypeOK, Generation
    <3>2. print'[gen'] = rl[RLManifest] /\ rl[RLManifest] \in Source
      BY <3>1 DEF TypeOK
    <3>3. k' - 1 = 0 /\ \A j \in 1..0 : FALSE
      BY <3>1
    <3>4. Hashed(k - 1)'
      BY <3>1, <3>2, <3>3 DEF Hashed
    <3>5. QED
      BY <3>1, <3>4 DEF PrintTells
  <2>3. QED
    BY <2>1, <2>2
<1>2. CASE Prepares
  <2> SUFFICES ASSUME gen' \notin disturbed'
               PROVE  /\ pc' = "print" => Hashed(k - 1)'
                      /\ pc' = "check" => Hashed(Reads)'
                      /\ pc' \notin {"idle", "print", "check"} => AsPrinted'
    BY DEF PrintTells
  <2>1. /\ rl' = rl /\ gen' = gen /\ builder' = builder /\ gen \notin disturbed
        /\ k \in 1..Reads
    BY <1>2, PreparesFacts
  <2>2. CASE HashFile
    <3>1. ASSUME NEW n \in Nat, n = k PROVE Hashed(n)'
      BY <2>1, <2>2, <3>1, PrintHashes DEF PrintTells, HashFile
    <3>2. CASE k < Reads
      <4>1. pc' = "print" /\ k' = k + 1
        BY <2>2, <3>2 DEF HashFile, Goto
      <4>2. (k - 1)' = k /\ k \in Nat
        BY <2>1, <4>1, SizeAssumption
      <4>3. ASSUME NEW n \in Nat, n = k PROVE Hashed(n)' <=> Hashed(k - 1)'
        BY <4>2, <4>3 DEF Hashed
      <4>4. QED
        BY <3>1, <4>1, <4>2, <4>3
    <3>3. CASE ~(k < Reads)
      <4>1. k = Reads
        BY <2>1, <3>3, SizeAssumption
      <4>2. Hashed(Reads)'
        BY <3>1, <4>1, SizeAssumption
      <4>3. CASE builder = "index"
        <5>1. pc' \in {"idle", "read"}
          BY <2>2, <3>3, <4>3 DEF HashFile, Decide, Leave, Goto
        <5>2. TypeOK'
          BY TypeStep
        <5>3. (TypeOK /\ Hashed(Reads) /\ builder = "index" => AsPrinted)'
          BY WholeAsPrinted, PTL
        <5>4. QED
          BY <2>1, <4>2, <4>3, <5>1, <5>2, <5>3
      <4>4. CASE builder # "index"
        <5>1. pc' = "check"
          BY <2>2, <3>3, <4>4 DEF HashFile, Goto
        <5>2. QED
          BY <4>2, <5>1
      <4>5. QED
        BY <4>3, <4>4
    <3>4. QED
      BY <3>2, <3>3
  <2>3. CASE Check \/ Recheck \/ Read
    <3>1. AsPrinted
      <4>1. CASE Check
        BY <2>1, <4>1, WholeAsPrinted DEF Check, PrintTells
      <4>2. CASE Recheck \/ Read
        BY <2>1, <4>2 DEF Recheck, Read, PrintTells
      <4>3. QED
        BY <2>3, <4>1, <4>2
    <3>2. print' = print
      BY <2>3 DEF Check, Recheck, Read, record
    <3>3. pc' \notin {"print", "check"}
      BY <2>3 DEF Check, Decide, Recheck, Read, Leave, Goto
    <3>4. QED
      BY <2>1, <3>1, <3>2, <3>3 DEF AsPrinted
  <2>4. QED
    BY <1>2, <2>2, <2>3 DEF Prepares
<1>3. CASE Publishes
  BY <1>3, PublishesFacts DEF PrintTells, AsPrinted, Preparing
<1>4. CASE Leaves
  BY <1>4, LeavesFacts DEF PrintTells
<1>5. ASSUME NEW m \in RLFile, Move(m) PROVE PrintTells'
  <2> SUFFICES ASSUME gen \notin disturbed', pc # "idle" PROVE PrintTells'
    BY <1>5, MoveFacts DEF PrintTells
  <2>1. /\ UNCHANGED <<builder, print, gen, pc, k>>
        /\ gen \notin disturbed /\ rl[m] = Absent
        /\ \A i \in RLFile : i # m => rl'[i] = rl[i]
    BY <1>5, MoveFacts
  <2>2. \A i \in RLFile : rl[i] # Absent => rl'[i] = rl[i]
    BY <2>1
  <2>3. ASSUME NEW n \in 0..Reads, Hashed(n) PROVE Hashed(n)'
    <3>1. CASE /\ print[gen] \in Source /\ rl[RLManifest] = print[gen]
               /\ \A j \in 1..n : rl[j] = print[gen]
      <4>1. \A j \in 1..n : j \in RLFile
        BY SizeAssumption
      <4>2. QED
        BY <2>1, <2>2, <3>1, <4>1 DEF Hashed
    <3>2. CASE /\ builder = "sft" /\ print[gen] = Mixed
               /\ \E i, j \in RLFile : rl[i] # Absent /\ rl[j] # Absent /\ rl[i] # rl[j]
      BY <2>1, <2>2, <3>2 DEF Hashed
    <3>3. QED
      BY <2>3, <3>1, <3>2 DEF Hashed
  <2>4. AsPrinted => AsPrinted'
    BY <2>1, <2>2 DEF AsPrinted
  <2>5. pc = "print" => k - 1 \in 0..Reads
    BY SizeAssumption DEF Shape, ShapeRead, Preparing
  <2>6. Reads \in 0..Reads
    BY SizeAssumption
  <2>7. QED
    BY <2>1, <2>3, <2>4, <2>5, <2>6 DEF PrintTells
<1>6. CASE UNCHANGED vars
  BY <1>6 DEF vars, source, record, control, PrintTells, Hashed, AsPrinted
<1>7. QED
  BY <1>1, <1>2, <1>3, <1>4, <1>5, <1>6 DEF Next, Prepares, Fails, Publishes, Leaves

LEMMA ReadTellsStep ==
    /\ TypeOK /\ Shape /\ Ordered /\ NewBuilds /\ PrintTells /\ ReadTells
    /\ [Next]_vars
    => ReadTells'
<1> SUFFICES ASSUME TypeOK, Shape, Ordered, NewBuilds, PrintTells, ReadTells,
                    [Next]_vars
             PROVE  ReadTells'
  OBVIOUS
<1> USE RLFileFacts
<1>1. CASE Begin
  <2>1. /\ gen' = gen + 1 /\ gen + 1 \in Generation /\ gen + 1 > gen
        /\ madeFrom' = madeFrom /\ pc' # "read"
    BY <1>1, BoundsAssumption DEF Begin, Leave, Goto, TypeOK, Generation
  <2>2. QED
    BY <2>1 DEF NewBuilds, ReadTells
<1>2. CASE HashFile \/ Check
  <2>1. /\ gen' = gen /\ madeFrom' = madeFrom
        /\ pc \in {"print", "check", "recheck"}
    BY <1>2 DEF HashFile, Check, record
  <2>2. QED
    BY <2>1 DEF ReadTells
<1>3. CASE Recheck \/ Read
  <2>1. /\ gen' = gen /\ disturbed' = disturbed /\ print' = print
        /\ gen \in Generation /\ DOMAIN madeFrom = Generation
        /\ pc' \in {"read", "backup"} /\ pc \in {"recheck", "read"}
    BY <1>3 DEF Recheck, Read, Goto, source, TypeOK, Ordered
  <2>2. ASSUME gen \notin disturbed PROVE madeFrom'[gen] \subseteq {print[gen]}
    <3>1. AsPrinted
      BY <2>1, <2>2 DEF PrintTells
    <3>2. CASE Recheck
      BY <2>1, <3>1, <3>2 DEF AsPrinted, Recheck
    <3>3. CASE Read
      <4>1. k \in 1..Reads
        BY <3>3 DEF Read, Shape, ShapeRead, Preparing
      <4>2. madeFrom'[gen] = madeFrom[gen] \union {print[gen]}
        BY <2>1, <3>1, <3>3, <4>1 DEF AsPrinted, Read
      <4>3. madeFrom[gen] \subseteq {print[gen]}
        BY <2>2, <3>3 DEF Read, ReadTells
      <4>4. QED
        BY <4>2, <4>3
    <3>4. QED
      BY <1>3, <3>2, <3>3
  <2>3. QED
    BY <2>1, <2>2 DEF ReadTells
<1>4. CASE Publishes
  BY <1>4, PublishesFacts DEF ReadTells, Preparing
<1>5. CASE Leaves
  BY <1>5, LeavesFacts DEF ReadTells
<1>6. CASE \E j \in RLFile : Move(j)
  BY <1>6, MoveFacts DEF ReadTells
<1>7. CASE UNCHANGED vars
  BY <1>7 DEF vars, source, record, control, ReadTells
<1>8. QED
  BY <1>1, <1>2, <1>3, <1>4, <1>5, <1>6, <1>7
  DEF Next, Prepares, Fails, Publishes, Leaves

\* The last file that is read makes the build one that the marker tells of.
LEMMA ReadsTell ==
    ASSUME TypeOK, Shape, Ordered, PrintTells, ReadTells, Prepares, pc' = "backup"
    PROVE  Tells(gen)'
<1> USE RLFileFacts
<1>1. Read
  BY DEF Prepares, HashFile, Check, Recheck, Decide, Leave, Goto
<1>2. /\ gen' = gen /\ disturbed' = disturbed /\ print' = print
      /\ k \in 1..Reads /\ pc = "read"
      /\ gen \in Generation /\ DOMAIN madeFrom = Generation
  BY <1>1 DEF Read, source, Shape, ShapeRead, Preparing, TypeOK, Ordered
<1>3. ASSUME gen \notin disturbed PROVE madeFrom'[gen] = {print[gen]}
  <2>1. AsPrinted
    BY <1>2, <1>3 DEF PrintTells
  <2>2. madeFrom'[gen] = madeFrom[gen] \union {print[gen]}
    BY <1>1, <1>2, <2>1 DEF AsPrinted, Read
  <2>3. madeFrom[gen] \subseteq {print[gen]}
    BY <1>2, <1>3 DEF ReadTells
  <2>4. QED
    BY <2>2, <2>3
<1>4. QED
  BY <1>2, <1>3 DEF Tells

LEMMA MarkersTellStep ==
    /\ DiskInv /\ NewBuilds /\ PrintTells /\ ReadTells /\ MarkersTell
    /\ [Next]_vars
    => MarkersTell'
<1> SUFFICES ASSUME DiskInv, NewBuilds, PrintTells, ReadTells, MarkersTell,
                    [Next]_vars
             PROVE  MarkersTell'
  OBVIOUS
<1> USE SizeFacts DEF DiskInv
<1>a. /\ Marker \in File /\ DOMAIN final = File
      /\ final[Marker] \in Generation \union {Absent} /\ final[Marker] <= gen
      /\ gen \in Nat /\ Generation \subseteq Nat /\ Absent \notin Generation
  BY BoundsAssumption DEF TypeOK, Ordered, Generation, Absent
<1>b. pc # "idle" =>
        /\ gen \in Generation
        /\ before[Marker] \in Generation \union {Absent} /\ before[Marker] < gen
  BY DEF TypeOK, Ordered
<1>1. CASE Begin
  <2>1. /\ final' = final /\ before' = final /\ madeFrom' = madeFrom
        /\ disturbed' = disturbed /\ pc' \in {"idle", "print"}
        /\ gen + 1 \in Generation
        /\ \A g \in Generation : g # gen + 1 => print'[g] = print[g]
    BY <1>1, <1>a DEF Begin, disk, source, Leave, Goto, TypeOK, Generation
  <2>2. final[Marker] # gen + 1
    BY <1>a
  <2>3. Tells(final[Marker])'
    BY <1>a, <2>1, <2>2 DEF MarkersTell, Tells
  <2>4. QED
    BY <2>1, <2>3 DEF MarkersTell, Preparing
<1>2. CASE Prepares
  <2>1. /\ final' = final /\ before' = before /\ final = before /\ gen' = gen
        /\ disturbed' = disturbed /\ pc # "idle"
        /\ pc' \in {"idle", "backup"} \union Preparing
    BY <1>2, PreparesFacts DEF Preparing
  <2>2. \A g \in Generation :
          g # gen => print'[g] = print[g] /\ madeFrom'[g] = madeFrom[g]
    BY <1>2 DEF Prepares, HashFile, Check, Recheck, Read, record, TypeOK
  <2>3. before[Marker] # gen
    BY <1>a, <1>b, <2>1
  <2>4. Tells(before[Marker])'
    BY <1>b, <2>1, <2>2, <2>3 DEF MarkersTell, Tells
  <2>5. pc' = "backup" => Tells(gen)'
    BY <1>2, ReadsTell
  <2>6. QED
    BY <2>1, <2>4, <2>5 DEF MarkersTell
<1>3. CASE Publishes
  <2>1. /\ UNCHANGED <<disturbed, print, madeFrom, gen, before>>
        /\ pc \notin {"idle"} \union Preparing
    BY <1>3, PublishesFacts
  <2>2. Tells(gen) /\ Tells(before[Marker]) /\ Tells(final[Marker])
    BY <2>1 DEF MarkersTell
  <2>3. final'[Marker] \in {final[Marker], before[Marker], gen, Absent}
    <3>1. CASE PublishOne \/ MarkPublished
      BY <3>1, <1>a DEF PublishOne, MarkPublished
    <3>2. CASE BackupOne \/ UnpublishOne
      BY <3>2, <1>a DEF BackupOne, UnpublishOne
    <3>3. CASE RestoreOne
      BY <3>3, <1>a DEF RestoreOne, Shape, ShapeRestore
    <3>4. CASE RollbackRaises
      BY <3>4, <1>a DEF RollbackRaises, Shape, ShapeUnpublish
    <3>5. CASE RenameRaises \/ MarkRaises
      BY <3>5 DEF RenameRaises, MarkRaises, disk
    <3>6. QED
      BY <1>3, <3>1, <3>2, <3>3, <3>4, <3>5 DEF Publishes
  <2>4. Tells(final[Marker])' /\ Tells(before[Marker])' /\ Tells(gen)'
    BY <2>1, <2>2, <2>3 DEF Tells
  <2>5. QED
    BY <2>4 DEF MarkersTell
<1>4. CASE Leaves
  <2>1. /\ UNCHANGED <<disturbed, print, madeFrom, final>> /\ pc' = "idle"
    BY <1>4, LeavesFacts
  <2>2. QED
    BY <2>1 DEF MarkersTell, Tells
<1>5. CASE \E j \in RLFile : Move(j)
  <2>1. /\ UNCHANGED <<print, madeFrom, gen, pc, before, final>>
        /\ disturbed \subseteq disturbed'
    BY <1>5, MoveFacts
  <2>2. QED
    BY <2>1 DEF MarkersTell, Tells
<1>6. CASE UNCHANGED vars
  BY <1>6 DEF vars, source, disk, record, control, history, MarkersTell, Tells
<1>7. QED
  BY <1>1, <1>2, <1>3, <1>4, <1>5, <1>6 DEF Next, Prepares, Fails, Publishes, Leaves

\* A build that commits before anybody moved a file of its input is fresh.
LEMMA CommitIsFresh ==
    ASSUME FreshInv, \/ PublishOne /\ pc' = "idle"
                     \/ MarkPublished
    PROVE  SteadyBuildIsFresh'
<1>1. /\ edited' = edited /\ rl' = rl /\ print' = print /\ madeFrom' = madeFrom
      /\ disturbed' = disturbed /\ pc \in {"publish", "mark"}
  BY DEF PublishOne, MarkPublished, record, source
<1>2. gen \in Generation /\ gen # Absent
  BY <1>1, BoundsAssumption
  DEF FreshInv, DiskInv, Ordered, TypeOK, Generation, Absent
<1>3. \A i \in File : final'[i] = gen
  BY Commits DEF FreshInv
<1>4. ~edited => \A j \in RLFile : rl[j] = print[gen]
  BY <1>1 DEF FreshInv, Undisturbed, PrintTells, AsPrinted
<1>5. gen \notin disturbed => madeFrom[gen] = {print[gen]}
  BY <1>1, <1>2 DEF FreshInv, MarkersTell, Preparing, Tells
<1>6. QED
  BY <1>1, <1>2, <1>3, <1>4, <1>5 DEF SteadyBuildIsFresh

\* So is one that reuses what it found.
LEMMA ReuseIsFresh ==
    ASSUME FreshInv, Prepares, pc' = "idle"
    PROVE  SteadyBuildIsFresh'
<1> USE SizeFacts DEF FreshInv, DiskInv
<1>1. /\ HashFile \/ Check
      /\ Accepts(final[Marker], print[gen]) /\ print' = print
      /\ UNCHANGED <<rl, disturbed, final, gen, edited>>
  BY PreparesFacts DEF Prepares, Recheck, Read, Preparing
<1>2. madeFrom' = madeFrom
  BY <1>1 DEF HashFile, Check, record
<1>3. /\ final[Marker] \in Generation /\ final[Marker] # Absent
      /\ print[final[Marker]] = print[gen]
      /\ \A i \in File : final[i] = final[Marker]
  BY <1>1 DEF Accepts, TypeOK, Ordered
<1>4. ASSUME ~edited PROVE \A j \in RLFile : rl[j] = print[gen]
  <2>1. gen \notin disturbed /\ Hashed(Reads)
    <3>1. gen \notin disturbed
      BY <1>1, <1>4 DEF Undisturbed, HashFile, Check
    <3>2. CASE Check
      BY <3>1, <3>2 DEF Check, PrintTells
    <3>3. CASE HashFile
      <4>1. k = Reads
        BY <3>3, PreparesFacts DEF HashFile, Goto, Prepares
      <4>2. k \in Nat /\ Hashed(k - 1)
        BY <3>1, <3>3, <4>1 DEF HashFile, PrintTells
      <4>3. Hashed(Reads)'
        BY <3>3, <4>1, <4>2, PrintHashes
      <4>4. builder' = builder
        BY <3>3 DEF HashFile
      <4>5. QED
        BY <1>1, <3>1, <4>3, <4>4 DEF Hashed
    <3>4. QED
      BY <1>1, <3>2, <3>3
  <2>2. RLWhole \/ builder = "index"
    BY <1>1 DEF Check, HashFile, Goto
  <2>3. QED
    BY <2>1, <2>2, WholeAsPrinted DEF AsPrinted
<1>5. final[Marker] \notin disturbed =>
        madeFrom[final[Marker]] = {print[final[Marker]]}
  BY <1>3 DEF MarkersTell, Tells
<1>6. QED
  BY <1>1, <1>2, <1>3, <1>4, <1>5 DEF SteadyBuildIsFresh

LEMMA FreshStep == FreshInv /\ [Next]_vars => SteadyBuildIsFresh'
<1> SUFFICES ASSUME FreshInv, [Next]_vars PROVE SteadyBuildIsFresh'
  OBVIOUS
<1> USE SizeFacts
<1>1. CASE Begin
  <2>1. pc' # "idle" \/ outcome' = "failed"
    BY <1>1 DEF Begin, Leave, Goto
  <2>2. QED
    BY <2>1 DEF SteadyBuildIsFresh
<1>2. CASE Prepares
  BY <1>2, ReuseIsFresh DEF SteadyBuildIsFresh
<1>3. CASE (PublishOne /\ pc' = "idle") \/ MarkPublished
  BY <1>3, CommitIsFresh
<1>4. CASE Publishes /\ ~(PublishOne /\ pc' = "idle") /\ ~MarkPublished
  <2>1. pc' # "idle" \/ outcome' \notin {"built", "reused"}
    BY <1>4
    DEF Publishes, BackupOne, PublishOne, RenameRaises, Rollback, UnpublishOne,
        RestoreOne, RollbackRaises, MarkRaises, LeaveClean, Leave, Goto
  <2>2. QED
    BY <2>1 DEF SteadyBuildIsFresh
<1>5. CASE Leaves
  BY <1>5, LeavesFacts DEF FreshInv, DiskInv, SteadyBuildIsFresh
<1>6. CASE \E j \in RLFile : Move(j)
  BY <1>6, MoveFacts DEF FreshInv, DiskInv, SteadyBuildIsFresh
<1>7. CASE UNCHANGED vars
  BY <1>7 DEF vars, source, disk, record, control, history, FreshInv, SteadyBuildIsFresh
<1>8. QED
  BY <1>1, <1>2, <1>3, <1>4, <1>5, <1>6, <1>7 DEF Next, Prepares, Fails, Publishes, Leaves

\* data/build_index.py:776-854, data/build_sft.py:2219-2259 and 2883-2947: a
\* build that returns while nobody moved a file of the RL generation has found
\* it whole and leaves outputs of one build under its fingerprint, whatever the
\* builds, failures, kills and moves before it left on disk.  They were made
\* from this RL generation alone, unless a file of the RL generation was moved
\* away while they were made: then they may be of another generation, which a
\* rollback took away again.
THEOREM SteadyBuildsAreFresh == Spec => []SteadyBuildIsFresh
<1>1. FreshInv /\ [Next]_vars => FreshInv'
  BY DiskStep, NewBuildsStep, UndisturbedStep, PrintTellsStep, ReadTellsStep,
     MarkersTellStep, FreshStep
  DEF FreshInv, DiskInv
<1>2. FreshInv => SteadyBuildIsFresh
  BY DEF FreshInv
<1>3. QED
  BY FreshInit, <1>1, <1>2, PTL DEF Spec

=============================================================================

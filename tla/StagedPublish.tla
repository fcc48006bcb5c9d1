---------------------------- MODULE StagedPublish ----------------------------
(***************************************************************************)
(* The last two builders of the data pipeline: data/build_index.py and     *)
(* data/build_sft.py, from the fingerprint of their input to the reuse of  *)
(* what they published.                                                    *)
(*                                                                         *)
(* Both fingerprint the published RL generation file by file, reuse their  *)
(* outputs if a marker accepts them under this fingerprint, read its files *)
(* again, one after another, while data/build_rl.py may be moving them,    *)
(* stage new outputs, and publish them: move the outputs of the previous   *)
(* generation into a backup directory, rename the staged ones, and on an   *)
(* exception remove what was published and restore what was moved.  Unlike *)
(* ArtifactPublish, an error in the rollback ends it, and the backup       *)
(* directory is removed on every way out that runs a "finally".            *)
(*                                                                         *)
(* They differ in the marker: the index builder publishes it as the last   *)
(* file of the batch, the SFT builder writes it after the publication.     *)
(*                                                                         *)
(* A file is the number of the build that made it; outputs are 1..N, and   *)
(* the marker is file N + 1: the marker of generation g has g's            *)
(* fingerprint and the hashes of g's outputs.  A file of the RL generation *)
(* is the number of the generation it belongs to: files are compared by    *)
(* their hashes, and data/build_rl.py may put an earlier generation back.  *)
(***************************************************************************)
EXTENDS Integers

CONSTANTS
    N,          \* outputs of a generation
    Reads,      \* files of the RL generation a build reads, its manifest aside
    Sources,    \* RL generations there may be
    MaxBuilds, MaxFaults, MaxStops, MaxMoves    \* bounds

ASSUME SizeAssumption ==
    N \in Nat \ {0} /\ Reads \in Nat \ {0} /\ Sources \in Nat \ {0}
ASSUME BoundsAssumption ==
    /\ MaxBuilds \in Nat /\ MaxFaults \in Nat
    /\ MaxStops \in Nat /\ MaxMoves \in Nat

Output == 1..N
Marker == N + 1
File == 1..Marker
Generation == 1..MaxBuilds
Absent == 0
Torn == -1      \* a directory that was removed in part
Source == 1..Sources
RLManifest == Reads + 1     \* build_manifest.json, beside the files 1..Reads
RLFile == 1..RLManifest
Mixed == -1     \* the fingerprint of files of two RL generations

VARIABLES
    builder,    \* which of the two programs this is
    rl,         \* the file at every path of the RL generation
    final,      \* the file at every final path
    held,       \* the backup directory of this build
    orphans,    \* generations in backup directories that were left behind
    print,      \* the RL generation that build g fingerprinted
    madeFrom,   \* the RL generations that build g read
    gen,        \* the current, or last, build
    pc, k,      \* the loop it is in, and the position in the loop
    outcome,    \* how the last build ended
    edited,     \* history: a file of the RL generation was moved since the
                \* build began
    disturbed,  \* history: the builds under which one was moved away
    before,     \* history: final when the build began
    committed,  \* history: the last generation a marker accepted
    damaged,    \* history: a rollback was cut short
    faults, stops, moves    \* bounds

source == <<rl, disturbed, moves>>
disk == <<final, held, orphans>>
record == <<print, madeFrom>>
control == <<gen, pc, k, outcome>>
history == <<edited, before, committed, damaged>>
vars == <<builder, source, disk, record, control, history, faults, stops>>

NoFiles == [i \in File |-> Absent]

Init ==
    /\ builder \in {"index", "sft"}
    /\ rl = [j \in RLFile |-> 1]
    /\ final = NoFiles
    /\ held = NoFiles
    /\ orphans = [i \in File |-> {}]
    /\ print = [g \in Generation |-> Absent]
    /\ madeFrom = [g \in Generation |-> {}]
    /\ gen = 0
    /\ pc = "idle"
    /\ k = 1
    /\ outcome = "none"
    /\ edited = FALSE
    /\ disturbed = {}
    /\ before = NoFiles
    /\ committed = Absent
    /\ damaged = FALSE
    /\ faults = 0
    /\ stops = 0
    /\ moves = 0

Last == IF builder = "index" THEN Marker ELSE N     \* of the batch

Goto(label, position) == pc' = label /\ k' = position

Raises == faults < MaxFaults /\ faults' = faults + 1

Stops == stops < MaxStops /\ stops' = stops + 1

Leave(how) ==
    /\ Goto("idle", 1)
    /\ outcome' = how

\* A "finally" on the way out removes the backup directory.
LeaveClean(how) ==
    /\ Leave(how)
    /\ held' = NoFiles
    /\ UNCHANGED orphans

-----------------------------------------------------------------------------
(* Before the publication.                                                 *)

Preparing == {"print", "check", "recheck", "read"}

\* The mutant compares the fingerprint only.
FingerprintMatches(g, p) == g # Absent /\ print[g] = p

\* _reuse_status and _sft_cache_reusable: the marker has the fingerprint p
\* and the hash of every output.
Accepts(g, p) ==
    /\ g # Absent
    /\ print[g] = p
    /\ \A i \in Output : final[i] = g

\* The build reads the manifest of the RL generation first; the SFT builder
\* hashes it after the other files.
Begin ==
    /\ pc = "idle"
    /\ gen < MaxBuilds
    /\ gen' = gen + 1
    /\ before' = final
    /\ edited' = FALSE
    /\ IF rl[RLManifest] = Absent
       THEN Leave("failed") /\ UNCHANGED print
       ELSE /\ Goto("print", 1)
            /\ outcome' = "none"
            /\ print' = [print EXCEPT ![gen + 1] = rl[RLManifest]]
    /\ UNCHANGED <<builder, source, disk, madeFrom, committed, damaged,
                   faults, stops>>

\* Reuse, or, without such a marker and with --force, go on: the index builder
\* reads the corpora, the SFT builder validates once more.
Decide ==
    \/ /\ Accepts(final[Marker], print[gen])
       /\ Leave("reused")
    \/ /\ Goto(IF builder = "index" THEN "read" ELSE "recheck", 1)
       /\ UNCHANGED outcome

\* One file after another is hashed.  The index builder compares each with the
\* manifest at once; the SFT builder compares them later, so that its
\* fingerprint may be of two generations.
HashFile ==
    /\ pc = "print"
    /\ rl[k] # Absent
    /\ \/ /\ rl[k] = print[gen]
          /\ UNCHANGED print
       \/ /\ rl[k] # print[gen]
          /\ builder = "sft"
          /\ print' = [print EXCEPT ![gen] = Mixed]
    /\ IF k < Reads THEN Goto("print", k + 1) /\ UNCHANGED outcome
       ELSE IF builder = "index" THEN Decide
       ELSE Goto("check", 1) /\ UNCHANGED outcome
    /\ UNCHANGED <<builder, source, disk, madeFrom, gen, history, faults,
                   stops>>

\* All files are there and of the generation of the manifest.
RLWhole == \E v \in Source : \A j \in RLFile : rl[j] = v

\* _validate_rl_artifact_generation, at once: in the fingerprint of the SFT
\* builder, and again when it starts to build.
Check ==
    /\ pc = "check"
    /\ RLWhole
    /\ Decide
    /\ UNCHANGED <<builder, source, disk, record, gen, history, faults, stops>>

Recheck ==
    /\ pc = "recheck"
    /\ RLWhole
    /\ madeFrom' = [madeFrom EXCEPT ![gen] = {rl[RLManifest]}]
    /\ Goto("read", 1)
    /\ UNCHANGED <<builder, source, disk, print, gen, outcome, history,
                   faults, stops>>

\* The corpora and the training rows are read by path, one after another.
Read ==
    /\ pc = "read"
    /\ rl[k] # Absent
    /\ madeFrom' = [madeFrom EXCEPT ![gen] = @ \union {rl[k]}]
    /\ IF k = Reads THEN Goto("backup", 1) ELSE Goto("read", k + 1)
    /\ UNCHANGED <<builder, source, disk, print, gen, outcome, history,
                   faults, stops>>

\* A file is missing, or not of the generation of the manifest.
Refused ==
    \/ pc \in {"print", "read"} /\ rl[k] = Absent
    \/ pc = "print" /\ builder = "index" /\ rl[k] # print[gen]
    \/ pc \in {"check", "recheck"} /\ ~RLWhole

Refuse ==
    /\ Refused
    /\ LeaveClean("failed")
    /\ UNCHANGED <<builder, source, final, record, gen, history, faults, stops>>

\* Reading, building or staging raises: nothing is published.
ReadRaises ==
    /\ pc \in Preparing
    /\ Raises
    /\ LeaveClean("failed")
    /\ UNCHANGED <<builder, source, final, record, gen, history, stops>>

-----------------------------------------------------------------------------
(* _publish_generation and _publish_staged_files.                          *)

\* The mutant moves the marker aside only.
BackupMarkerOnly ==
    /\ pc = "backup"
    /\ held' = [held EXCEPT ![Marker] = final[Marker]]
    /\ final' = [final EXCEPT ![Marker] = Absent]
    /\ Goto("publish", 1)
    /\ UNCHANGED <<builder, source, orphans, record, gen, outcome, history,
                   faults, stops>>

\* Whatever is at a final path is moved aside, if anything is.
BackupOne ==
    /\ pc = "backup"
    /\ held' = [held EXCEPT ![k] = final[k]]
    /\ final' = [final EXCEPT ![k] = Absent]
    /\ IF k = Last THEN Goto("publish", 1) ELSE Goto("backup", k + 1)
    /\ UNCHANGED <<builder, source, orphans, record, gen, outcome, history,
                   faults, stops>>

\* After the last file: the index builder is done, its marker was the last.
Published ==
    IF builder = "index"
    THEN /\ LeaveClean("built")
         /\ committed' = gen
    ELSE /\ Goto("mark", 1)
         /\ held' = NoFiles
         /\ UNCHANGED <<orphans, outcome, committed>>

\* The mutant leaves the last file of the batch out.
PublishShort ==
    /\ pc = "publish"
    /\ final' = [final EXCEPT ![k] = gen]
    /\ IF k >= Last - 1
       THEN Published
       ELSE /\ Goto("publish", k + 1)
            /\ UNCHANGED <<held, orphans, outcome, committed>>
    /\ UNCHANGED <<builder, source, record, gen, edited, before, damaged,
                   faults, stops>>

\* A staged file takes its final path.
PublishOne ==
    /\ pc = "publish"
    /\ final' = [final EXCEPT ![k] = gen]
    /\ IF k = Last
       THEN Published
       ELSE /\ Goto("publish", k + 1)
            /\ UNCHANGED <<held, orphans, outcome, committed>>
    /\ UNCHANGED <<builder, source, record, gen, edited, before, damaged,
                   faults, stops>>

\* The mutant skips the removal of what was published.
RollbackRestore(count) == Goto("restore", Last)

\* First what was published is removed, then the backups are restored.
Rollback(count) ==
    IF count = 0 THEN Goto("restore", Last) ELSE Goto("unpublish", count)

RenameRaises ==
    /\ pc \in {"backup", "publish"}
    /\ Raises
    /\ Rollback(IF pc = "publish" THEN k - 1 ELSE 0)
    /\ UNCHANGED <<builder, source, disk, record, gen, outcome, history,
                   stops>>

\* A published file or directory is removed.
UnpublishOne ==
    /\ pc = "unpublish"
    /\ final' = [final EXCEPT ![k] = Absent]
    /\ IF k = 1 THEN Goto("restore", Last) ELSE Goto("unpublish", k - 1)
    /\ UNCHANGED <<builder, source, held, orphans, record, gen, outcome,
                   history, faults, stops>>

\* os.replace(backup, final), if there is a backup.
RestoreOne ==
    /\ pc = "restore"
    /\ final' = IF held[k] = Absent THEN final
                ELSE [final EXCEPT ![k] = held[k]]
    /\ IF k = 1
       THEN LeaveClean("failed")
       ELSE /\ Goto("restore", k - 1)
            /\ held' = [held EXCEPT ![k] = Absent]
            /\ UNCHANGED <<orphans, outcome>>
    /\ UNCHANGED <<builder, source, record, gen, history, faults, stops>>

\* The rollback raises, at a file or in a directory: it ends there.
RollbackRaises ==
    /\ pc \in {"unpublish", "restore"}
    /\ Raises
    /\ damaged' = TRUE
    /\ \/ UNCHANGED final
       \/ /\ pc = "unpublish"
          /\ builder = "index"
          /\ final' = [final EXCEPT ![k] = Torn]
    /\ LeaveClean("damaged")
    /\ UNCHANGED <<builder, source, record, gen, edited, before, committed,
                   stops>>

\* _write_sft_cache_marker.
MarkPublished ==
    /\ pc = "mark"
    /\ final' = [final EXCEPT ![Marker] = gen]
    /\ committed' = gen
    /\ LeaveClean("built")
    /\ UNCHANGED <<builder, source, record, gen, edited, before, damaged,
                   faults, stops>>

\* It raises: the new outputs stay beside the marker of the old ones.
MarkRaises ==
    /\ pc = "mark"
    /\ Raises
    /\ LeaveClean("unmarked")
    /\ UNCHANGED <<builder, source, final, record, gen, history, stops>>

\* KeyboardInterrupt is not an Exception: no rollback, but every "finally".
Interrupt ==
    /\ pc # "idle"
    /\ Stops
    /\ damaged' = (damaged \/ pc \in {"backup", "publish", "unpublish",
                                      "restore"})
    /\ LeaveClean("interrupted")
    /\ UNCHANGED <<builder, source, final, record, gen, edited, before,
                   committed, faults>>

\* The process is killed: nothing runs, and the backup directory stays.
Crash ==
    /\ pc # "idle"
    /\ Stops
    /\ orphans' = [i \in File |-> orphans[i] \union ({held[i]} \ {Absent})]
    /\ held' = NoFiles
    /\ Leave("crashed")
    /\ UNCHANGED <<builder, source, final, record, gen, history, faults>>

\* data/build_rl.py publishes: it moves the files of the previous generation
\* aside one by one and renames new ones into their places, and it removes
\* these and moves the old ones back when a rename fails; it may die in
\* between (ArtifactPublish).
Move(j) ==
    /\ moves < MaxMoves
    /\ moves' = moves + 1
    /\ \E v \in IF rl[j] = Absent THEN Source ELSE {Absent} :
        rl' = [rl EXCEPT ![j] = v]
    /\ edited' = TRUE
    /\ disturbed' = IF pc # "idle" /\ rl[j] # Absent
                    THEN disturbed \union {gen} ELSE disturbed
    /\ UNCHANGED <<builder, disk, record, control, before, committed,
                   damaged, faults, stops>>

Next ==
    \/ Begin
    \/ HashFile
    \/ Check
    \/ Recheck
    \/ Read
    \/ Refuse
    \/ ReadRaises
    \/ BackupOne
    \/ PublishOne
    \/ RenameRaises
    \/ UnpublishOne
    \/ RestoreOne
    \/ RollbackRaises
    \/ MarkPublished
    \/ MarkRaises
    \/ Interrupt
    \/ Crash
    \/ \E j \in RLFile : Move(j)

Spec == Init /\ [][Next]_vars

-----------------------------------------------------------------------------
(* Properties.                                                             *)

\* The type of the state.
TypeOK ==
    /\ builder \in {"index", "sft"}
    /\ rl \in [RLFile -> Source \union {Absent}]
    /\ final \in [File -> Generation \union {Absent, Torn}]
    /\ held \in [File -> Generation \union {Absent, Torn}]
    /\ orphans \in [File -> SUBSET (Generation \union {Torn})]
    /\ print \in [Generation -> Source \union {Absent, Mixed}]
    /\ madeFrom \in [Generation -> SUBSET Source]
    /\ gen \in 0..MaxBuilds
    /\ pc \in {"idle", "print", "check", "recheck", "read", "backup",
               "publish", "unpublish", "restore", "mark"}
    /\ k \in File \union 1..Reads
    /\ outcome \in {"none", "reused", "built", "failed", "damaged",
                    "unmarked", "interrupted", "crashed"}
    /\ edited \in BOOLEAN /\ damaged \in BOOLEAN
    /\ disturbed \subseteq Generation
    /\ before \in [File -> Generation \union {Absent, Torn}]
    /\ committed \in 0..MaxBuilds
    /\ faults \in 0..MaxFaults /\ stops \in 0..MaxStops /\ moves \in 0..MaxMoves

Vouched == Accepts(final[Marker], print[final[Marker]])

\* A build that returns while nobody moved a file of the RL generation has
\* found it whole, and leaves outputs of one build under its fingerprint, with
\* a marker that the next build will accept, whatever the builds before it
\* left.  These outputs were made from this RL generation only, unless a file
\* of it was moved away while they were made: then they may be of another,
\* whose publication was rolled back since, and no marker tells.
SteadyBuildIsFresh ==
    outcome \in {"built", "reused"} /\ pc = "idle" /\ ~edited =>
        \E g \in Generation :
            /\ \A i \in File : final[i] = g
            /\ \A j \in RLFile : rl[j] = print[g]
            /\ g \notin disturbed => madeFrom[g] = {print[g]}

\* A build that fails with its rollback complete has put back exactly the
\* files it found.
FailureRestores == outcome = "failed" => final = before

OnDisk(i, g) == final[i] = g \/ held[i] = g \/ g \in orphans[i]

\* The outputs that the last accepted marker vouches for are on disk until
\* the outputs of a newer build replaced them all: only an error in the
\* rollback, or an interrupt in the publication, can lose one.
CommittedSurvives ==
    committed # Absent /\ ~damaged =>
        \/ \A i \in Output : OnDisk(i, committed)
        \/ \E g \in Generation :
            g > committed /\ \A i \in Output : OnDisk(i, g)

Visible == IF final[Marker] # Absent /\ Vouched THEN final[Marker] ELSE Absent

Consumers == INSTANCE VouchedGeneration
                 WITH visible <- Visible, last <- committed

\* A consumer who looks only at accepted outputs sees whole generations in
\* the order they were published: an older one never comes back after a
\* newer one, in spite of rollbacks, crashes and leftover markers.
ConsumersSeeWhole == Consumers!Spec

=============================================================================

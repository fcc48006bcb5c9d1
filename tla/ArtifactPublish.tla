-------------------------- MODULE ArtifactPublish --------------------------
(***************************************************************************)
(* Publication of one generation of related files by data/build_rl.py.     *)
(*                                                                         *)
(* _ep_publish_artifact_set moves the files of the previous generation     *)
(* aside, renames every staged file to its final name, and, when a rename  *)
(* raises, removes what it published and restores what it moved aside.     *)
(* Every file operation is a step: it may raise, and the process may die   *)
(* before it.  The same directory is published to again and again, a       *)
(* build that failed or died being run again by its user.                  *)
(*                                                                         *)
(* A file is the number of the generation it belongs to.  Artifact N, the  *)
(* last key of both path tables, is the manifest that marks a generation   *)
(* as complete.                                                            *)
(***************************************************************************)
EXTENDS Integers

CONSTANTS
    N,              \* number of artifacts; the manifest is artifact N
    MaxGenerations, \* bound: calls of _ep_publish_artifact_set
    MaxFaults,      \* bound: file operations that raise
    MaxCrashes      \* bound: deaths of the publishing process

ASSUME SizeAssumption == N \in Nat \ {0}
ASSUME BoundsAssumption ==
    MaxGenerations \in Nat /\ MaxFaults \in Nat /\ MaxCrashes \in Nat

Artifact == 1..N
Generation == 1..MaxGenerations
Absent == 0
Content == 0..MaxGenerations

VARIABLES
    final,      \* content at each final path
    held,       \* backups this call may restore ("backups" in the code)
    orphans,    \* generations left under .backup names by earlier calls
    gen,        \* the generation of the current, or of the last, call
    pc,         \* the loop the call is in; "idle" between calls
    k,          \* the artifact the loop is at
    errors,     \* rollback_errors is not empty
    outcome,    \* how the last call ended
    faults,     \* file operations that raised so far
    crashes,    \* deaths so far
    before,     \* history: final when the current call began
    committed,  \* history: the last generation published completely
    damaged     \* history: some rollback was incomplete

call == <<gen, pc, k, errors, outcome>>
history == <<before, committed, damaged>>
vars == <<final, held, orphans, call, faults, crashes, history>>

NoFiles == [i \in Artifact |-> Absent]

Init ==
    /\ final = NoFiles
    /\ held = NoFiles
    /\ orphans = [i \in Artifact |-> {}]
    /\ gen = 0
    /\ pc = "idle"
    /\ k = 1
    /\ errors = FALSE
    /\ outcome = "none"
    /\ faults = 0
    /\ crashes = 0
    /\ before = NoFiles
    /\ committed = Absent
    /\ damaged = FALSE

-----------------------------------------------------------------------------
(* Steps of the call.                                                      *)

\* The mutant throws the remaining backups away, as a "finally" that
\* removes a backup directory would.
LeaveWithoutBackups(o, stillHeld) ==
    /\ pc' = "idle"
    /\ k' = 1
    /\ outcome' = o
    /\ held' = NoFiles
    /\ UNCHANGED orphans

\* The call leaves with outcome o; the backups it still holds stay on disk
\* under names that no later call knows.
Leave(o, stillHeld) ==
    /\ pc' = "idle"
    /\ k' = 1
    /\ outcome' = o
    /\ orphans' = [i \in Artifact |->
                      orphans[i] \union ({stillHeld[i]} \ {Absent})]
    /\ held' = NoFiles

Goto(label, position) == pc' = label /\ k' = position

Raises == faults < MaxFaults /\ faults' = faults + 1

\* A complete set of staged files is there and the call begins.
Begin ==
    /\ pc = "idle"
    /\ gen < MaxGenerations
    /\ gen' = gen + 1
    /\ Goto("backup", 1)
    /\ errors' = FALSE
    /\ outcome' = "none"
    /\ before' = final
    /\ UNCHANGED <<final, held, orphans, faults, crashes, committed, damaged>>

\* The mutant moves only the manifest aside and replaces the rest in place.
BackupManifestOnly ==
    /\ pc = "backup"
    /\ held' = [held EXCEPT ![N] = final[N]]
    /\ final' = [final EXCEPT ![N] = Absent]
    /\ Goto("publish", 1)
    /\ UNCHANGED <<orphans, gen, errors, outcome, faults, crashes, history>>

\* os.replace(final, backup), or nothing when there is no file to move.
BackupOne ==
    /\ pc = "backup"
    /\ held' = [held EXCEPT ![k] = final[k]]
    /\ final' = [final EXCEPT ![k] = Absent]
    /\ IF k = N THEN Goto("publish", 1) ELSE Goto("backup", k + 1)
    /\ UNCHANGED <<orphans, gen, errors, outcome, faults, crashes, history>>

\* The mutant publishes the manifest first.
PublishManifestFirst ==
    /\ pc = "publish"
    /\ final' = [final EXCEPT ![IF k = 1 THEN N ELSE k - 1] = gen]
    /\ IF k = N
       THEN Goto("discard", 1) /\ committed' = gen
       ELSE Goto("publish", k + 1) /\ UNCHANGED committed
    /\ UNCHANGED <<held, orphans, gen, errors, outcome, faults, crashes,
                   before, damaged>>

\* os.replace(staged, final).
PublishOne ==
    /\ pc = "publish"
    /\ final' = [final EXCEPT ![k] = gen]
    /\ IF k = N
       THEN Goto("discard", 1) /\ committed' = gen
       ELSE Goto("publish", k + 1) /\ UNCHANGED committed
    /\ UNCHANGED <<held, orphans, gen, errors, outcome, faults, crashes,
                   before, damaged>>

\* The mutant rolls back one artifact too few.
RollbackShort(count) ==
    IF count <= 1 THEN Goto("restore", N) ELSE Goto("unpublish", count - 1)

\* The rollback begins at the last published artifact, if there is one.
Rollback(count) ==
    IF count = 0 THEN Goto("restore", N) ELSE Goto("unpublish", count)

\* A rename of either loop raises; the exception handler takes over.
RenameRaises ==
    /\ pc \in {"backup", "publish"}
    /\ Raises
    /\ Rollback(IF pc = "publish" THEN k - 1 ELSE 0)
    /\ UNCHANGED <<final, held, orphans, gen, errors, outcome, crashes,
                   history>>

\* final_paths[name].unlink(missing_ok=True), newest first.  An error is
\* recorded and the rollback goes on.
UnpublishOne ==
    /\ pc = "unpublish"
    /\ \/ /\ final' = [final EXCEPT ![k] = Absent]
          /\ UNCHANGED <<errors, damaged, faults>>
       \/ /\ Raises
          /\ errors' = TRUE
          /\ damaged' = TRUE
          /\ UNCHANGED final
    /\ IF k = 1 THEN Goto("restore", N) ELSE Goto("unpublish", k - 1)
    /\ UNCHANGED <<held, orphans, gen, outcome, crashes, before, committed>>

\* After the last backup the handler raises RuntimeError when an error was
\* recorded, and the original exception otherwise.
RestoreNext(stillHeld, failed) ==
    /\ errors' = (errors \/ failed)
    /\ damaged' = (damaged \/ failed)
    /\ IF k = 1
       THEN Leave(IF errors \/ failed THEN "incomplete" ELSE "failed",
                  stillHeld)
       ELSE /\ Goto("restore", k - 1)
            /\ held' = stillHeld
            /\ UNCHANGED <<orphans, outcome>>

\* os.replace(backup, final), the manifest's first; an error is recorded and
\* the rollback goes on.
RestoreOne ==
    /\ pc = "restore"
    /\ \/ /\ held[k] = Absent
          /\ RestoreNext(held, FALSE)
          /\ UNCHANGED <<final, faults>>
       \/ /\ held[k] # Absent
          /\ final' = [final EXCEPT ![k] = held[k]]
          /\ RestoreNext([held EXCEPT ![k] = Absent], FALSE)
          /\ UNCHANGED faults
       \/ /\ held[k] # Absent
          /\ Raises
          /\ RestoreNext(held, TRUE)
          /\ UNCHANGED final
    /\ UNCHANGED <<gen, crashes, before, committed>>

\* backup.unlink(missing_ok=True).  This loop is outside the handler: an
\* error leaves the call although the new generation is in place.
DiscardOne ==
    /\ pc = "discard"
    /\ IF k = N
       THEN Leave("returned", [held EXCEPT ![k] = Absent])
       ELSE /\ Goto("discard", k + 1)
            /\ held' = [held EXCEPT ![k] = Absent]
            /\ UNCHANGED <<orphans, outcome>>
    /\ UNCHANGED <<final, gen, errors, faults, crashes, history>>

DiscardRaises ==
    /\ pc = "discard"
    /\ held[k] # Absent
    /\ Raises
    /\ Leave("undiscarded", held)
    /\ UNCHANGED <<final, gen, errors, crashes, history>>

\* The process is killed, or receives an exception that is not an Exception
\* (KeyboardInterrupt): no handler runs and every backup stays where it is.
Crash ==
    /\ pc # "idle"
    /\ crashes < MaxCrashes
    /\ crashes' = crashes + 1
    /\ Leave("crashed", held)
    /\ UNCHANGED <<final, gen, errors, faults, history>>

Next ==
    \/ Begin
    \/ BackupOne
    \/ PublishOne
    \/ RenameRaises
    \/ UnpublishOne
    \/ RestoreOne
    \/ DiscardOne
    \/ DiscardRaises
    \/ Crash

Spec == Init /\ [][Next]_vars

-----------------------------------------------------------------------------
(* Properties.                                                             *)

\* The type of the state.
TypeOK ==
    /\ final \in [Artifact -> Content]
    /\ held \in [Artifact -> Content]
    /\ orphans \in [Artifact -> SUBSET Generation]
    /\ gen \in Content
    /\ pc \in {"idle", "backup", "publish", "discard", "unpublish", "restore"}
    /\ k \in Artifact
    /\ errors \in BOOLEAN
    /\ outcome \in {"none", "returned", "failed", "incomplete",
                    "undiscarded", "crashed"}
    /\ faults \in 0..MaxFaults
    /\ crashes \in 0..MaxCrashes
    /\ before \in [Artifact -> Content]
    /\ committed \in Content
    /\ damaged \in BOOLEAN

Complete(g) == \A i \in Artifact : final[i] = g

\* The manifest of a new generation is never visible before the whole
\* generation is: the publication order, through failures, rollbacks and
\* deaths of this call and of earlier ones.
NewMarkerIsComplete ==
    gen # Absent /\ final[N] = gen => Complete(gen)

\* Final paths never show files of two generations, whatever failed and
\* wherever the process died, as long as no rollback reported an error.
NeverMixed ==
    ~damaged =>
        \A i, j \in Artifact :
            final[i] # Absent /\ final[j] # Absent => final[i] = final[j]

OnDisk(i, g) == final[i] = g \/ held[i] = g \/ g \in orphans[i]

\* Each file of the last generation published completely is on disk, at its
\* final path or as a backup, until a newer generation replaced all of it:
\* neither errors in the rollback nor crashes lose data.
CommittedSurvives ==
    committed # Absent => \A i \in Artifact : OnDisk(i, committed)

\* The original exception means that the files are as they were.
FailureRestores == outcome = "failed" => final = before

\* A return means that the whole generation is published.
ReturnMeansPublished ==
    outcome \in {"returned", "undiscarded"} =>
        Complete(gen) /\ committed = gen

\* How the call ends tells its caller what is on disk: a call that raises the
\* original exception has put back exactly the files it found, and one that
\* returns, or raises only because a backup would not go away, has published
\* its whole generation.
OutcomeIsTrue == FailureRestores /\ ReturnMeansPublished

=============================================================================

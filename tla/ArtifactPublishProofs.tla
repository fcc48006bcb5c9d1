----------------------- MODULE ArtifactPublishProofs -----------------------
(***************************************************************************)
(* Proofs about ArtifactPublish, for any number of artifacts, generations, *)
(* faults and crashes.                                                     *)
(***************************************************************************)
EXTENDS ArtifactPublish, TLAPS

Uniform(f) ==
    \A i, j \in Artifact : f[i] # Absent /\ f[j] # Absent => f[i] = f[j]

-----------------------------------------------------------------------------
(* The inductive invariant: what final, held and before hold at every      *)
(* position of every loop.                                                 *)

\* The generation being published is newer than anything on disk.
Newest ==
    /\ committed <= gen
    /\ \A i \in Artifact : final[i] <= gen
    /\ pc # "idle" => /\ gen \in Generation
                      /\ outcome = "none"
                      /\ \A i \in Artifact : before[i] < gen
    /\ pc \notin {"idle", "discard"} => committed < gen

IdlePhase == pc = "idle" => held = NoFiles

BackupPhase ==
    pc = "backup" =>
        \A i \in Artifact :
            /\ i < k => final[i] = Absent /\ held[i] = before[i]
            /\ i >= k => final[i] = before[i] /\ held[i] = Absent

PublishPhase ==
    pc = "publish" =>
        \A i \in Artifact :
            /\ held[i] = before[i]
            /\ i < k => final[i] = gen
            /\ i >= k => final[i] = Absent

DiscardPhase == pc = "discard" => Complete(gen) /\ committed = gen

UnpublishPhase ==
    pc = "unpublish" =>
        /\ k < N
        /\ final[N] = Absent
        /\ \A i \in Artifact :
            /\ held[i] = before[i]
            /\ final[i] \in {Absent, gen}
            /\ i > k => final[i] = Absent \/ errors

RestorePhase ==
    pc = "restore" =>
        /\ final[N] # gen
        /\ \A i \in Artifact :
            /\ \/ held[i] = before[i] /\ final[i] = Absent
               \/ held[i] = before[i] /\ final[i] = gen /\ errors
               \/ held[i] = Absent /\ final[i] = before[i]
            /\ i > k => final[i] = before[i] \/ errors

\* Mixed content needs an incomplete rollback, now or earlier.
Damage ==
    /\ errors => damaged
    /\ pc # "idle" /\ ~damaged => Uniform(before)

IInv ==
    /\ TypeOK
    /\ Newest
    /\ IdlePhase
    /\ BackupPhase
    /\ PublishPhase
    /\ DiscardPhase
    /\ UnpublishPhase
    /\ RestorePhase
    /\ Damage
    /\ NewMarkerIsComplete
    /\ NeverMixed
    /\ CommittedSurvives
    /\ FailureRestores
    /\ ReturnMeansPublished

\* Backups that stay behind are of known generations.
LEMMA LeftBehind ==
    ASSUME NEW o \in [Artifact -> SUBSET Generation],
           NEW h \in [Artifact -> Content]
    PROVE  [i \in Artifact |-> o[i] \union ({h[i]} \ {Absent})]
                \in [Artifact -> SUBSET Generation]
<1> SUFFICES ASSUME NEW i \in Artifact
             PROVE  o[i] \union ({h[i]} \ {Absent}) \subseteq Generation
    OBVIOUS
<1>1. h[i] \in Content /\ o[i] \subseteq Generation
    OBVIOUS
<1> QED
    BY <1>1, BoundsAssumption DEF Content, Generation, Absent

\* A call begins: before records what is on disk.
LEMMA BeginKeeps == IInv /\ Begin => IInv'
<1> SUFFICES ASSUME IInv, Begin PROVE IInv'
    OBVIOUS
<1> USE SizeAssumption, BoundsAssumption
        DEF Artifact, Generation, Content, Absent, NoFiles, call, history
<1>1. TypeOK'
  <2>1. /\ final' \in [Artifact -> Content]
        /\ held' \in [Artifact -> Content]
        /\ before' \in [Artifact -> Content]
    BY DEF IInv, TypeOK, Begin
  <2>2. orphans' \in [Artifact -> SUBSET Generation]
    BY DEF IInv, TypeOK, Begin
  <2>3. k' \in Artifact /\ gen' \in Content /\ committed' \in Content
    BY DEF IInv, TypeOK, Begin, Goto
  <2> QED
    BY <2>1, <2>2, <2>3 DEF IInv, TypeOK, Begin, Goto
<1>2. Newest'
    BY DEF IInv, TypeOK, Begin, Newest
<1>3. IdlePhase'
    BY DEF IInv, Begin, IdlePhase
<1>4. BackupPhase'
    BY DEF IInv, Begin, Goto, IdlePhase, BackupPhase
<1>5. PublishPhase'
    BY DEF IInv, Begin, Goto, PublishPhase
<1>6. DiscardPhase'
    BY DEF IInv, Begin, Goto, DiscardPhase
<1>7. UnpublishPhase'
    BY DEF IInv, Begin, Goto, UnpublishPhase
<1>8. RestorePhase'
    BY DEF IInv, Begin, Goto, RestorePhase
<1>9. Damage'
    BY DEF IInv, Begin, Damage, Uniform, NeverMixed
<1>10. NewMarkerIsComplete'
    BY DEF IInv, TypeOK, Begin, Newest, NewMarkerIsComplete
<1>11. NeverMixed'
    BY DEF IInv, Begin, NeverMixed
<1>12. CommittedSurvives'
    BY DEF IInv, Begin, OnDisk, CommittedSurvives
<1>13. FailureRestores'
    BY DEF IInv, Begin, FailureRestores
<1>14. ReturnMeansPublished'
    BY DEF IInv, Begin, ReturnMeansPublished
<1> QED
    BY <1>1, <1>2, <1>3, <1>4, <1>5, <1>6, <1>7, <1>8, <1>9, <1>10, <1>11,
       <1>12, <1>13, <1>14 DEF IInv

\* Moving the file at k aside extends the prefix that is backed up.
LEMMA BackupOneKeeps == IInv /\ BackupOne => IInv'
<1> SUFFICES ASSUME IInv, BackupOne PROVE IInv'
    OBVIOUS
<1> USE SizeAssumption, BoundsAssumption
        DEF Artifact, Generation, Content, Absent, NoFiles, call, history
<1>1. TypeOK'
  <2>1. TypeOK
    BY DEF IInv
  <2>2. /\ final' \in [Artifact -> Content]
        /\ held' \in [Artifact -> Content]
        /\ before' \in [Artifact -> Content]
        /\ orphans' \in [Artifact -> SUBSET Generation]
    BY <2>1 DEF TypeOK, BackupOne
  <2>3. k \in 1..N /\ k' \in Artifact
        /\ pc' \in {"backup", "publish"}
    BY <2>1 DEF TypeOK, BackupOne, Goto
  <2>4. /\ gen' \in Content /\ committed' \in Content
        /\ errors' \in BOOLEAN /\ damaged' \in BOOLEAN
        /\ faults' \in 0..MaxFaults /\ crashes' \in 0..MaxCrashes
        /\ outcome' = outcome
    BY <2>1 DEF TypeOK, BackupOne
  <2> QED
    BY <2>1, <2>2, <2>3, <2>4 DEF TypeOK
<1>2. Newest'
    BY DEF IInv, BackupOne, Newest
<1>3. IdlePhase'
    BY DEF IInv, BackupOne, Goto, IdlePhase
<1>4. BackupPhase'
    BY DEF IInv, TypeOK, BackupOne, Goto, BackupPhase
<1>5. PublishPhase'
    BY DEF IInv, TypeOK, BackupOne, Goto, BackupPhase, PublishPhase
<1>6. DiscardPhase'
    BY DEF IInv, BackupOne, Goto, DiscardPhase
<1>7. UnpublishPhase'
    BY DEF IInv, BackupOne, Goto, UnpublishPhase
<1>8. RestorePhase'
    BY DEF IInv, BackupOne, Goto, RestorePhase
<1>9. Damage'
    BY DEF IInv, BackupOne, Damage
<1>10. NewMarkerIsComplete'
    BY DEF IInv, TypeOK, BackupOne, Newest, BackupPhase, NewMarkerIsComplete
<1>11. NeverMixed'
    BY DEF IInv, BackupOne, NeverMixed
<1>12. CommittedSurvives'
    BY DEF IInv, TypeOK, BackupOne, BackupPhase, OnDisk, CommittedSurvives
<1>13. FailureRestores'
    BY DEF IInv, BackupOne, Newest, FailureRestores
<1>14. ReturnMeansPublished'
    BY DEF IInv, BackupOne, Newest, ReturnMeansPublished
<1> QED
    BY <1>1, <1>2, <1>3, <1>4, <1>5, <1>6, <1>7, <1>8, <1>9, <1>10, <1>11,
       <1>12, <1>13, <1>14 DEF IInv

\* Publishing the file at k extends the published prefix; the last one commits.
LEMMA PublishOneKeeps == IInv /\ PublishOne => IInv'
<1> SUFFICES ASSUME IInv, PublishOne PROVE IInv'
    OBVIOUS
<1> USE SizeAssumption, BoundsAssumption
        DEF Artifact, Generation, Content, Absent, NoFiles, call, history
<1>1. TypeOK'
  <2>1. /\ final' \in [Artifact -> Content]
        /\ held' \in [Artifact -> Content]
        /\ before' \in [Artifact -> Content]
    BY DEF IInv, TypeOK, PublishOne
  <2>2. orphans' \in [Artifact -> SUBSET Generation]
    BY DEF IInv, TypeOK, PublishOne
  <2>3. k' \in Artifact /\ gen' \in Content /\ committed' \in Content
    <3>1. k \in 1..N /\ gen \in Content /\ committed \in Content
      BY DEF IInv, TypeOK
    <3>2. CASE k = N
      BY <3>1, <3>2 DEF PublishOne, Goto
    <3>3. CASE k # N
      BY <3>1, <3>3 DEF PublishOne, Goto
    <3> QED
      BY <3>2, <3>3
  <2> QED
    BY <2>1, <2>2, <2>3 DEF IInv, TypeOK, PublishOne, Goto
<1>2. Newest'
    BY DEF IInv, PublishOne, Goto, Newest
<1>3. IdlePhase'
    BY DEF IInv, PublishOne, Goto, IdlePhase
<1>4. BackupPhase'
    BY DEF IInv, PublishOne, Goto, BackupPhase
<1>5. PublishPhase'
    BY DEF IInv, TypeOK, PublishOne, Goto, PublishPhase
<1>6. DiscardPhase'
    BY DEF IInv, TypeOK, PublishOne, Goto, PublishPhase, DiscardPhase, Complete
<1>7. UnpublishPhase'
    BY DEF IInv, PublishOne, Goto, UnpublishPhase
<1>8. RestorePhase'
    BY DEF IInv, PublishOne, Goto, RestorePhase
<1>9. Damage'
    BY DEF IInv, PublishOne, Damage
<1>10. NewMarkerIsComplete'
    BY DEF IInv, PublishOne, PublishPhase, Complete, NewMarkerIsComplete
<1>11. NeverMixed'
    BY DEF IInv, PublishOne, PublishPhase, NeverMixed
<1>12. CommittedSurvives'
    BY DEF IInv, TypeOK, PublishOne, PublishPhase, OnDisk, CommittedSurvives
<1>13. FailureRestores'
    BY DEF IInv, PublishOne, Newest, FailureRestores
<1>14. ReturnMeansPublished'
    BY DEF IInv, PublishOne, Newest, ReturnMeansPublished
<1> QED
    BY <1>1, <1>2, <1>3, <1>4, <1>5, <1>6, <1>7, <1>8, <1>9, <1>10, <1>11,
       <1>12, <1>13, <1>14 DEF IInv

\* A rename that raises enters the rollback at the right place.
LEMMA RenameRaisesKeeps == IInv /\ RenameRaises => IInv'
<1> SUFFICES ASSUME IInv, RenameRaises PROVE IInv'
    OBVIOUS
<1> USE SizeAssumption, BoundsAssumption
        DEF Artifact, Generation, Content, Absent, NoFiles, call, history
<1>1. TypeOK'
  <2>1. TypeOK
    BY DEF IInv
  <2>2. /\ final' \in [Artifact -> Content]
        /\ held' \in [Artifact -> Content]
        /\ before' \in [Artifact -> Content]
        /\ orphans' \in [Artifact -> SUBSET Generation]
    BY <2>1 DEF TypeOK, RenameRaises
  <2>3. k' \in Artifact /\ pc' \in {"unpublish", "restore"}
    <3>1. k \in 1..N /\ N \in 1..N
      BY <2>1 DEF TypeOK
    <3> QED
      BY <3>1 DEF RenameRaises, Rollback, Goto
  <2>4. faults' \in 0..MaxFaults
    BY <2>1 DEF TypeOK, RenameRaises, Raises
  <2>5. /\ gen' \in Content /\ committed' \in Content
        /\ errors' \in BOOLEAN /\ damaged' \in BOOLEAN
        /\ crashes' \in 0..MaxCrashes /\ outcome' = outcome
    BY <2>1 DEF TypeOK, RenameRaises
  <2> QED
    BY <2>1, <2>2, <2>3, <2>4, <2>5 DEF TypeOK
<1>2. Newest'
    BY DEF IInv, RenameRaises, Newest
<1>3. IdlePhase'
    BY DEF IInv, RenameRaises, Rollback, Goto, IdlePhase
<1>4. BackupPhase'
    BY DEF IInv, RenameRaises, Rollback, Goto, BackupPhase
<1>5. PublishPhase'
    BY DEF IInv, RenameRaises, Rollback, Goto, PublishPhase
<1>6. DiscardPhase'
    BY DEF IInv, RenameRaises, Rollback, Goto, DiscardPhase
<1>7. UnpublishPhase'
    BY DEF IInv, TypeOK, RenameRaises, Rollback, Goto, PublishPhase,
       UnpublishPhase
<1>8. RestorePhase'
    BY DEF IInv, TypeOK, RenameRaises, Rollback, Goto, Newest, BackupPhase,
       PublishPhase, RestorePhase
<1>9. Damage'
    BY DEF IInv, RenameRaises, Damage
<1>10. NewMarkerIsComplete'
    BY DEF IInv, TypeOK, RenameRaises, Newest, BackupPhase, PublishPhase,
       NewMarkerIsComplete
<1>11. NeverMixed'
    BY DEF IInv, RenameRaises, NeverMixed
<1>12. CommittedSurvives'
    BY DEF IInv, RenameRaises, OnDisk, CommittedSurvives
<1>13. FailureRestores'
    BY DEF IInv, RenameRaises, FailureRestores
<1>14. ReturnMeansPublished'
    BY DEF IInv, RenameRaises, Newest, ReturnMeansPublished
<1> QED
    BY <1>1, <1>2, <1>3, <1>4, <1>5, <1>6, <1>7, <1>8, <1>9, <1>10, <1>11,
       <1>12, <1>13, <1>14 DEF IInv

\* Removing a published file loses only the new generation.
LEMMA UnpublishOneKeeps == IInv /\ UnpublishOne => IInv'
<1> SUFFICES ASSUME IInv, UnpublishOne PROVE IInv'
    OBVIOUS
<1> USE SizeAssumption, BoundsAssumption
        DEF Artifact, Generation, Content, Absent, NoFiles, call, history
<1>1. TypeOK'
  <2>0. TypeOK
    BY DEF IInv
  <2>1. final' \in [Artifact -> Content] /\ faults' \in 0..MaxFaults
        /\ errors' \in BOOLEAN /\ damaged' \in BOOLEAN
    <3>1. CASE final' = [final EXCEPT ![k] = Absent]
               /\ UNCHANGED <<errors, damaged, faults>>
      BY <2>0, <3>1 DEF TypeOK
    <3>2. CASE Raises /\ errors' = TRUE /\ damaged' = TRUE
               /\ UNCHANGED final
      BY <2>0, <3>2 DEF TypeOK, Raises
    <3> QED
      BY <3>1, <3>2 DEF UnpublishOne
  <2>4. held' \in [Artifact -> Content]
    BY DEF IInv, TypeOK, UnpublishOne
  <2>5. before' \in [Artifact -> Content]
    BY DEF IInv, TypeOK, UnpublishOne
  <2>2. orphans' \in [Artifact -> SUBSET Generation]
    BY DEF IInv, TypeOK, UnpublishOne
  <2>3. k' \in Artifact /\ gen' \in Content /\ committed' \in Content
    BY DEF IInv, TypeOK, UnpublishOne, Goto
  <2> QED
    BY <2>0, <2>1, <2>4, <2>5, <2>2, <2>3 DEF TypeOK, UnpublishOne, Goto
<1>2. Newest'
    BY DEF IInv, TypeOK, UnpublishOne, Newest, UnpublishPhase
<1>3. IdlePhase'
    BY DEF IInv, UnpublishOne, Goto, IdlePhase
<1>4. BackupPhase'
    BY DEF IInv, UnpublishOne, Goto, BackupPhase
<1>5. PublishPhase'
    BY DEF IInv, UnpublishOne, Goto, PublishPhase
<1>6. DiscardPhase'
    BY DEF IInv, UnpublishOne, Goto, DiscardPhase
<1>7. UnpublishPhase'
  <2>1. TypeOK /\ Newest /\ UnpublishPhase
    BY DEF IInv
  <2>2. /\ pc = "unpublish" /\ held' = held /\ before' = before
        /\ gen' = gen /\ k \in 1..N
    BY <2>1 DEF UnpublishOne, TypeOK
  <2> SUFFICES ASSUME pc' = "unpublish" PROVE UnpublishPhase'
    BY DEF UnpublishPhase
  <2>3. k' = k - 1 /\ k' < N
    BY <2>1, <2>2 DEF UnpublishOne, Goto
  <2>4. CASE final' = [final EXCEPT ![k] = Absent] /\ errors' = errors
    BY <2>1, <2>2, <2>3, <2>4 DEF UnpublishPhase, TypeOK
  <2>5. CASE errors' = TRUE /\ final' = final
    BY <2>1, <2>2, <2>3, <2>5 DEF UnpublishPhase
  <2> QED
    BY <2>4, <2>5 DEF UnpublishOne
<1>8. RestorePhase'
    BY DEF IInv, TypeOK, UnpublishOne, Goto, Newest, UnpublishPhase,
       RestorePhase
<1>9. Damage'
    BY DEF IInv, UnpublishOne, Damage
<1>10. NewMarkerIsComplete'
    BY DEF IInv, TypeOK, UnpublishOne, UnpublishPhase, NewMarkerIsComplete
<1>11. NeverMixed'
    BY DEF IInv, TypeOK, UnpublishOne, UnpublishPhase, NeverMixed
<1>12. CommittedSurvives'
    BY DEF IInv, UnpublishOne, Newest, UnpublishPhase, OnDisk,
       CommittedSurvives
<1>13. FailureRestores'
    BY DEF IInv, UnpublishOne, Newest, FailureRestores
<1>14. ReturnMeansPublished'
    BY DEF IInv, UnpublishOne, Newest, ReturnMeansPublished
<1> QED
    BY <1>1, <1>2, <1>3, <1>4, <1>5, <1>6, <1>7, <1>8, <1>9, <1>10, <1>11,
       <1>12, <1>13, <1>14 DEF IInv

\* The three outcomes of a restore step, with what each does to the files.
LEMMA RestoreCases ==
    ASSUME TypeOK, RestoreOne
    PROVE  \E stillHeld \in [Artifact -> Content], failed \in BOOLEAN :
            /\ RestoreNext(stillHeld, failed)
            /\ faults' \in 0..MaxFaults
            /\ final' \in [Artifact -> Content]
            /\ \A i \in Artifact :
                i # k => stillHeld[i] = held[i] /\ final'[i] = final[i]
            /\ failed => stillHeld = held /\ final' = final
            /\ ~failed => /\ stillHeld[k] = Absent
                          /\ final'[k] = IF held[k] = Absent THEN final[k]
                                                            ELSE held[k]
<1> USE SizeAssumption, BoundsAssumption
        DEF Artifact, Content, Absent, TypeOK
<1>1. CASE held[k] = Absent /\ RestoreNext(held, FALSE)
           /\ UNCHANGED <<final, faults>>
    BY <1>1
<1>2. CASE /\ held[k] # Absent
           /\ final' = [final EXCEPT ![k] = held[k]]
           /\ RestoreNext([held EXCEPT ![k] = Absent], FALSE)
           /\ UNCHANGED faults
  <2> DEFINE h == [held EXCEPT ![k] = Absent]
  <2>1. h \in [Artifact -> Content] /\ h[k] = Absent
        /\ \A i \in Artifact : i # k => h[i] = held[i]
    OBVIOUS
  <2>2. final' \in [Artifact -> Content] /\ final'[k] = held[k]
        /\ \A i \in Artifact : i # k => final'[i] = final[i]
    BY <1>2
  <2>3. RestoreNext(h, FALSE)
    BY <1>2
  <2> HIDE DEF h
  <2> QED
    BY <1>2, <2>1, <2>2, <2>3
<1>3. CASE RestoreNext(held, TRUE) /\ Raises /\ UNCHANGED final
  <2>1. faults' \in 0..MaxFaults
    BY <1>3 DEF Raises
  <2>2. final' = final
    BY <1>3
  <2>3. held \in [Artifact -> Content] /\ final' \in [Artifact -> Content]
    BY <2>2
  <2> QED
    BY <1>3, <2>1, <2>2, <2>3, Zenon
<1> QED
    BY <1>1, <1>2, <1>3 DEF RestoreOne

\* Restoring the file at k extends the restored suffix.
LEMMA RestoreOneKeeps == IInv /\ RestoreOne => IInv'
<1> SUFFICES ASSUME IInv, RestoreOne PROVE IInv'
    OBVIOUS
<1> USE SizeAssumption, BoundsAssumption
        DEF Artifact, Generation, Content, Absent, NoFiles
<1>0. TypeOK /\ Newest /\ RestorePhase /\ Damage
      /\ NewMarkerIsComplete /\ CommittedSurvives
    BY DEF IInv
<1>1. PICK h \in [Artifact -> Content], failed \in BOOLEAN :
            /\ RestoreNext(h, failed)
            /\ faults' \in 0..MaxFaults
            /\ final' \in [Artifact -> Content]
            /\ \A i \in Artifact :
                i # k => h[i] = held[i] /\ final'[i] = final[i]
            /\ failed => h = held /\ final' = final
            /\ ~failed => /\ h[k] = Absent
                          /\ final'[k] = IF held[k] = Absent THEN final[k]
                                                            ELSE held[k]
    BY <1>0, RestoreCases
<1>2. /\ pc = "restore"
      /\ UNCHANGED <<gen, crashes, before, committed>>
      /\ errors' = (errors \/ failed)
      /\ damaged' = (damaged \/ failed)
    BY <1>1 DEF RestoreOne, RestoreNext
<1>3. \A i \in Artifact :
        /\ \/ h[i] = before[i] /\ final'[i] = Absent
           \/ h[i] = before[i] /\ final'[i] = gen /\ errors'
           \/ h[i] = Absent /\ final'[i] = before[i]
        /\ i >= k => final'[i] = before[i] \/ errors'
  <2> SUFFICES ASSUME NEW i \in Artifact
               PROVE  /\ \/ h[i] = before[i] /\ final'[i] = Absent
                         \/ h[i] = before[i] /\ final'[i] = gen /\ errors'
                         \/ h[i] = Absent /\ final'[i] = before[i]
                      /\ i >= k => final'[i] = before[i] \/ errors'
    OBVIOUS
  <2>1. /\ \/ held[i] = before[i] /\ final[i] = Absent
           \/ held[i] = before[i] /\ final[i] = gen /\ errors
           \/ held[i] = Absent /\ final[i] = before[i]
        /\ i > k => final[i] = before[i] \/ errors
    BY <1>0, <1>2 DEF RestorePhase
  <2>2. CASE i # k
    BY <1>0, <1>1, <1>2, <2>1, <2>2 DEF TypeOK
  <2>3. CASE i = k /\ failed
    BY <1>1, <1>2, <2>1, <2>3
  <2>4. CASE i = k /\ ~failed
    BY <1>1, <1>2, <2>1, <2>4
  <2> QED
    BY <2>2, <2>3, <2>4
<1>4. /\ \A i \in Artifact : final'[i] <= gen
      /\ final'[N] # gen
  <2>1. gen \in Nat /\ gen > 0 /\ \A i \in Artifact : before[i] < gen
    BY <1>0, <1>2 DEF Newest
  <2>2. final'[N] # gen
    BY <1>0, <1>1, <1>2, <2>1 DEF RestorePhase
  <2>3. ASSUME NEW i \in Artifact PROVE final'[i] <= gen
    <3>1. before[i] < gen /\ before[i] \in Nat /\ gen \in Nat /\ gen > 0
      BY <1>0, <2>1, <2>3 DEF TypeOK
    <3>2. final'[i] \in {Absent, gen, before[i]}
      BY <1>3, <2>3
    <3> QED
      BY <3>1, <3>2
  <2> QED
    BY <2>2, <2>3
<1>5. \A i \in Artifact :
        final'[i] = committed \/ h[i] = committed \/ committed \in orphans[i]
        \/ committed = Absent
  <2> SUFFICES ASSUME NEW i \in Artifact, committed # Absent
               PROVE  \/ final'[i] = committed \/ h[i] = committed
                      \/ committed \in orphans[i]
    OBVIOUS
  <2>1. final[i] = committed \/ held[i] = committed
        \/ committed \in orphans[i]
    BY <1>0 DEF CommittedSurvives, OnDisk
  <2>2. committed # gen
    BY <1>0, <1>2 DEF Newest
  <2>3. CASE i # k \/ failed
    BY <1>1, <2>1, <2>3
  <2>4. CASE i = k /\ ~failed
    BY <1>0, <1>1, <1>2, <2>1, <2>2, <2>4 DEF RestorePhase
  <2> QED
    BY <2>3, <2>4
<1>6. /\ gen' \in Content
      /\ before' \in [Artifact -> Content]
      /\ errors' \in BOOLEAN
      /\ damaged' \in BOOLEAN
      /\ faults' \in 0..MaxFaults
    BY <1>0, <1>1, <1>2 DEF TypeOK
<1>7. NewMarkerIsComplete'
    BY <1>2, <1>4 DEF NewMarkerIsComplete
<1>8. NeverMixed'
  <2> SUFFICES ASSUME ~damaged', NEW i \in Artifact, NEW j \in Artifact,
                      final'[i] # Absent, final'[j] # Absent
               PROVE  final'[i] = final'[j]
    BY DEF NeverMixed
  <2>1. ~errors' /\ ~damaged
    BY <1>0, <1>2 DEF Damage
  <2>2. final'[i] = before[i] /\ final'[j] = before[j]
    BY <1>3, <2>1
  <2> QED
    BY <1>0, <1>2, <2>1, <2>2 DEF Damage, Uniform
<1>9. Damage'
    BY <1>0, <1>2 DEF Damage
<1>10. CASE k = 1
  <2>1. /\ pc' = "idle" /\ k' = 1 /\ held' = NoFiles
        /\ outcome' = IF errors' THEN "incomplete" ELSE "failed"
        /\ orphans' = [i \in Artifact |->
                          orphans[i] \union ({h[i]} \ {Absent})]
    BY <1>1, <1>2, <1>10 DEF RestoreNext, Leave
  <2>2. TypeOK'
    <3>1. orphans' \in [Artifact -> SUBSET Generation]
      BY <1>0, <1>1, <2>1, LeftBehind, Zenon DEF TypeOK
    <3>2. outcome' \in {"none", "returned", "failed", "incomplete",
                        "undiscarded", "crashed"}
      BY <2>1
    <3>3. held' \in [Artifact -> Content] /\ k' \in Artifact
      BY <2>1
    <3>4. crashes' \in 0..MaxCrashes /\ committed' \in Content
      BY <1>0, <1>2 DEF TypeOK
    <3> QED
      BY <1>1, <1>6, <2>1, <3>1, <3>2, <3>3, <3>4, Zenon DEF TypeOK
  <2>3. Newest'
    BY <1>0, <1>2, <1>4, <2>1 DEF Newest
  <2>4. IdlePhase' /\ BackupPhase' /\ PublishPhase' /\ DiscardPhase'
        /\ UnpublishPhase' /\ RestorePhase'
    BY <2>1 DEF IdlePhase, BackupPhase, PublishPhase, DiscardPhase,
                UnpublishPhase, RestorePhase
  <2>5. CommittedSurvives'
    BY <1>0, <1>2, <1>5, <2>1 DEF CommittedSurvives, OnDisk
  <2>6. FailureRestores'
    <3> SUFFICES ASSUME ~errors' PROVE final' = before'
      BY <2>1 DEF FailureRestores
    <3>1. \A i \in Artifact : final'[i] = before[i]
      BY <1>10, <1>3
    <3> QED
      BY <1>0, <1>1, <1>2, <3>1 DEF TypeOK
  <2>7. ReturnMeansPublished'
    BY <2>1 DEF ReturnMeansPublished
  <2> QED
    BY <1>7, <1>8, <1>9, <2>2, <2>3, <2>4, <2>5, <2>6, <2>7 DEF IInv
<1>11. CASE k # 1
  <2>1. /\ pc' = "restore" /\ k' = k - 1 /\ held' = h
        /\ UNCHANGED <<outcome, orphans>>
    BY <1>1, <1>2, <1>11 DEF RestoreNext, Goto
  <2>2. TypeOK'
    <3>1. held' \in [Artifact -> Content] /\ k' \in Artifact
      BY <1>0, <1>1, <1>11, <2>1 DEF TypeOK
    <3>2. crashes' \in 0..MaxCrashes /\ committed' \in Content
      BY <1>0, <1>2 DEF TypeOK
    <3>3. /\ outcome' \in {"none", "returned", "failed", "incomplete",
                           "undiscarded", "crashed"}
          /\ orphans' \in [Artifact -> SUBSET Generation]
      BY <1>0, <2>1 DEF TypeOK
    <3> QED
      BY <1>1, <1>6, <2>1, <3>1, <3>2, <3>3, Zenon DEF TypeOK
  <2>3. Newest'
    BY <1>0, <1>2, <1>4, <2>1 DEF Newest
  <2>4. IdlePhase' /\ BackupPhase' /\ PublishPhase' /\ DiscardPhase'
        /\ UnpublishPhase'
    BY <2>1 DEF IdlePhase, BackupPhase, PublishPhase, DiscardPhase,
                UnpublishPhase
  <2>5. RestorePhase'
    BY <1>0, <1>2, <1>3, <1>4, <2>1 DEF TypeOK, RestorePhase
  <2>6. CommittedSurvives'
    BY <1>2, <1>5, <2>1 DEF CommittedSurvives, OnDisk
  <2>7. FailureRestores' /\ ReturnMeansPublished'
    BY <1>0, <1>2, <2>1 DEF Newest, FailureRestores, ReturnMeansPublished
  <2> QED
    BY <1>7, <1>8, <1>9, <2>2, <2>3, <2>4, <2>5, <2>6, <2>7 DEF IInv
<1> QED
    BY <1>10, <1>11

\* Backups are thrown away only once the generation is complete.
LEMMA DiscardOneKeeps == IInv /\ DiscardOne => IInv'
<1> SUFFICES ASSUME IInv, DiscardOne PROVE IInv'
    OBVIOUS
<1> USE SizeAssumption, BoundsAssumption
        DEF Artifact, Generation, Content, Absent, NoFiles, call, history
<1>1. TypeOK'
  <2>1. final' \in [Artifact -> Content]
    BY DEF IInv, TypeOK, DiscardOne
  <2>4. held' \in [Artifact -> Content]
    <3>1. CASE held' = NoFiles
      BY <3>1
    <3>2. CASE held' = [held EXCEPT ![k] = Absent]
      BY <3>2 DEF IInv, TypeOK
    <3> QED
      BY <3>1, <3>2 DEF DiscardOne, Leave
  <2>5. before' \in [Artifact -> Content]
    BY DEF IInv, TypeOK, DiscardOne
  <2>2. orphans' \in [Artifact -> SUBSET Generation]
    BY DEF IInv, TypeOK, DiscardOne, Leave
  <2>3. k' \in Artifact /\ gen' \in Content /\ committed' \in Content
    BY DEF IInv, TypeOK, DiscardOne, Leave, Goto
  <2> QED
    BY <2>1, <2>4, <2>5, <2>2, <2>3 DEF IInv, TypeOK, DiscardOne, Leave, Goto
<1>2. Newest'
    BY DEF IInv, DiscardOne, Leave, Goto, Newest
<1>3. IdlePhase'
    BY DEF IInv, DiscardOne, Leave, Goto, IdlePhase
<1>4. BackupPhase'
    BY DEF IInv, DiscardOne, Leave, Goto, BackupPhase
<1>5. PublishPhase'
    BY DEF IInv, DiscardOne, Leave, Goto, PublishPhase
<1>6. DiscardPhase'
    BY DEF IInv, DiscardOne, DiscardPhase, Complete
<1>7. UnpublishPhase'
    BY DEF IInv, DiscardOne, Leave, Goto, UnpublishPhase
<1>8. RestorePhase'
    BY DEF IInv, DiscardOne, Leave, Goto, RestorePhase
<1>9. Damage'
    BY DEF IInv, DiscardOne, Damage
<1>10. NewMarkerIsComplete'
    BY DEF IInv, DiscardOne, Complete, NewMarkerIsComplete
<1>11. NeverMixed'
    BY DEF IInv, DiscardOne, NeverMixed
<1>12. CommittedSurvives'
    BY DEF IInv, DiscardOne, DiscardPhase, Complete, OnDisk, CommittedSurvives
<1>13. FailureRestores'
    BY DEF IInv, DiscardOne, Leave, FailureRestores
<1>14. ReturnMeansPublished'
    BY DEF IInv, DiscardOne, DiscardPhase, Complete, ReturnMeansPublished
<1> QED
    BY <1>1, <1>2, <1>3, <1>4, <1>5, <1>6, <1>7, <1>8, <1>9, <1>10, <1>11,
       <1>12, <1>13, <1>14 DEF IInv

\* A backup that will not go away leaves a complete generation.
LEMMA DiscardRaisesKeeps == IInv /\ DiscardRaises => IInv'
<1> SUFFICES ASSUME IInv, DiscardRaises PROVE IInv'
    OBVIOUS
<1> USE SizeAssumption, BoundsAssumption
        DEF Artifact, Generation, Content, Absent, NoFiles, call, history
<1>1. TypeOK'
  <2>1. TypeOK
    BY DEF IInv
  <2>2. /\ final' \in [Artifact -> Content] /\ gen' \in Content
        /\ before' \in [Artifact -> Content] /\ committed' \in Content
        /\ errors' \in BOOLEAN /\ damaged' \in BOOLEAN
        /\ crashes' \in 0..MaxCrashes
    BY <2>1 DEF TypeOK, DiscardRaises
  <2>3. held' \in [Artifact -> Content]
    BY DEF DiscardRaises, Leave
  <2>4. orphans' \in [Artifact -> SUBSET Generation]
    BY <2>1, LeftBehind DEF TypeOK, DiscardRaises, Leave
  <2>5. /\ pc' \in {"idle", "backup", "publish", "discard", "unpublish",
                  "restore"}
        /\ k' \in Artifact
        /\ outcome' \in {"none", "returned", "failed", "incomplete",
                        "undiscarded", "crashed"}
    BY DEF DiscardRaises, Leave
  <2>6. faults' \in 0..MaxFaults
    BY <2>1 DEF TypeOK, DiscardRaises, Raises
  <2> QED
    BY <2>2, <2>3, <2>4, <2>5, <2>6, Zenon DEF TypeOK
<1>2. Newest'
    BY DEF IInv, DiscardRaises, Leave, Newest
<1>3. IdlePhase'
    BY DEF IInv, DiscardRaises, Leave, IdlePhase
<1>4. BackupPhase'
    BY DEF IInv, DiscardRaises, Leave, BackupPhase
<1>5. PublishPhase'
    BY DEF IInv, DiscardRaises, Leave, PublishPhase
<1>6. DiscardPhase'
    BY DEF IInv, DiscardRaises, Leave, DiscardPhase
<1>7. UnpublishPhase'
    BY DEF IInv, DiscardRaises, Leave, UnpublishPhase
<1>8. RestorePhase'
    BY DEF IInv, DiscardRaises, Leave, RestorePhase
<1>9. Damage'
    BY DEF IInv, DiscardRaises, Damage
<1>10. NewMarkerIsComplete'
    BY DEF IInv, DiscardRaises, Complete, NewMarkerIsComplete
<1>11. NeverMixed'
    BY DEF IInv, DiscardRaises, NeverMixed
<1>12. CommittedSurvives'
    BY DEF IInv, DiscardRaises, Leave, OnDisk, CommittedSurvives
<1>13. FailureRestores'
    BY DEF IInv, DiscardRaises, Leave, FailureRestores
<1>14. ReturnMeansPublished'
    BY DEF IInv, DiscardRaises, DiscardPhase, Complete, ReturnMeansPublished
<1> QED
    BY <1>1, <1>2, <1>3, <1>4, <1>5, <1>6, <1>7, <1>8, <1>9, <1>10, <1>11,
       <1>12, <1>13, <1>14 DEF IInv

\* A crash leaves the backups it held on disk.
LEMMA CrashKeeps == IInv /\ Crash => IInv'
<1> SUFFICES ASSUME IInv, Crash PROVE IInv'
    OBVIOUS
<1> USE SizeAssumption, BoundsAssumption
        DEF Artifact, Generation, Content, Absent, NoFiles, call, history
<1>1. TypeOK'
  <2>1. TypeOK
    BY DEF IInv
  <2>2. /\ final' \in [Artifact -> Content] /\ gen' \in Content
        /\ before' \in [Artifact -> Content] /\ committed' \in Content
        /\ errors' \in BOOLEAN /\ damaged' \in BOOLEAN
        /\ faults' \in 0..MaxFaults
    BY <2>1 DEF TypeOK, Crash
  <2>3. held' \in [Artifact -> Content]
    BY DEF Crash, Leave
  <2>4. orphans' \in [Artifact -> SUBSET Generation]
    BY <2>1, LeftBehind DEF TypeOK, Crash, Leave
  <2>5. /\ pc' \in {"idle", "backup", "publish", "discard", "unpublish",
                  "restore"}
        /\ k' \in Artifact
        /\ outcome' \in {"none", "returned", "failed", "incomplete",
                        "undiscarded", "crashed"}
    BY DEF Crash, Leave
  <2>6. crashes' \in 0..MaxCrashes
    BY <2>1 DEF TypeOK, Crash
  <2> QED
    BY <2>2, <2>3, <2>4, <2>5, <2>6, Zenon DEF TypeOK
<1>2. Newest'
    BY DEF IInv, Crash, Leave, Newest
<1>3. IdlePhase'
    BY DEF IInv, Crash, Leave, IdlePhase
<1>4. BackupPhase'
    BY DEF IInv, Crash, Leave, BackupPhase
<1>5. PublishPhase'
    BY DEF IInv, Crash, Leave, PublishPhase
<1>6. DiscardPhase'
    BY DEF IInv, Crash, Leave, DiscardPhase
<1>7. UnpublishPhase'
    BY DEF IInv, Crash, Leave, UnpublishPhase
<1>8. RestorePhase'
    BY DEF IInv, Crash, Leave, RestorePhase
<1>9. Damage'
    BY DEF IInv, Crash, Damage
<1>10. NewMarkerIsComplete'
    BY DEF IInv, Crash, Complete, NewMarkerIsComplete
<1>11. NeverMixed'
    BY DEF IInv, Crash, NeverMixed
<1>12. CommittedSurvives'
    BY DEF IInv, Crash, Leave, OnDisk, CommittedSurvives
<1>13. FailureRestores'
    BY DEF IInv, Crash, Leave, FailureRestores
<1>14. ReturnMeansPublished'
    BY DEF IInv, Crash, Leave, ReturnMeansPublished
<1> QED
    BY <1>1, <1>2, <1>3, <1>4, <1>5, <1>6, <1>7, <1>8, <1>9, <1>10, <1>11,
       <1>12, <1>13, <1>14 DEF IInv

\* A step that changes nothing.
LEMMA StutterKeeps == IInv /\ UNCHANGED vars => IInv'
BY DEF IInv, vars, call, history, TypeOK, Newest, IdlePhase, BackupPhase,
       PublishPhase, DiscardPhase, UnpublishPhase, RestorePhase, Damage,
       Uniform, Complete, OnDisk, NewMarkerIsComplete, NeverMixed,
       CommittedSurvives, FailureRestores, ReturnMeansPublished

\* An empty directory satisfies the invariant.
LEMMA InitHolds == Init => IInv
<1> SUFFICES ASSUME Init PROVE IInv
    OBVIOUS
<1> USE SizeAssumption, BoundsAssumption
        DEF Init, Artifact, Generation, Content, Absent, NoFiles
<1>1. TypeOK
  <2>1. /\ final \in [Artifact -> Content]
        /\ held \in [Artifact -> Content]
        /\ before \in [Artifact -> Content]
    OBVIOUS
  <2>2. orphans \in [Artifact -> SUBSET Generation]
    OBVIOUS
  <2>3. /\ gen \in Content /\ k \in Artifact /\ committed \in Content
        /\ faults \in 0..MaxFaults /\ crashes \in 0..MaxCrashes
    OBVIOUS
  <2> QED
    BY <2>1, <2>2, <2>3, Zenon DEF TypeOK
<1>2. Newest /\ Damage
    BY DEF Newest, Damage
<1>3. IdlePhase /\ BackupPhase /\ PublishPhase /\ DiscardPhase
      /\ UnpublishPhase /\ RestorePhase
    BY DEF IdlePhase, BackupPhase, PublishPhase, DiscardPhase,
           UnpublishPhase, RestorePhase
<1>4. NewMarkerIsComplete /\ NeverMixed /\ CommittedSurvives
      /\ FailureRestores /\ ReturnMeansPublished
    BY DEF NewMarkerIsComplete, NeverMixed, CommittedSurvives,
           FailureRestores, ReturnMeansPublished
<1> QED
    BY <1>1, <1>2, <1>3, <1>4 DEF IInv

-----------------------------------------------------------------------------
(* Theorems.                                                               *)

\* The invariant is inductive.
LEMMA Invariance == Spec => []IInv
<1>1. Init => IInv
    BY InitHolds
<1>2. IInv /\ [Next]_vars => IInv'
    BY BeginKeeps, BackupOneKeeps, PublishOneKeeps, RenameRaisesKeeps,
       UnpublishOneKeeps, RestoreOneKeeps, DiscardOneKeeps,
       DiscardRaisesKeeps, CrashKeeps, StutterKeeps DEF Next
<1> QED
    BY <1>1, <1>2, PTL DEF Spec

\* The state of a publication keeps its type.
THEOREM TypeCorrect == Spec => []TypeOK
<1>1. IInv => TypeOK
    BY DEF IInv
<1> QED
    BY <1>1, Invariance, PTL

\* The manifest of the generation being published is visible only beside the
\* whole of it, whatever raises and wherever the process dies.
THEOREM CommitMarkerLast == Spec => []NewMarkerIsComplete
<1>1. IInv => NewMarkerIsComplete
    BY DEF IInv
<1> QED
    BY <1>1, Invariance, PTL

\* Files of two generations are never visible together unless a rollback
\* reported that it was incomplete.
THEOREM GenerationsNeverMix == Spec => []NeverMixed
<1>1. IInv => NeverMixed
    BY DEF IInv
<1> QED
    BY <1>1, Invariance, PTL

\* No failure, no rollback error and no crash loses a file of the last
\* generation that was published completely.
THEOREM NothingIsLost == Spec => []CommittedSurvives
<1>1. IInv => CommittedSurvives
    BY DEF IInv
<1> QED
    BY <1>1, Invariance, PTL

\* How a call ends tells what it left: a call that re-raises the original
\* exception has restored what it found, one that returns has published its
\* whole generation.
THEOREM OutcomeCorrect == Spec => []OutcomeIsTrue
<1>1. IInv => OutcomeIsTrue
    BY DEF IInv, OutcomeIsTrue
<1> QED
    BY <1>1, Invariance, PTL

=============================================================================

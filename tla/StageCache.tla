----------------------------- MODULE StageCache -----------------------------
(***************************************************************************)
(* The caches of data/build_rl.py: when a build may reuse what an earlier  *)
(* one left behind.                                                        *)
(*                                                                         *)
(* build() fingerprints its inputs, reuses the published files if they     *)
(* were vouched for under that fingerprint, and otherwise runs three       *)
(* stages -- catalog, pool, corpus -- each reused when its marker has the  *)
(* stage's fingerprint and the hashes of its files.  A stage fingerprints  *)
(* its inputs a second time and reads them a third; the later stages       *)
(* compare what the earlier ones recorded with the files as they are now.  *)
(* The user may edit an input at any time, and a build may end, by an      *)
(* exception or by the death of the process, between any two steps.        *)
(*                                                                         *)
(* Input i is what stage i reads first: the metadata, the questions and    *)
(* the knowledge base, the archives.  Inputs are compared by the hash of   *)
(* their content, so an input is its content, and an edit may put back one *)
(* that it had before.  A file is the contents it was made from; files     *)
(* made from the same contents are equal, although the time of creation    *)
(* would tell them apart: a model that reuses more.                        *)
(***************************************************************************)
EXTENDS Integers, Sequences

CONSTANTS
    MaxEdits,   \* bound: edits of the inputs
    MaxBuilds,  \* bound: calls of build()
    MaxStops    \* bound: builds that end between two steps

ASSUME BoundsAssumption ==
    MaxEdits \in Nat /\ MaxBuilds \in Nat /\ MaxStops \in Nat

Stage == 1..3
Corpus == 3
Content == 0..MaxEdits      \* one that is new to every edit, and the earlier
Nothing == <<>>     \* a file that is not there

VARIABLES
    input,      \* the content of every input
    data,       \* the artifacts of a stage, in the cache directory
    manifest,   \* the manifest of a stage: what it recorded, and of what
    marker,     \* the cache marker of a stage
    public,     \* the published artifacts and their manifest
    vouched,    \* standalone_build_manifest.json, the marker of them
    prints,     \* the fingerprints the current build computed
    at, stage,  \* where the current build is
    recorded,   \* what the current stage fingerprinted
    staged,     \* what it has staged
    outcome,    \* how the last build ended
    edited,     \* history: an input was edited since the build began
    replaced,   \* history: inputs, with the content they had when they were
                \* edited under a build
    edits, builds, stops    \* bounds

cache == <<data, manifest, marker>>
output == <<public, vouched>>
build == <<prints, at, stage, recorded, staged, outcome>>
bounds == <<edits, builds, stops>>
history == <<edited, replaced>>
buildVars == <<input, cache, output, build, history, bounds>>

BuildInit ==
    /\ input = [i \in Stage |-> 0]
    /\ data = [i \in Stage |-> Nothing]
    /\ manifest = [i \in Stage |-> Nothing]
    /\ marker = [i \in Stage |-> Nothing]
    /\ public = [data |-> Nothing, manifest |-> Nothing]
    /\ vouched = Nothing
    /\ prints = input
    /\ at = "idle"
    /\ stage = 1
    /\ recorded = Nothing
    /\ staged = Nothing
    /\ outcome = "none"
    /\ edited = FALSE
    /\ replaced = {}
    /\ edits = 0
    /\ builds = 0
    /\ stops = 0

Goto(label, i) == at' = label /\ stage' = i

Ends(how) ==
    /\ Goto("idle", 1)
    /\ recorded' = Nothing
    /\ staged' = Nothing
    /\ outcome' = how

-----------------------------------------------------------------------------
(* What the caches are compared with.                                      *)

Upstream(i) == IF i = 1 THEN Nothing ELSE <<data[i - 1], manifest[i - 1]>>

\* The mutant leaves the artifacts of the stage before out.
OwnFingerprint(i) == <<prints[i]>>

\* The fingerprint of a stage: its own inputs and the hashes of the
\* artifacts of the stage before.
StageFingerprint(i) == <<prints[i], Upstream(i)>>

\* The mutant trusts a marker of the right fingerprint.
MarkerMatches(i) ==
    /\ marker[i] # Nothing
    /\ marker[i].fingerprint = StageFingerprint(i)

\* _stage_cache_reusable: the fingerprint, and every file's hash.
StageReusable(i) ==
    /\ marker[i] # Nothing
    /\ marker[i].fingerprint = StageFingerprint(i)
    /\ marker[i].data = data[i]
    /\ marker[i].manifest = manifest[i]

\* _can_reuse: the marker vouches for this manifest under this fingerprint,
\* and the manifest for the files beside it.
CanReuse(print) ==
    /\ vouched # Nothing
    /\ public.manifest # Nothing
    /\ vouched.fingerprint = print
    /\ public.manifest.fingerprint = print
    /\ vouched.manifest = public.manifest
    /\ public.manifest.of = public.data

-----------------------------------------------------------------------------
(* The build.                                                              *)

\* _clear_known_cache_outputs, whole or as far as it came: the files of the
\* stages, and the markers, are removed one after another.
Clear ==
    /\ data' = [i \in Stage |-> Nothing]
    /\ manifest' = [i \in Stage |-> Nothing]
    /\ marker' = [i \in Stage |-> Nothing]
    /\ vouched' = Nothing

Begin ==
    /\ at = "idle"
    /\ builds < MaxBuilds
    /\ builds' = builds + 1
    /\ prints' = input
    /\ edited' = FALSE
    /\ recorded' = Nothing
    /\ staged' = Nothing
    /\ \/ /\ CanReuse(input)
          /\ Goto("idle", 1)
          /\ outcome' = "reused"
          /\ UNCHANGED <<cache, vouched, replaced>>
       \/ /\ ~CanReuse(input)
          /\ Goto("check", 1)
          /\ outcome' = "none"
          /\ UNCHANGED <<cache, vouched, replaced>>
       \/ /\ Clear      \* --force
          /\ replaced' = {}
          /\ Goto("check", 1)
          /\ outcome' = "none"
    /\ UNCHANGED <<input, public, edits, stops>>

\* --force, interrupted in the files of stage n, whose manifest is the last.
ClearStops(n) ==
    /\ at = "idle"
    /\ builds < MaxBuilds
    /\ stops < MaxStops
    /\ builds' = builds + 1
    /\ stops' = stops + 1
    /\ prints' = input
    /\ edited' = FALSE
    /\ data' = [i \in Stage |-> IF i <= n THEN Nothing ELSE data[i]]
    /\ \E m \in {n - 1, n} :
        manifest' = [i \in Stage |-> IF i <= m THEN Nothing ELSE manifest[i]]
    /\ Ends("stopped")
    /\ UNCHANGED <<input, marker, output, replaced, edits>>

After(i) == IF i = Corpus THEN Goto("publish", i) ELSE Goto("check", i + 1)

Check ==
    /\ at = "check"
    /\ IF StageReusable(stage) THEN After(stage) ELSE Goto("record", stage)
    /\ UNCHANGED <<input, cache, output, prints, recorded, staged, outcome,
                   history, bounds>>

\* _rp_validated_catalog_inputs and _rc_load_inputs: the files of the stages
\* before are those the last manifest names, and what it recorded of the
\* inputs is what they still are.
UpstreamValid(i) ==
    i > 1 =>
        /\ manifest[i - 1] # Nothing
        /\ manifest[i - 1].of = data[i - 1]
        /\ manifest[i - 1].upstream = Upstream(i - 1)
        /\ \A j \in 1..(i - 1) : manifest[i - 1].inputs[j] = input[j]

\* A stage validates what it builds on and fingerprints its inputs.
Record ==
    /\ at = "record"
    /\ IF UpstreamValid(stage)
       THEN /\ recorded' = [upstream |-> Upstream(stage),
                            inputs |-> [j \in 1..stage |-> input[j]]]
            /\ Goto("build", stage)
            /\ UNCHANGED <<staged, outcome>>
       ELSE Ends("refused")
    /\ UNCHANGED <<input, cache, output, prints, history, bounds>>

\* What a stage makes of its inputs: the artifacts of the stage before and
\* its own; the corpus stage reads the knowledge base again.
Built(i) ==
    CASE i = 1 -> <<input[1]>>
      [] i = 2 -> Append(data[1], input[2])
      [] i = 3 -> data[2] \o <<input[2], input[3]>>

BuildStage ==
    /\ at = "build"
    /\ staged' = Built(stage)
    /\ Goto("replace", stage)
    /\ UNCHANGED <<input, cache, output, prints, recorded, outcome, history,
                   bounds>>

NewManifest == [of |-> staged, upstream |-> recorded.upstream,
                inputs |-> recorded.inputs]

\* The files of the stage replace the earlier ones, the manifest last.
Replace ==
    /\ at = "replace"
    /\ data' = [data EXCEPT ![stage] = staged]
    /\ manifest' = [manifest EXCEPT ![stage] = NewManifest]
    /\ staged' = Nothing
    /\ Goto("mark", stage)
    /\ UNCHANGED <<input, marker, output, prints, recorded, outcome, history,
                   bounds>>

\* The death of the process while they do: old files, new files and none,
\* and never a new manifest.
ReplaceStops ==
    /\ at = "replace"
    /\ stops < MaxStops
    /\ stops' = stops + 1
    /\ \E d \in {Nothing, staged, data[stage]}, keep \in BOOLEAN :
        /\ data' = [data EXCEPT ![stage] = d]
        /\ manifest' = [manifest EXCEPT
                            ![stage] = IF keep THEN @ ELSE Nothing]
    /\ Ends("stopped")
    /\ UNCHANGED <<input, marker, output, prints, history, edits, builds>>

\* _write_stage_cache_marker: under the fingerprint the build began with.
Mark ==
    /\ at = "mark"
    /\ marker' = [marker EXCEPT ![stage] =
                     [fingerprint |-> StageFingerprint(stage),
                      data |-> data[stage], manifest |-> manifest[stage]]]
    /\ recorded' = Nothing
    /\ After(stage)
    /\ UNCHANGED <<input, data, manifest, output, prints, staged, outcome,
                   history, bounds>>

\* _publish_public_artifacts up to _ep_publish_artifact_set, which either
\* publishes all or nothing (ArtifactPublish shows how).
Publish ==
    /\ at = "publish"
    /\ public' = [data |-> data[Corpus],
                  manifest |-> [fingerprint |-> prints, of |-> data[Corpus]]]
    /\ Goto("vouch", Corpus)
    /\ UNCHANGED <<input, cache, vouched, prints, recorded, staged, outcome,
                   history, bounds>>

\* Unless the process dies in it.
PublishStops ==
    /\ at = "publish"
    /\ stops < MaxStops
    /\ stops' = stops + 1
    /\ \E d \in {Nothing, public.data, data[Corpus]},
          m \in {Nothing, public.manifest} :
        public' = [data |-> d, manifest |-> m]
    /\ Ends("stopped")
    /\ UNCHANGED <<input, cache, vouched, prints, history, edits, builds>>

\* The marker that vouches for the published files.
Vouch ==
    /\ at = "vouch"
    /\ vouched' = [fingerprint |-> prints, manifest |-> public.manifest]
    /\ Ends("built")
    /\ UNCHANGED <<input, cache, public, prints, history, bounds>>

\* An exception, or the death of the process, between two steps.
Stop ==
    /\ at # "idle"
    /\ stops < MaxStops
    /\ stops' = stops + 1
    /\ Ends("stopped")
    /\ UNCHANGED <<input, cache, output, prints, history, edits, builds>>

\* The user edits an input, or puts back what it was.
Edit(i) ==
    /\ edits < MaxEdits
    /\ edits' = edits + 1
    /\ \E c \in Content \ {input[i]} : input' = [input EXCEPT ![i] = c]
    /\ edited' = TRUE
    /\ replaced' = IF at = "idle" THEN replaced
                   ELSE replaced \union {<<i, input[i]>>}
    /\ UNCHANGED <<cache, output, build, builds, stops>>

BuildNext ==
    \/ Begin
    \/ \E n \in Stage : ClearStops(n)
    \/ Check
    \/ Record
    \/ BuildStage
    \/ Replace
    \/ ReplaceStops
    \/ Mark
    \/ Publish
    \/ PublishStops
    \/ Vouch
    \/ Stop
    \/ \E i \in Stage : Edit(i)

BuildSpec == BuildInit /\ [][BuildNext]_buildVars

-----------------------------------------------------------------------------
(* Properties.                                                             *)

\* What a build of the inputs as they are now publishes.
Fresh == <<input[1], input[2], input[2], input[3]>>

\* An input has the content again that it had when it was edited under a
\* build: the fingerprint of that build is the fingerprint of the inputs, and
\* what it read may be another content.  No cache remembers more than the
\* fingerprint; --force removes them all.
PutBack == \E i \in Stage : <<i, input[i]>> \in replaced

\* A build that returns, and whose inputs nobody has edited since it began,
\* leaves files made from exactly these inputs, under a manifest and a
\* marker that say so: whatever edits, failures and deaths interrupted the
\* builds before it, and whatever of theirs it reused; an input that was
\* edited under a build, and put back, excepted.
SteadyBuildIsFresh ==
    outcome \in {"built", "reused"} /\ ~edited /\ ~PutBack =>
        /\ public.data = Fresh
        /\ CanReuse(input)

\* A stage refuses what the stage before left only in a build during which
\* an input was edited, or after one under which an input was edited that has
\* been put back since: no other cache that the checks of build() accept is
\* one that the checks of a stage reject, so no other user is told to "rerun"
\* what every rerun would reuse.
RefusedOnlyAfterEdit == outcome = "refused" => edited \/ PutBack

=============================================================================

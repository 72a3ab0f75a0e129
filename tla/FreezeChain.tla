---------------------------- MODULE FreezeChain ----------------------------
(***************************************************************************)
(* The staged freeze of the E5 study (research/e5/harness/e5_harness.py):  *)
(* one manifest per stage, each recording the hash of what later stages    *)
(* may depend on and the hash of the manifest before it; and the verifier  *)
(* that recomputes them.  No command of the repository freezes a stage     *)
(* yet: a person does, with build_manifest and write_manifest, in any      *)
(* order and over any tree, and the verifier is what must catch it.        *)
(*                                                                         *)
(* The nine stages are 0..LastStage; three of them carry checks of their   *)
(* own, and an instance may leave the others out.  A hash is the content   *)
(* it is of.                                                               *)
(***************************************************************************)
EXTENDS Naturals, FiniteSets

CONSTANTS
    LastStage, CohortStage, PredictionStage, UnlockStage,
    Items,            \* what the manifests hash: the protocol document, the
                      \* config, requirements.lock, the listed artifacts
    TreeVersions,     \* the contents of a document or an artifact
    Identity(_),      \* config content -> the frozen model identity, or Null
    Null,
    MaxMishaps,       \* bound on edits, deletions, torn writes, careless calls
    MaxClock          \* bound on the clock

ASSUME FreezeAssumption ==
    /\ LastStage \in Nat /\ UnlockStage \in 0 .. LastStage
    /\ 0 < CohortStage /\ CohortStage < PredictionStage
    /\ PredictionStage < UnlockStage
    /\ CohortStage \in Nat /\ PredictionStage \in Nat
    /\ "config" \in Items /\ MaxMishaps \in Nat /\ MaxClock \in Nat

Stages == 0 .. LastStage

VARIABLES
    tree,       \* the items in the work tree
    mounted,    \* is the outcome file reachable?
    files,      \* the manifest file of each stage
    clock,      \* UTC, to the second
    mishaps,    \* what MaxMishaps counts
    sealed      \* history: the tree each present manifest was frozen over

freezeVars == << tree, mounted, files, clock, mishaps, sealed >>

NoFile == [is |-> "missing"]
TornFile == [is |-> "torn"]

\* load_manifests: what cannot be read as JSON is passed over.
Present == {s \in Stages : files[s].is = "manifest"}
Body(s) == files[s].body

FreezeInit ==
    /\ \E v \in TreeVersions : tree = [i \in Items |-> v]
    /\ mounted = FALSE
    /\ files = [s \in Stages |-> NoFile]
    /\ clock = 0
    /\ mishaps = 0
    /\ sealed = [s \in Stages |-> Null]

\* assert_outcome_inaccessible records whether the paths exist; it is the
\* prediction freeze that calls it.
Assertion(s) == IF s = PredictionStage THEN [accessible |-> mounted] ELSE Null

\* build_manifest.  The caller says which manifest came before, passes the
\* model identity or nothing, lists the outcome file or not, and states the
\* cohort's disjointness or not.
Manifest(s, previous, identity, outcome, disjointness) ==
    [stage |-> s, previous |-> previous, stamp |-> clock,
     tree |-> tree, identity |-> identity,
     roles |-> IF outcome THEN {"artifact", "outcome"} ELSE {"artifact"},
     assertion |-> Assertion(s),
     disjointness |-> IF s = CohortStage THEN disjointness ELSE Null]

\* The manifest a careful person passes as the one before.
Latest(s) ==
    LET before == {t \in Present : t < s}
    IN  IF before = {} THEN Null
        ELSE files[CHOOSE t \in before : \A u \in before : u <= t].hash

Previous == {Null} \cup {files[s].hash : s \in Present}

\* write_manifest refuses to replace a file, whatever is in it.  Freezing out
\* of order, passing another manifest than the latest, listing the outcome
\* file early and freezing a cohort not proven disjoint count as mishaps.
Freeze(s, previous, identity, outcome, disjointness) ==
    LET body == Manifest(s, previous, identity, outcome, disjointness)
        careful == /\ 0 .. s - 1 \subseteq Present /\ previous = Latest(s)
                   /\ outcome => s >= UnlockStage
                   /\ s = CohortStage => disjointness = "PROVEN"
    IN  /\ files[s].is = "missing"
        /\ outcome => mounted
        /\ careful \/ mishaps < MaxMishaps
        /\ mishaps' = IF careful THEN mishaps ELSE mishaps + 1
        /\ files' = [files EXCEPT ![s] =
                          [is |-> "manifest", body |-> body, hash |-> body]]
        /\ sealed' = [sealed EXCEPT ![s] = tree]
        /\ UNCHANGED << tree, mounted, clock >>

FreezeAny ==
    \E s \in Stages, previous \in Previous,
       identity \in {Null, Identity(tree["config"])},
       outcome \in BOOLEAN, disjointness \in {Null, "PROVEN", "UNPROVEN"} :
        /\ s # CohortStage => disjointness = Null
        /\ Freeze(s, previous, identity, outcome, disjointness)

\* The writer dies in the write: the file is there and is not JSON.
Tear(s) ==
    /\ mishaps < MaxMishaps
    /\ files[s].is = "missing"
    /\ files' = [files EXCEPT ![s] = TornFile]
    /\ mishaps' = mishaps + 1
    /\ UNCHANGED << tree, mounted, clock, sealed >>

\* A person deletes a manifest, edits one by hand, or edits the tree.
DeleteFile(s) ==
    /\ mishaps < MaxMishaps
    /\ files[s].is # "missing"
    /\ files' = [files EXCEPT ![s] = NoFile]
    /\ sealed' = [sealed EXCEPT ![s] = Null]
    /\ mishaps' = mishaps + 1
    /\ UNCHANGED << tree, mounted, clock >>

EditManifest(s, i) ==
    /\ mishaps < MaxMishaps
    /\ s \in Present
    /\ Body(s).tree[i] # tree[i]
    /\ files' = [files EXCEPT ![s].body.tree[i] = tree[i]]
    /\ mishaps' = mishaps + 1
    /\ UNCHANGED << tree, mounted, clock, sealed >>

EditTree(i, v) ==
    /\ mishaps < MaxMishaps
    /\ v # tree[i]
    /\ tree' = [tree EXCEPT ![i] = v]
    /\ mishaps' = mishaps + 1
    /\ UNCHANGED << mounted, files, clock, sealed >>

\* The outcome file is mounted, or taken away again.
Mount ==
    /\ mounted' = ~mounted
    /\ UNCHANGED << tree, files, clock, mishaps, sealed >>

Tick ==
    /\ clock < MaxClock
    /\ clock' = clock + 1
    /\ UNCHANGED << tree, mounted, files, mishaps, sealed >>

FreezeNext ==
    \/ FreezeAny
    \/ \E s \in Stages : Tear(s) \/ DeleteFile(s)
    \/ \E s \in Stages, i \in Items : EditManifest(s, i)
    \/ \E i \in Items, v \in TreeVersions : EditTree(i, v)
    \/ Mount \/ Tick

FreezeSpec == FreezeInit /\ [][FreezeNext]_freezeVars

-----------------------------------------------------------------------------
(* e5_harness.verify *)

\* The stages that can be read are the first ones.
CompletePrefix == \A s \in Present, t \in Stages : t < s => t \in Present

\* Each names the recorded hash of the one before it, and is not older.
Chained ==
    \A s \in Present \ {0} :
        s - 1 \in Present => /\ Body(s).previous = files[s - 1].hash
                             /\ Body(s).stamp >= Body(s - 1).stamp

\* Mutant: the config document is not hashed again.
Unchanged_NoConfig(s) == \A i \in Items \ {"config"} : Body(s).tree[i] = tree[i]

\* Artifacts, protocol, config and lock still hash to what was recorded.
Unchanged(s) == \A i \in Items : Body(s).tree[i] = tree[i]

RolesHold(s) == "outcome" \in Body(s).roles => s >= UnlockStage

IdentityHolds(s) ==
    Body(s).identity # Null => Body(s).identity = Identity(tree["config"])

\* Nothing recorded, nothing checked.
DisjointnessHolds(s) ==
    Body(s).disjointness # Null => Body(s).disjointness = "PROVEN"

\* The recorded paths are looked at again, as they are now.
StillInaccessible(s) == Body(s).assertion # Null => ~mounted

\* Mutant: a manifest is not compared with its own hash.
SelfHashHolds_Trusted(s) == TRUE

SelfHashHolds(s) == files[s].hash = Body(s)

ChainVerifies ==
    /\ CompletePrefix /\ Chained
    /\ \A s \in Present :
          /\ Unchanged(s) /\ RolesHold(s) /\ IdentityHolds(s)
          /\ DisjointnessHolds(s) /\ StillInaccessible(s) /\ SelfHashHolds(s)

-----------------------------------------------------------------------------
(* Properties *)

\* A chain that verifies froze one study: every stage up to the last was
\* frozen over the protocol, the config, the lock and the artifact that are
\* there now, whatever was edited, deleted and frozen again in between; and
\* nothing torn or missing lies under its last stage.
VerifiedChainIsOneStudy ==
    ChainVerifies =>
        \A s \in Present :
            /\ sealed[s] = tree
            /\ \A t \in 0 .. s : /\ files[t].is = "manifest"
                                 /\ sealed[t] = sealed[s]

\* The model identity is read out of the config that stage 0 freezes, so a
\* chain that verifies can name one only if the config had resolved it before
\* the protocol was frozen: a model qualified at stage 1 comes too late.
ModelPrecedesProtocol ==
    ChainVerifies =>
        \A s \in Present :
            Body(s).identity # Null =>
                /\ Identity(sealed[0]["config"]) = Body(s).identity
                /\ \A t \in Present : Body(t).identity \in {Null, Body(s).identity}
=============================================================================

--------------------------- MODULE Research_proofs ---------------------------
(***************************************************************************)
(* Proofs about the research side.                                         *)
(*                                                                         *)
(* The E5 freeze chain, for any number of stages, items, contents and      *)
(* mishaps.  The inductive invariant ties the hash a stage manifest        *)
(* carries to the tree it was frozen over: a manifest may be edited, torn  *)
(* or deleted, but no edit gives it the hash of another tree, and that is  *)
(* what the verifier compares.                                             *)
(*                                                                         *)
(* What is fetched from the SEC, for any number of processes over one      *)
(* cache, any jobs and deaths anywhere.  One process at most acquires      *)
(* (SecAssumption): scripts/acquire_empirical_corpus.py is started by      *)
(* hand, and two of them would overwrite one manifest.                     *)
(*                                                                         *)
(* The bulk archives, for any plan and any contents, one arriving after    *)
(* another.  What a later archive holds was filed and available later than *)
(* all before (CorpusAssumption): the SEC cuts its archives by quarters of *)
(* filing.  The invariant says that a final label is what an import would  *)
(* give it now; a longer pool of outcomes and reports leaves it alone.     *)
(*                                                                         *)
(* The fitted reference, for any inputs, grids, fits and machines, with    *)
(* commands killed anywhere and inputs edited at any time.  The invariant  *)
(* says what a manifest binds: files of one rebuild, approved with hashes  *)
(* that agree with what it read, but for the inputs edited meanwhile.      *)
(***************************************************************************)
EXTENDS FreezeChain, SecAcquisition, SecCorpus, StudyArtifacts,
        FiniteSetTheorems, WellFoundedInduction, TLAPS

\* What a readable manifest's own hash says, whatever its body says.
Sealed(s) ==
    /\ files[s] = [is |-> "manifest", body |-> files[s].body,
                   hash |-> files[s].hash]
    /\ files[s].hash.tree = sealed[s]
    /\ sealed[s] \in [Items -> TreeVersions]

FreezeInv ==
    /\ tree \in [Items -> TreeVersions]
    /\ DOMAIN files = Stages
    /\ DOMAIN sealed = Stages
    /\ \A s \in Stages : files[s].is = "manifest" => Sealed(s)

LEMMA FreezeInvInit == FreezeInit => FreezeInv
BY DEF FreezeInit, FreezeInv, NoFile

\* A manifest is written with the tree it hashes.
LEMMA FreezeKeeps ==
    ASSUME FreezeInv, NEW s \in Stages, NEW p, NEW id, NEW o, NEW d,
           Freeze(s, p, id, o, d)
    PROVE  FreezeInv'
<1> DEFINE written == Manifest(s, p, id, o, d)
<1>1. /\ files' = [files EXCEPT ![s] =
                      [is |-> "manifest", body |-> written, hash |-> written]]
      /\ sealed' = [sealed EXCEPT ![s] = tree]
      /\ tree' = tree
  BY DEF Freeze
<1>2. written.tree = tree
  BY DEF Manifest
<1> HIDE DEF written
<1>3. /\ tree' \in [Items -> TreeVersions]
      /\ DOMAIN files' = Stages /\ DOMAIN sealed' = Stages
  BY <1>1 DEF FreezeInv
<1>4. ASSUME NEW t \in Stages, files'[t].is = "manifest"
      PROVE  Sealed(t)'
  <2>1. CASE t = s
    <3>1. /\ files'[t] = [is |-> "manifest", body |-> written, hash |-> written]
          /\ sealed'[t] = tree
      BY <1>1, <2>1 DEF FreezeInv
    <3> QED BY <3>1, <1>2 DEF Sealed, FreezeInv
  <2>2. CASE t # s
    <3>1. files'[t] = files[t] /\ sealed'[t] = sealed[t]
      BY <1>1, <2>2 DEF FreezeInv
    <3> QED BY <3>1, <1>4 DEF Sealed, FreezeInv
  <2> QED BY <2>1, <2>2
<1> QED BY <1>3, <1>4 DEF FreezeInv

\* A file that is torn or gone promises nothing.
LEMMA LossKeeps ==
    ASSUME FreezeInv, NEW s \in Stages, Tear(s) \/ DeleteFile(s)
    PROVE  FreezeInv'
<1>1. /\ \/ files' = [files EXCEPT ![s] = TornFile] /\ sealed' = sealed
         \/ files' = [files EXCEPT ![s] = NoFile]
            /\ sealed' = [sealed EXCEPT ![s] = Null]
      /\ tree' = tree
  BY DEF Tear, DeleteFile
<1>2. ASSUME NEW t \in Stages, files'[t].is = "manifest"
      PROVE  Sealed(t)'
  <2>1. t # s
    BY <1>1, <1>2 DEF FreezeInv, TornFile, NoFile
  <2>2. files'[t] = files[t] /\ sealed'[t] = sealed[t]
    BY <1>1, <2>1 DEF FreezeInv
  <2> QED BY <2>2, <1>2 DEF Sealed, FreezeInv
<1>3. DOMAIN files' = Stages /\ DOMAIN sealed' = Stages
  BY <1>1 DEF FreezeInv
<1> QED BY <1>1, <1>2, <1>3 DEF FreezeInv

\* An edit of a manifest leaves the hash it carries.
LEMMA EditKeeps ==
    ASSUME FreezeInv, NEW s \in Stages, NEW i \in Items, EditManifest(s, i)
    PROVE  FreezeInv'
<1>1. /\ files' = [files EXCEPT ![s] =
                      [files[s] EXCEPT !.body =
                          [files[s].body EXCEPT !.tree =
                              [files[s].body.tree EXCEPT ![i] = tree[i]]]]]
      /\ sealed' = sealed /\ tree' = tree
      /\ files[s].is = "manifest"
  BY DEF EditManifest, Present, Body
<1>2. DOMAIN files' = Stages /\ DOMAIN sealed' = Stages
  BY <1>1 DEF FreezeInv
<1>3. ASSUME NEW t \in Stages, files'[t].is = "manifest"
      PROVE  Sealed(t)'
  <2>1. CASE t = s
    <3> DEFINE b == [files[s].body EXCEPT !.tree =
                         [files[s].body.tree EXCEPT ![i] = tree[i]]]
    <3>1. files'[s] = [files[s] EXCEPT !.body = b]
      BY <1>1 DEF FreezeInv
    <3> HIDE DEF b
    <3>2. files[s] = [is |-> "manifest", body |-> files[s].body,
                      hash |-> files[s].hash]
      BY <1>1 DEF FreezeInv, Sealed
    <3>3. files'[s] = [is |-> "manifest", body |-> b, hash |-> files[s].hash]
      BY <3>1, <3>2
    <3>4. files[s].hash.tree = sealed[s] /\ sealed[s] \in [Items -> TreeVersions]
      BY <1>1 DEF FreezeInv, Sealed
    <3> QED BY <1>1, <2>1, <3>3, <3>4 DEF Sealed
  <2>2. CASE t # s
    <3>1. files'[t] = files[t]
      BY <1>1, <2>2 DEF FreezeInv
    <3> QED BY <3>1, <1>1, <1>3 DEF Sealed, FreezeInv
  <2> QED BY <2>1, <2>2
<1> QED BY <1>1, <1>2, <1>3 DEF FreezeInv

LEMMA FreezeInvStep == FreezeInv /\ [FreezeNext]_freezeVars => FreezeInv'
<1> SUFFICES ASSUME FreezeInv, [FreezeNext]_freezeVars PROVE FreezeInv'
  OBVIOUS
<1>1. CASE FreezeAny
  BY <1>1, FreezeKeeps DEF FreezeAny
<1>2. CASE \E s \in Stages : Tear(s) \/ DeleteFile(s)
  BY <1>2, LossKeeps
<1>3. CASE \E s \in Stages, i \in Items : EditManifest(s, i)
  BY <1>3, EditKeeps
<1>4. CASE \E i \in Items, v \in TreeVersions : EditTree(i, v)
  BY <1>4 DEF EditTree, FreezeInv, Sealed
<1>5. CASE Mount \/ Tick
  BY <1>5 DEF Mount, Tick, FreezeInv, Sealed
<1>6. CASE UNCHANGED freezeVars
  BY <1>6 DEF freezeVars, FreezeInv, Sealed
<1> QED BY <1>1, <1>2, <1>3, <1>4, <1>5, <1>6 DEF FreezeNext

THEOREM FreezeInvariant == FreezeSpec => []FreezeInv
BY FreezeInvInit, FreezeInvStep, PTL DEF FreezeSpec

-----------------------------------------------------------------------------
\* In a chain that verifies, each manifest was frozen over the tree as it is.
LEMMA VerifiedStage ==
    ASSUME FreezeInv, ChainVerifies, NEW s \in Present
    PROVE  sealed[s] = tree
<1>1. s \in Stages /\ files[s].is = "manifest"
  BY DEF Present
<1>2. files[s].hash.tree = sealed[s] /\ sealed[s] \in [Items -> TreeVersions]
  BY <1>1 DEF FreezeInv, Sealed
<1>3. files[s].hash = files[s].body
  BY DEF ChainVerifies, SelfHashHolds, Body
<1>4. \A i \in Items : files[s].body.tree[i] = tree[i]
  BY DEF ChainVerifies, Unchanged, Body
<1>5. \A i \in Items : sealed[s][i] = tree[i]
  BY <1>2, <1>3, <1>4
<1> QED BY <1>2, <1>5 DEF FreezeInv

\* And nothing is missing under it.
LEMMA VerifiedPrefix ==
    ASSUME ChainVerifies, NEW s \in Present, NEW t \in 0 .. s
    PROVE  t \in Present
<1>1. s \in Stages /\ LastStage \in Nat
  BY FreezeAssumption DEF Present
<1>2. t \in Stages /\ (t < s \/ t = s)
  BY <1>1 DEF Stages
<1> QED BY <1>2 DEF ChainVerifies, CompletePrefix

\* VerifiedChainIsOneStudy, for any stages, items and number of mishaps: e5_harness
\* verify accepts only a chain frozen over the tree that is there now.
THEOREM VerifiedChainsAreOneStudy == FreezeSpec => []VerifiedChainIsOneStudy
<1>1. FreezeInv => VerifiedChainIsOneStudy
  <2> SUFFICES ASSUME FreezeInv, ChainVerifies, NEW s \in Present
               PROVE  /\ sealed[s] = tree
                      /\ \A t \in 0 .. s : /\ files[t].is = "manifest"
                                           /\ sealed[t] = sealed[s]
    BY DEF VerifiedChainIsOneStudy
  <2>1. sealed[s] = tree
    BY VerifiedStage
  <2>2. ASSUME NEW t \in 0 .. s
        PROVE  files[t].is = "manifest" /\ sealed[t] = sealed[s]
    <3>1. t \in Present
      BY VerifiedPrefix
    <3> QED BY <2>1, <3>1, VerifiedStage DEF Present
  <2> QED BY <2>1, <2>2
<1> QED BY <1>1, FreezeInvariant, PTL

\* ModelPrecedesProtocol: a verified chain names only the model that the config
\* frozen with the protocol had resolved.
THEOREM ModelsPrecedeProtocols == FreezeSpec => []ModelPrecedesProtocol
<1>1. FreezeInv => ModelPrecedesProtocol
  <2> SUFFICES ASSUME FreezeInv, ChainVerifies, NEW s \in Present,
                      Body(s).identity # Null
               PROVE  /\ Identity(sealed[0]["config"]) = Body(s).identity
                      /\ \A t \in Present :
                            Body(t).identity \in {Null, Body(s).identity}
    BY DEF ModelPrecedesProtocol
  <2>1. Body(s).identity = Identity(tree["config"])
    BY DEF ChainVerifies, IdentityHolds
  <2>2. 0 \in 0 .. s
    BY FreezeAssumption DEF Present, Stages
  <2>3. sealed[0] = tree
    BY <2>2, VerifiedPrefix, VerifiedStage
  <2>4. \A t \in Present : Body(t).identity \in {Null, Body(s).identity}
    BY <2>1 DEF ChainVerifies, IdentityHolds
  <2> QED BY <2>1, <2>3, <2>4
<1> QED BY <1>1, FreezeInvariant, PTL

-----------------------------------------------------------------------------
(* What is fetched from the SEC *)

\* What a file can hold.
Contents == {None, CutShort} \cup 1 .. served

\* Where a process can be, and what the files and variables hold.
Steps == {"idle", "lookup", "read_hash", "read_data", "request", "open_data", "fill_data",
          "open_hash", "fill_hash", "fetched", "fill_snapshot", "open_manifest",
          "fill_manifest", "ended"}

SecTypes ==
    /\ served \in Nat \ {0}
    /\ data \in [Keys -> Contents] /\ hash \in [Keys -> Contents]
    /\ snapshots \in [Observations -> Contents] /\ manifest \in [Observations -> Contents]
    /\ torn \in BOOLEAN
    /\ pc \in [Clients -> Steps]
    /\ job \in [Clients -> Nat] /\ \A c \in Clients : job[c] \in 1 .. Len(Jobs[c])
    /\ body \in [Clients -> Contents] /\ expected \in [Clients -> Contents]
    /\ listed \in [Clients -> [Observations -> Contents]]
    /\ crashes \in Nat

\* What a process holds was served, and what it compares with was written whole.
Carrying == {"open_data", "fill_data", "open_hash", "fill_hash", "fetched",
             "fill_snapshot", "open_manifest", "fill_manifest"}
BodiesAreServed ==
    \A c \in Clients :
        /\ pc[c] \in Carrying => body[c] \in 1 .. served
        /\ pc[c] = "read_data" => expected[c] \in 1 .. served

\* Past the lookup an observation is not listed yet.
Acquiring == {"request", "read_hash", "read_data", "open_data", "fill_data", "open_hash",
              "fill_hash", "fetched", "fill_snapshot", "open_manifest"}
Backed(list) ==
    \A o \in Observations :
        list[o] # None => snapshots[o] = list[o] /\ list[o] \in 1 .. served

\* The acquirer's list is the manifest until it writes it, and every entry of
\* either has its snapshot.
ListsAreBacked ==
    /\ \A c \in Clients : pc[c] \in {"fill_snapshot", "open_manifest", "fill_manifest"} =>
          c = Acquirer /\ Observation(c) # NoObservation
    /\ Acquirer \in Clients /\ pc[Acquirer] \in Acquiring /\ Observation(Acquirer) # NoObservation =>
          listed[Acquirer][Observation(Acquirer)] = None
    /\ torn /\ Acquirer \in Clients => pc[Acquirer] \in {"fill_manifest", "idle", "ended"}
    /\ ~torn => Backed(manifest)
    /\ ~torn /\ Acquirer \in Clients /\ pc[Acquirer] # "idle" => listed[Acquirer] = manifest
    /\ Acquirer \in Clients /\ pc[Acquirer] = "open_manifest" => snapshots[Observation(Acquirer)] = body[Acquirer]
    /\ Acquirer \in Clients /\ pc[Acquirer] = "fill_manifest" => torn /\ Backed(listed[Acquirer])

\* While no process has died and the SEC publishes nothing new, whoever left a
\* file of the cache unfinished is still at it.
At1(c, step, k) == pc[c] = step /\ Key(c) = k
Unfinished(k) ==
    /\ data[k] = CutShort => \E c \in Clients : At1(c, "fill_data", k)
    /\ hash[k] = CutShort => \E c \in Clients : At1(c, "fill_hash", k)
    /\ data[k] # None /\ hash[k] = None =>
          \E c \in Clients : At1(c, "fill_data", k) \/ At1(c, "open_hash", k)
CacheIsTended == crashes = 0 /\ served = 1 => \A k \in Keys : Unfinished(k)

SecInv == SecTypes /\ BodiesAreServed /\ ListsAreBacked /\ CacheIsTended

\* The steps of one process.
ClientStep(c) ==
    \/ Start(c) \/ Skip(c) \/ Lookup(c) \/ ReadHash(c) \/ ReadData(c)
    \/ Answered(c) \/ Refused(c) \/ Faulty(c)
    \/ OpenData(c) \/ FillData(c) \/ OpenHash(c) \/ FillHash(c)
    \/ Use(c) \/ OpenSnapshot(c) \/ FillSnapshot(c) \/ OpenManifest(c) \/ FillManifest(c)
    \/ Crash(c)

\* The effect of Advance on the program counters.
Moved(c) ==
    /\ pc' \in [Clients -> Steps] /\ pc'[c] \in {"ended", "lookup"}
    /\ \A d \in Clients : d # c => pc'[d] = pc[d] /\ job'[d] = job[d]
    /\ job' \in [Clients -> Nat]
    /\ \A d \in Clients : job'[d] \in 1 .. Len(Jobs[d])

\* A process is at one of its jobs, and only the acquirer's are about observations.
LEMMA KeysAreKnown ==
    ASSUME SecTypes, NEW c \in Clients
    PROVE  /\ Key(c) \in Keys
           /\ Observation(c) # NoObservation => c = Acquirer /\ Observation(c) \in Observations
<1>1. job[c] \in DOMAIN Jobs[c]
  BY SecAssumption DEF SecTypes
<1>2. Key(c) \in Keys
  <2>1. Key(c) \in {Jobs[c][i].key : i \in DOMAIN Jobs[c]}
    BY <1>1 DEF Key
  <2> QED
    BY <2>1 DEF Keys
<1>3. Observation(c) # NoObservation => Observation(c) \in Observations
  <2>1. Observation(c) \in {Jobs[c][i].observation : i \in DOMAIN Jobs[c]}
    BY <1>1 DEF Observation
  <2>2. Observation(c) \in
          UNION {{Jobs[d][i].observation : i \in DOMAIN Jobs[d]} : d \in Clients}
    BY <2>1
  <2> QED
    BY <2>2 DEF Observations
<1>4. Observation(c) # NoObservation => c = Acquirer
  BY <1>1, SecAssumption DEF Observation
<1> QED
  BY <1>2, <1>3, <1>4

\* Going on to the next job stays within the jobs of the process.
LEMMA Advancing ==
    ASSUME SecTypes, NEW c \in Clients, Advance(c)
    PROVE  Moved(c)
<1>1. /\ Len(Jobs[c]) \in Nat /\ job[c] \in 1 .. Len(Jobs[c])
      /\ pc \in [Clients -> Steps] /\ job \in [Clients -> Nat]
      /\ \A d \in Clients : job[d] \in 1 .. Len(Jobs[d])
  BY SecAssumption DEF SecTypes
<1> DEFINE here == IF job[c] = Len(Jobs[c]) THEN "ended" ELSE "lookup"
           next == IF job[c] = Len(Jobs[c]) THEN job[c] ELSE job[c] + 1
<1>2. pc' = [pc EXCEPT ![c] = here]
  BY <1>1 DEF Advance
<1>3. job' = [job EXCEPT ![c] = next]
  BY <1>1 DEF Advance
<1>4. here \in {"ended", "lookup"} /\ here \in Steps
  BY DEF Steps
<1>5. next \in 1 .. Len(Jobs[c]) /\ next \in Nat
  BY <1>1
<1> HIDE DEF here, next
<1>6. /\ pc' \in [Clients -> Steps] /\ pc'[c] = here
      /\ \A d \in Clients : d # c => pc'[d] = pc[d]
  BY <1>1, <1>2, <1>4
<1>7. /\ job' \in [Clients -> Nat] /\ job'[c] = next
      /\ \A d \in Clients : d # c => job'[d] = job[d]
  BY <1>1, <1>3, <1>5
<1> QED
  BY <1>1, <1>4, <1>5, <1>6, <1>7 DEF Moved

\* Every step keeps the types.
LEMMA TypesKept ==
    ASSUME SecTypes,
           NEW c \in Clients, ClientStep(c)
    PROVE  SecTypes'
<1>a. /\ Key(c) \in Keys
      /\ Observation(c) # NoObservation => Observation(c) \in Observations
  BY KeysAreKnown
<1>b. Len(Jobs[c]) \in Nat \ {0}
  BY SecAssumption
<1>d. Advance(c) => Moved(c)
  BY Advancing
<1>1. CASE Start(c)
  BY <1>1, <1>a, <1>b DEF Start, At, onDisk, SecTypes, Contents, Steps
<1>2. CASE Skip(c)
  BY <1>2, <1>a, <1>b, <1>d DEF Skip, At, onDisk, SecTypes, Contents, Steps, Moved
<1>3. CASE Lookup(c)
  BY <1>3, <1>a, <1>b DEF Lookup, At, onDisk, SecTypes, Contents, Steps
<1>4. CASE ReadHash(c)
  <2>1. UNCHANGED << served, onDisk, body, listed, crashes >>
    BY <1>4 DEF ReadHash
  <2>2. CASE hash[Key(c)] \in {None, CutShort}
    <3>1. Moved(c) /\ expected' = expected
      BY <1>4, <1>d, <2>2 DEF ReadHash
    <3> QED BY <1>a, <1>b, <2>1, <3>1 DEF Moved, onDisk, SecTypes, Contents, Steps
  <2>3. CASE hash[Key(c)] \notin {None, CutShort}
    <3>1. /\ pc' = [pc EXCEPT ![c] = "read_data"] /\ UNCHANGED << job, attempt >>
          /\ expected' = [expected EXCEPT ![c] = hash[Key(c)]]
      BY <1>4, <2>3 DEF ReadHash
    <3> QED BY <1>a, <1>b, <2>1, <2>3, <3>1 DEF onDisk, SecTypes, Contents, Steps
  <2> QED BY <2>2, <2>3
<1>5. CASE ReadData(c)
  BY <1>5, <1>a, <1>b, <1>d DEF ReadData, At, onDisk, SecTypes, Contents, Steps, Moved
<1>6. CASE Answered(c)
  BY <1>6, <1>a, <1>b DEF Answered, At, onDisk, SecTypes, Contents, Steps
<1>7. CASE Refused(c)
  BY <1>7, <1>a, <1>b, <1>d DEF Refused, At, onDisk, SecTypes, Contents, Steps, Moved
<1>8. CASE Faulty(c)
  BY <1>8, <1>a, <1>b, <1>d DEF Faulty, At, onDisk, SecTypes, Contents, Steps, Moved
<1>9. CASE OpenData(c)
  BY <1>9, <1>a, <1>b DEF OpenData, At, onDisk, SecTypes, Contents, Steps
<1>10. CASE FillData(c)
  BY <1>10, <1>a, <1>b DEF FillData, At, onDisk, SecTypes, Contents, Steps
<1>11. CASE OpenHash(c)
  BY <1>11, <1>a, <1>b DEF OpenHash, At, onDisk, SecTypes, Contents, Steps
<1>12. CASE FillHash(c)
  BY <1>12, <1>a, <1>b DEF FillHash, At, onDisk, SecTypes, Contents, Steps
<1>13. CASE Use(c)
  BY <1>13, <1>a, <1>b, <1>d DEF Use, At, onDisk, SecTypes, Contents, Steps, Moved
<1>14. CASE OpenSnapshot(c)
  BY <1>14, <1>a, <1>b DEF OpenSnapshot, At, onDisk, SecTypes, Contents, Steps
<1>15. CASE FillSnapshot(c)
  BY <1>15, <1>a, <1>b DEF FillSnapshot, At, onDisk, SecTypes, Contents, Steps
<1>16. CASE OpenManifest(c)
  BY <1>16, <1>a, <1>b DEF OpenManifest, At, onDisk, SecTypes, Contents, Steps
<1>17. CASE FillManifest(c)
  BY <1>17, <1>a, <1>b, <1>d DEF FillManifest, At, onDisk, SecTypes, Contents, Steps, Moved
<1>18. CASE Crash(c)
  BY <1>18, <1>a, <1>b DEF Crash, At, onDisk, SecTypes, Contents, Steps
<1> QED
  BY <1>1, <1>2, <1>3, <1>4, <1>5, <1>6, <1>7, <1>8, <1>9, <1>10, <1>11, <1>12, <1>13, <1>14, <1>15, <1>16, <1>17, <1>18 DEF ClientStep

\* A payload is taken from the SEC's answer, or from the cache when it is the one
\* whose hash was written whole.
LEMMA BodiesKept ==
    ASSUME SecTypes, BodiesAreServed,
           NEW c \in Clients, ClientStep(c)
    PROVE  BodiesAreServed'
<1>a. /\ Key(c) \in Keys
      /\ Observation(c) # NoObservation => c = Acquirer /\ Observation(c) \in Observations
  BY KeysAreKnown
<1>d. Advance(c) => Moved(c)
  BY Advancing
<1>1. CASE Start(c)
  BY <1>1, <1>a DEF Start, At, onDisk, SecTypes, Contents,
     Steps, BodiesAreServed, Carrying, None, CutShort
<1>2. CASE Skip(c)
  BY <1>2, <1>a, <1>d DEF Skip, At, onDisk, SecTypes, Contents,
     Steps, BodiesAreServed, Carrying, None, CutShort, Moved
<1>3. CASE Lookup(c)
  BY <1>3, <1>a DEF Lookup, At, onDisk, SecTypes, Contents,
     Steps, BodiesAreServed, Carrying, None, CutShort
<1>4. CASE ReadHash(c)
  <2>1. UNCHANGED << served, onDisk, body, listed, crashes >>
    BY <1>4 DEF ReadHash
  <2>2. CASE hash[Key(c)] \in {None, CutShort}
    <3>1. Moved(c) /\ expected' = expected
      BY <1>4, <1>d, <2>2 DEF ReadHash
    <3> QED BY <1>a, <2>1, <3>1 DEF Moved, onDisk, SecTypes, Contents, Steps, BodiesAreServed,
                                       Carrying, None, CutShort
  <2>3. CASE hash[Key(c)] \notin {None, CutShort}
    <3>1. /\ pc' = [pc EXCEPT ![c] = "read_data"] /\ UNCHANGED << job, attempt >>
          /\ expected' = [expected EXCEPT ![c] = hash[Key(c)]]
      BY <1>4, <2>3 DEF ReadHash
    <3> QED BY <1>a, <2>1, <2>3, <3>1 DEF onDisk, SecTypes, Contents, Steps, BodiesAreServed,
                                       Carrying, None, CutShort
  <2> QED BY <2>2, <2>3
<1>5. CASE ReadData(c)
  BY <1>5, <1>a, <1>d DEF ReadData, At, onDisk, SecTypes, Contents,
     Steps, BodiesAreServed, Carrying, None, CutShort, Moved
<1>6. CASE Answered(c)
  BY <1>6, <1>a DEF Answered, At, onDisk, SecTypes, Contents,
     Steps, BodiesAreServed, Carrying, None, CutShort
<1>7. CASE Refused(c)
  BY <1>7, <1>a, <1>d DEF Refused, At, onDisk, SecTypes, Contents,
     Steps, BodiesAreServed, Carrying, None, CutShort, Moved
<1>8. CASE Faulty(c)
  BY <1>8, <1>a, <1>d DEF Faulty, At, onDisk, SecTypes, Contents,
     Steps, BodiesAreServed, Carrying, None, CutShort, Moved
<1>9. CASE OpenData(c)
  BY <1>9, <1>a DEF OpenData, At, onDisk, SecTypes, Contents,
     Steps, BodiesAreServed, Carrying, None, CutShort
<1>10. CASE FillData(c)
  BY <1>10, <1>a DEF FillData, At, onDisk, SecTypes, Contents,
     Steps, BodiesAreServed, Carrying, None, CutShort
<1>11. CASE OpenHash(c)
  BY <1>11, <1>a DEF OpenHash, At, onDisk, SecTypes, Contents,
     Steps, BodiesAreServed, Carrying, None, CutShort
<1>12. CASE FillHash(c)
  BY <1>12, <1>a DEF FillHash, At, onDisk, SecTypes, Contents,
     Steps, BodiesAreServed, Carrying, None, CutShort
<1>13. CASE Use(c)
  BY <1>13, <1>a, <1>d DEF Use, At, onDisk, SecTypes, Contents,
     Steps, BodiesAreServed, Carrying, None, CutShort, Moved
<1>14. CASE OpenSnapshot(c)
  BY <1>14, <1>a DEF OpenSnapshot, At, onDisk, SecTypes, Contents,
     Steps, BodiesAreServed, Carrying, None, CutShort
<1>15. CASE FillSnapshot(c)
  BY <1>15, <1>a DEF FillSnapshot, At, onDisk, SecTypes, Contents,
     Steps, BodiesAreServed, Carrying, None, CutShort
<1>16. CASE OpenManifest(c)
  BY <1>16, <1>a DEF OpenManifest, At, onDisk, SecTypes, Contents,
     Steps, BodiesAreServed, Carrying, None, CutShort
<1>17. CASE FillManifest(c)
  BY <1>17, <1>a, <1>d DEF FillManifest, At, onDisk, SecTypes, Contents,
     Steps, BodiesAreServed, Carrying, None, CutShort, Moved
<1>18. CASE Crash(c)
  BY <1>18, <1>a DEF Crash, At, onDisk, SecTypes, Contents,
     Steps, BodiesAreServed, Carrying, None, CutShort
<1> QED
  BY <1>1, <1>2, <1>3, <1>4, <1>5, <1>6, <1>7, <1>8, <1>9, <1>10, <1>11, <1>12, <1>13, <1>14, <1>15, <1>16, <1>17, <1>18 DEF ClientStep

\* An observation enters the acquirer's list with its snapshot written, and a
\* snapshot is opened only for an observation no list has.
LEMMA ListsKept ==
    ASSUME SecTypes, BodiesAreServed, ListsAreBacked,
           NEW c \in Clients, ClientStep(c)
    PROVE  ListsAreBacked'
<1>a. /\ Key(c) \in Keys
      /\ Observation(c) # NoObservation => c = Acquirer /\ Observation(c) \in Observations
  BY KeysAreKnown
<1>d. Advance(c) => Moved(c)
  BY Advancing
<1>e. \A d \in Clients : job'[d] = job[d] => Key(d)' = Key(d) /\ Observation(d)' = Observation(d)
  BY DEF Key, Observation
<1>1. CASE Start(c)
  BY <1>1, <1>a, <1>e DEF Start, At, onDisk, SecTypes, Contents,
     Steps, BodiesAreServed, Carrying, ListsAreBacked, Backed, Acquiring, None, CutShort
<1>2. CASE Skip(c)
  BY <1>2, <1>a, <1>e, <1>d DEF Skip, At, onDisk, SecTypes, Contents,
     Steps, BodiesAreServed, Carrying, ListsAreBacked, Backed, Acquiring, None, CutShort, Moved
<1>3. CASE Lookup(c)
  BY <1>3, <1>a, <1>e DEF Lookup, At, onDisk, SecTypes, Contents,
     Steps, BodiesAreServed, Carrying, ListsAreBacked, Backed, Acquiring, None, CutShort
<1>4. CASE ReadHash(c)
  BY <1>4, <1>a, <1>e, <1>d DEF ReadHash, At, onDisk, SecTypes, Contents,
     Steps, BodiesAreServed, Carrying, ListsAreBacked, Backed, Acquiring, None, CutShort, Moved
<1>5. CASE ReadData(c)
  BY <1>5, <1>a, <1>e, <1>d DEF ReadData, At, onDisk, SecTypes, Contents,
     Steps, BodiesAreServed, Carrying, ListsAreBacked, Backed, Acquiring, None, CutShort, Moved
<1>6. CASE Answered(c)
  BY <1>6, <1>a, <1>e DEF Answered, At, onDisk, SecTypes, Contents,
     Steps, BodiesAreServed, Carrying, ListsAreBacked, Backed, Acquiring, None, CutShort
<1>7. CASE Refused(c)
  BY <1>7, <1>a, <1>e, <1>d DEF Refused, At, onDisk, SecTypes, Contents,
     Steps, BodiesAreServed, Carrying, ListsAreBacked, Backed, Acquiring, None, CutShort, Moved
<1>8. CASE Faulty(c)
  BY <1>8, <1>a, <1>e, <1>d DEF Faulty, At, onDisk, SecTypes, Contents,
     Steps, BodiesAreServed, Carrying, ListsAreBacked, Backed, Acquiring, None, CutShort, Moved
<1>9. CASE OpenData(c)
  BY <1>9, <1>a, <1>e DEF OpenData, At, onDisk, SecTypes, Contents,
     Steps, BodiesAreServed, Carrying, ListsAreBacked, Backed, Acquiring, None, CutShort
<1>10. CASE FillData(c)
  BY <1>10, <1>a, <1>e DEF FillData, At, onDisk, SecTypes, Contents,
     Steps, BodiesAreServed, Carrying, ListsAreBacked, Backed, Acquiring, None, CutShort
<1>11. CASE OpenHash(c)
  BY <1>11, <1>a, <1>e DEF OpenHash, At, onDisk, SecTypes, Contents,
     Steps, BodiesAreServed, Carrying, ListsAreBacked, Backed, Acquiring, None, CutShort
<1>12. CASE FillHash(c)
  BY <1>12, <1>a, <1>e DEF FillHash, At, onDisk, SecTypes, Contents,
     Steps, BodiesAreServed, Carrying, ListsAreBacked, Backed, Acquiring, None, CutShort
<1>13. CASE Use(c)
  BY <1>13, <1>a, <1>e, <1>d DEF Use, At, onDisk, SecTypes, Contents,
     Steps, BodiesAreServed, Carrying, ListsAreBacked, Backed, Acquiring, None, CutShort, Moved
<1>14. CASE OpenSnapshot(c)
  BY <1>14, <1>a, <1>e DEF OpenSnapshot, At, onDisk, SecTypes, Contents,
     Steps, BodiesAreServed, Carrying, ListsAreBacked, Backed, Acquiring, None, CutShort
<1>15. CASE FillSnapshot(c)
  BY <1>15, <1>a, <1>e DEF FillSnapshot, At, onDisk, SecTypes, Contents,
     Steps, BodiesAreServed, Carrying, ListsAreBacked, Backed, Acquiring, None, CutShort
<1>16. CASE OpenManifest(c)
  BY <1>16, <1>a, <1>e DEF OpenManifest, At, onDisk, SecTypes, Contents,
     Steps, BodiesAreServed, Carrying, ListsAreBacked, Backed, Acquiring, None, CutShort
<1>17. CASE FillManifest(c)
  BY <1>17, <1>a, <1>e, <1>d DEF FillManifest, At, onDisk, SecTypes, Contents,
     Steps, BodiesAreServed, Carrying, ListsAreBacked, Backed, Acquiring, None, CutShort, Moved
<1>18. CASE Crash(c)
  BY <1>18, <1>a, <1>e DEF Crash, At, onDisk, SecTypes, Contents,
     Steps, BodiesAreServed, Carrying, ListsAreBacked, Backed, Acquiring, None, CutShort
<1> QED
  BY <1>1, <1>2, <1>3, <1>4, <1>5, <1>6, <1>7, <1>8, <1>9, <1>10, <1>11, <1>12, <1>13, <1>14, <1>15, <1>16, <1>17, <1>18 DEF ClientStep

\* Who opens a file of the cache is at it until it is filled.
LEMMA CacheKept ==
    ASSUME SecTypes, BodiesAreServed, CacheIsTended,
           NEW c \in Clients, ClientStep(c)
    PROVE  CacheIsTended'
<1>a. /\ Key(c) \in Keys
      /\ Observation(c) # NoObservation => c = Acquirer /\ Observation(c) \in Observations
  BY KeysAreKnown
<1>d. Advance(c) => Moved(c)
  BY Advancing
<1>e. \A d \in Clients : job'[d] = job[d] => Key(d)' = Key(d) /\ Observation(d)' = Observation(d)
  BY DEF Key, Observation
<1> DEFINE Aside == /\ UNCHANGED << served, data, hash, crashes >>
                    /\ pc[c] \notin {"fill_data", "open_hash", "fill_hash"}
                    /\ \A d \in Clients : d # c => pc'[d] = pc[d] /\ job'[d] = job[d]
<1>f. Aside => CacheIsTended'
  <2> SUFFICES ASSUME Aside, crashes = 0, served = 1, NEW k \in Keys
               PROVE  Unfinished(k)'
    BY DEF CacheIsTended
  <2>1. Unfinished(k)
    BY DEF CacheIsTended
  <2>2. \A d \in Clients, step \in {"fill_data", "open_hash", "fill_hash"} :
          At1(d, step, k) => At1(d, step, k)'
    BY <1>e DEF At1
  <2> QED
    BY <2>1, <2>2 DEF Unfinished
<1> HIDE DEF Aside
<1>1. CASE Start(c)
  BY <1>1, <1>f DEF Aside, Start, At, onDisk, SecTypes
<1>2. CASE Skip(c)
  BY <1>2, <1>f, <1>d DEF Aside, Skip, At, onDisk, SecTypes, Moved
<1>3. CASE Lookup(c)
  BY <1>3, <1>f DEF Aside, Lookup, At, onDisk, SecTypes
<1>4. CASE ReadHash(c)
  BY <1>4, <1>f, <1>d DEF Aside, ReadHash, At, onDisk, SecTypes, Moved
<1>5. CASE ReadData(c)
  BY <1>5, <1>f, <1>d DEF Aside, ReadData, At, onDisk, SecTypes, Moved
<1>6. CASE Answered(c)
  BY <1>6, <1>f DEF Aside, Answered, At, onDisk, SecTypes
<1>7. CASE Refused(c)
  BY <1>7, <1>f, <1>d DEF Aside, Refused, At, onDisk, SecTypes, Moved
<1>8. CASE Faulty(c)
  BY <1>8, <1>f, <1>d DEF Aside, Faulty, At, onDisk, SecTypes, Moved
<1>9. CASE OpenData(c)
  BY <1>9, <1>a, <1>e DEF OpenData, At, onDisk, SecTypes, Contents,
     BodiesAreServed, Carrying, CacheIsTended, Unfinished, At1, None, CutShort
<1>10. CASE FillData(c)
  BY <1>10, <1>a, <1>e DEF FillData, At, onDisk, SecTypes, Contents,
     BodiesAreServed, Carrying, CacheIsTended, Unfinished, At1, None, CutShort
<1>11. CASE OpenHash(c)
  BY <1>11, <1>a, <1>e DEF OpenHash, At, onDisk, SecTypes, Contents,
     BodiesAreServed, Carrying, CacheIsTended, Unfinished, At1, None, CutShort
<1>12. CASE FillHash(c)
  BY <1>12, <1>a, <1>e DEF FillHash, At, onDisk, SecTypes, Contents,
     BodiesAreServed, Carrying, CacheIsTended, Unfinished, At1, None, CutShort
<1>13. CASE Use(c)
  BY <1>13, <1>f, <1>d DEF Aside, Use, At, onDisk, SecTypes, Moved
<1>14. CASE OpenSnapshot(c)
  BY <1>14, <1>f DEF Aside, OpenSnapshot, At, onDisk, SecTypes
<1>15. CASE FillSnapshot(c)
  BY <1>15, <1>f DEF Aside, FillSnapshot, At, onDisk, SecTypes
<1>16. CASE OpenManifest(c)
  BY <1>16, <1>f DEF Aside, OpenManifest, At, onDisk, SecTypes
<1>17. CASE FillManifest(c)
  BY <1>17, <1>f, <1>d DEF Aside, FillManifest, At, onDisk, SecTypes, Moved
<1>18. CASE Crash(c)
  BY <1>18, <1>a, <1>e DEF Crash, At, onDisk, SecTypes, Contents,
     BodiesAreServed, Carrying, CacheIsTended, Unfinished, At1, None, CutShort
<1> QED
  BY <1>1, <1>2, <1>3, <1>4, <1>5, <1>6, <1>7, <1>8, <1>9, <1>10, <1>11, <1>12, <1>13, <1>14, <1>15, <1>16, <1>17, <1>18 DEF ClientStep

\* The SEC publishes more; nothing published is withdrawn.
LEMMA PublishKeeps == ASSUME SecInv, Publish PROVE SecInv'
<1>0. /\ served \in Nat \ {0} /\ served' = served + 1
      /\ UNCHANGED << data, hash, snapshots, manifest, torn, pc, job, attempt, body, expected,
                      listed, crashes >>
  BY DEF Publish, SecInv, SecTypes, onDisk, local
<1>1. SecTypes'
  <2>1. \A v \in Contents : v \in Contents'
    BY <1>0 DEF Contents, None, CutShort
  <2> QED
    BY <1>0, <2>1 DEF SecInv, SecTypes
<1>2. BodiesAreServed'
  BY <1>0 DEF SecInv, BodiesAreServed
<1>3. ListsAreBacked'
  BY <1>0 DEF SecInv, ListsAreBacked, Backed, Observation
<1>4. CacheIsTended'
  BY <1>0 DEF CacheIsTended
<1> QED
  BY <1>1, <1>2, <1>3, <1>4 DEF SecInv

\* The cache and the corpus start empty.
LEMMA SecInvInit == ASSUME SecInit PROVE SecInv
<1>1. SecTypes
  <2>0. served \in Nat \ {0} /\ crashes \in Nat /\ torn = FALSE
    BY DEF SecInit
  <2>1. None \in Contents
    BY DEF Contents
  <2>2. /\ data \in [Keys -> Contents] /\ hash \in [Keys -> Contents]
        /\ snapshots \in [Observations -> Contents] /\ manifest \in [Observations -> Contents]
    BY <2>1 DEF SecInit
  <2>3. /\ body \in [Clients -> Contents] /\ expected \in [Clients -> Contents]
        /\ listed \in [Clients -> [Observations -> Contents]]
    BY <2>1, <2>2 DEF SecInit
  <2>4. pc \in [Clients -> Steps]
    BY DEF SecInit, Steps
  <2>5. job \in [Clients -> Nat] /\ \A c \in Clients : job[c] \in 1 .. Len(Jobs[c])
    BY SecAssumption DEF SecInit
  <2> QED
    BY <2>0, <2>1, <2>2, <2>3, <2>4, <2>5 DEF SecTypes
<1>2. BodiesAreServed /\ ListsAreBacked
  BY DEF SecInit, BodiesAreServed, Carrying, ListsAreBacked, Backed, Acquiring
<1>3. CacheIsTended
  BY DEF SecInit, CacheIsTended, Unfinished, None, CutShort
<1> QED
  BY <1>1, <1>2, <1>3 DEF SecInv

\* No step of any process breaks the invariant.
LEMMA SecInvStep ==
    ASSUME SecInv, [SecNext]_secVars
    PROVE  SecInv'
<1>1. CASE Publish
  BY <1>1, PublishKeeps
<1>2. CASE \E c \in Clients : ClientStep(c)
  BY <1>2, TypesKept, BodiesKept, ListsKept, CacheKept DEF SecInv
<1>3. CASE UNCHANGED secVars
  BY <1>3 DEF secVars, onDisk, local, SecInv, SecTypes, Contents, BodiesAreServed,
     ListsAreBacked, Backed, Observation, CacheIsTended, Unfinished, At1, Key
<1> QED
  BY <1>1, <1>2, <1>3 DEF SecNext, ClientStep

\* For any number of processes over one cache, one of which acquires, with deaths
\* anywhere: what is used was once sent in full, a listed snapshot is whole and
\* the one it was listed for, and a cache nobody died over can be read again.
THEOREM AcquiredIsAlwaysAuthentic == SecSpec => []AcquiredIsAuthentic
<1>1. ASSUME SecInv PROVE AcquiredIsAuthentic
  <2>1. \A c \in Clients : pc[c] = "fetched" => body[c] \in 1 .. served
    BY <1>1 DEF SecInv, BodiesAreServed, Carrying
  <2>2. \A o \in Observations : ~torn /\ manifest[o] # None =>
            snapshots[o] = manifest[o] /\ manifest[o] \in 1 .. served
    BY <1>1 DEF SecInv, ListsAreBacked, Backed
  <2>3. Resting /\ crashes = 0 /\ served = 1 => \A k \in Keys : data[k] # None => Readable(k)
    <3> SUFFICES ASSUME Resting, crashes = 0, served = 1, NEW k \in Keys, data[k] # None
                 PROVE  Readable(k)
      OBVIOUS
    <3>1. Unfinished(k)
      BY <1>1 DEF SecInv, CacheIsTended
    <3>2. data[k] # CutShort /\ hash[k] # CutShort /\ hash[k] # None
      BY <3>1 DEF Unfinished, At1, Resting
    <3>3. data[k] = 1 /\ hash[k] = 1
      BY <1>1, <3>2 DEF SecInv, SecTypes, Contents
    <3> QED
      BY <3>3, SecAssumption DEF Readable, Published
  <2> QED
    BY <2>1, <2>2, <2>3 DEF AcquiredIsAuthentic
<1>2. SecInit => SecInv
  BY SecInvInit
<1>3. SecInv /\ [SecNext]_secVars => SecInv'
  BY SecInvStep
<1> QED
  BY <1>1, <1>2, <1>3, PTL DEF SecSpec

-----------------------------------------------------------------------------
(* The bulk archives                                                        *)

\* Filings in their places: finitely many, no two in one.
Placed(S) ==
    /\ IsFiniteSet(S)
    /\ \A s \in S : /\ s.archive \in Nat /\ s.row \in Nat
                    /\ s.filing.filed \in Nat /\ s.filing.accepted \in Nat
    /\ \A s, t \in S : s.archive = t.archive /\ s.row = t.row => s = t

\* Filings S, and more that were all filed, and available, later.
Extended(S, T) ==
    /\ Placed(T) /\ S \subseteq T
    /\ \A s \in S, t \in T \ S :
          /\ s.filing.filed < t.filing.filed
          /\ Available(s.filing) < Available(t.filing)
          /\ s.filing.accn # t.filing.accn

\* A set of numbers that is not empty has a least one.
LEMMA LeastNatural ==
  ASSUME NEW T, T \subseteq Nat, T # {}
  PROVE  \E x \in T : \A y \in T : x <= y
<1> DEFINE R == OpToRel(<, Nat)
<1>1. \E x \in T : \A y \in T : ~ (<< y, x >> \in R)
  BY NatLessThanWellFounded, WFMin
<1>2. \A x, y \in Nat : y < x => << y, x >> \in R
  BY DEF OpToRel
<1> HIDE DEF R
<1>3. PICK x \in T : \A y \in T : ~ (<< y, x >> \in R)
  BY <1>1
<1>4. ASSUME NEW y \in T PROVE x <= y
  <2>1. x \in Nat /\ y \in Nat /\ ~ (<< y, x >> \in R)
    BY <1>3
  <2>2. ~ (y < x)
    BY <2>1, <1>2
  <2> QED BY <2>1, <2>2
<1> QED
  BY <1>4

\* The order of the filings is strict and tells any two of them apart.
LEMMA FiledInOrder ==
  ASSUME NEW S, Placed(S)
  PROVE  /\ \A s \in S : ~FiledFirst(s, s)
         /\ \A s, t \in S : s # t => FiledFirst(s, t) \/ FiledFirst(t, s)
         /\ \A s, t \in S : FiledFirst(s, t) => ~FiledFirst(t, s)
         /\ \A s, t, u \in S : FiledFirst(s, t) /\ FiledFirst(t, u) => FiledFirst(s, u)
BY DEF Placed, FiledFirst

\* Among any filings one is first, the one with the fewest before it.
LEMMA OriginalIs ==
  ASSUME NEW T, Placed(T), NEW P \in SUBSET T, P # {}
  PROVE  Original(P) \in P /\ \A t \in P \ {Original(P)} : FiledFirst(Original(P), t)
<1> DEFINE before(s) == {t \in P : FiledFirst(t, s)}
           counts == {Cardinality(before(s)) : s \in P}
<1>1. ASSUME NEW s \in P PROVE IsFiniteSet(before(s)) /\ Cardinality(before(s)) \in Nat
  BY FS_Subset, FS_CardinalityType DEF Placed
<1>2. counts \subseteq Nat /\ counts # {}
  BY <1>1
<1>3. PICK n \in counts : \A m \in counts : n <= m
  BY <1>2, LeastNatural
<1>4. PICK s \in P : n = Cardinality(before(s))
  BY <1>3
<1>5. ASSUME NEW t \in P, FiledFirst(t, s) PROVE FALSE
  <2>1. /\ before(t) \subseteq before(s) /\ t \in before(s) /\ t \notin before(t)
    BY <1>5, FiledInOrder
  <2>2. Cardinality(before(t)) \in counts
    BY <1>5
  <2> HIDE DEF before, counts
  <2>3. /\ Cardinality(before(t)) <= Cardinality(before(s))
        /\ Cardinality(before(t)) # Cardinality(before(s))
    BY <1>1, <2>1, FS_Subset
  <2>4. Cardinality(before(s)) <= Cardinality(before(t))
    BY <1>3, <1>4, <2>2
  <2>5. Cardinality(before(s)) \in Nat /\ Cardinality(before(t)) \in Nat
    BY <1>1
  <2> QED BY <2>3, <2>4, <2>5
<1>6. \A t \in P \ {s} : FiledFirst(s, t)
  BY <1>5, FiledInOrder
<1> QED
  BY <1>6 DEF Original

\* What is filed later does not come first.
LEMMA SameOriginal ==
  ASSUME NEW S, NEW T, Extended(S, T), NEW P \in SUBSET S, P # {},
         NEW Q \in SUBSET T, P \subseteq Q, Q \ P \subseteq T \ S
  PROVE  Original(Q) = Original(P)
<1>1. Placed(T) /\ P \subseteq T /\ Q # {}
  BY DEF Extended
<1>2. Original(P) \in P /\ \A t \in P \ {Original(P)} : FiledFirst(Original(P), t)
  BY <1>1, OriginalIs
<1>3. Original(Q) \in Q /\ \A t \in Q \ {Original(Q)} : FiledFirst(Original(Q), t)
  BY <1>1, OriginalIs
<1>4. \A t \in Q \ {Original(P)} : FiledFirst(Original(P), t)
  <2>1. \A t \in Q \ P : Original(P).filing.filed < t.filing.filed
    BY <1>2 DEF Extended
  <2>2. \A t \in Q \ P : FiledFirst(Original(P), t)
    BY <2>1 DEF FiledFirst
  <2> QED BY <1>2, <2>2
<1>5. \A s, t \in T : FiledFirst(s, t) => ~FiledFirst(t, s)
  BY <1>1, FiledInOrder
<1> QED
  BY <1>1, <1>2, <1>3, <1>4, <1>5

\* An observation is made of the original filing, and stays.
LEMMA SameObservation ==
  ASSUME NEW S, NEW T, Extended(S, T), NEW company, NEW fy, Annual(S, company, fy) # {}
  PROVE  /\ Annual(T, company, fy) # {}
         /\ NumericObservation(T, company, fy) = NumericObservation(S, company, fy)
<1> DEFINE P == Annual(S, company, fy)
           Q == Annual(T, company, fy)
<1>1. /\ P \in SUBSET S /\ Q \in SUBSET T
      /\ P \subseteq Q /\ Q \ P \subseteq T \ S
  BY DEF Annual, Extended
<1> HIDE DEF P, Q
<1>2. Original(Q) = Original(P)
  <2>1. P # {}
    BY DEF P
  <2> QED BY <1>1, <2>1, SameOriginal
<1>3. Q # {}
  BY <1>1 DEF P
<1>4. Original(Annual(T, company, fy)) = Original(Annual(S, company, fy))
  BY <1>2 DEF P, Q
<1> QED
  BY <1>3, <1>4 DEF NumericObservation, Q

\* A filing is available on some day.
LEMMA AvailableIs ==
  ASSUME NEW f, f.filed \in Nat, f.accepted \in Nat
  PROVE  Available(f) \in Nat
BY DEF Available

\* Of an observation: its company and its year, and its original filing.
LEMMA ObservationIs ==
  ASSUME NEW T, Placed(T), NEW company, NEW fy, Annual(T, company, fy) # {}
  PROVE  LET x == NumericObservation(T, company, fy)  s == Original(Annual(T, company, fy)) IN
         /\ x.company = company /\ x.fy = fy /\ x.cutoff \in Nat
         /\ s \in T /\ s \in Annual(T, company, fy) /\ x.cutoff = Available(s.filing)
<1>1. Annual(T, company, fy) \in SUBSET T
  BY DEF Annual
<1>2. Original(Annual(T, company, fy)) \in Annual(T, company, fy)
  BY <1>1, OriginalIs
<1>3. Available(Original(Annual(T, company, fy)).filing) \in Nat
  BY <1>1, <1>2, AvailableIs DEF Placed
<1> QED
  BY <1>1, <1>2, <1>3 DEF NumericObservation

\* The pool of outcomes keeps what it has; what is new is available later.
Pool(A, B) ==
    /\ A \subseteq B
    /\ \A x \in B : x.cutoff \in Nat
    /\ \A x, y \in B : x.company = y.company /\ x.fy = y.fy => x = y
    /\ \A x \in A, y \in B \ A : x.cutoff < y.cutoff

\* An outcome is an observation of a company of the plan and a year with filings.
LEMMA OutcomesAre ==
  ASSUME NEW T, Placed(T), NEW x
  PROVE  x \in AnnualOutcomes(T) <=>
            \E c \in Companies : \E fy : /\ Annual(T, c, fy) # {}
                                         /\ x = NumericObservation(T, c, fy)
<1> DEFINE keys == {<< s.filing.company, s.filing.fy >> :
                      s \in {y \in T : y.filing.form = "10-K" /\ y.filing.company \in Companies}}
<1>1. ASSUME NEW k \in keys PROVE k[1] \in Companies /\ Annual(T, k[1], k[2]) # {}
  BY DEF Annual
<1>2. ASSUME NEW c \in Companies, NEW fy, Annual(T, c, fy) # {} PROVE << c, fy >> \in keys
  BY <1>2 DEF Annual
<1>3. x \in AnnualOutcomes(T) <=> \E k \in keys : x = NumericObservation(T, k[1], k[2])
  BY <1>1 DEF AnnualOutcomes, NumericCorpus
<1> HIDE DEF keys
<1>4. ASSUME NEW c \in Companies, NEW fy, Annual(T, c, fy) # {}, x = NumericObservation(T, c, fy)
      PROVE  \E k \in keys : x = NumericObservation(T, k[1], k[2])
  <2>1. << c, fy >> \in keys /\ << c, fy >>[1] = c /\ << c, fy >>[2] = fy
    BY <1>2, <1>4
  <2> QED BY <1>4, <2>1
<1> QED
  BY <1>1, <1>3, <1>4

\* A filing of a new year, or of a new company, comes after all there were; a
\* restatement of an old year changes nothing.
LEMMA PoolGrows ==
  ASSUME NEW S, NEW T, Extended(S, T), Placed(S)
  PROVE  Pool(AnnualOutcomes(S), AnnualOutcomes(T))
<1> DEFINE A == AnnualOutcomes(S)
           B == AnnualOutcomes(T)
<1>1. Placed(T)
  BY DEF Extended
<1>2. ASSUME NEW x \in A PROVE x \in B
  <2>0. PICK c \in Companies : \E fy : Annual(S, c, fy) # {} /\ x = NumericObservation(S, c, fy)
    BY <1>2, OutcomesAre
  <2>1. PICK fy : Annual(S, c, fy) # {} /\ x = NumericObservation(S, c, fy)
    BY <2>0
  <2>2. Annual(T, c, fy) # {} /\ x = NumericObservation(T, c, fy)
    BY <2>1, SameObservation
  <2> QED BY <1>1, <2>2, OutcomesAre
<1>3. ASSUME NEW x \in B
      PROVE  /\ x.cutoff \in Nat /\ x.company \in Companies
             /\ Annual(T, x.company, x.fy) # {}
             /\ x = NumericObservation(T, x.company, x.fy)
  <2>0. PICK c \in Companies : \E fy : Annual(T, c, fy) # {} /\ x = NumericObservation(T, c, fy)
    BY <1>1, <1>3, OutcomesAre
  <2>1. PICK fy : Annual(T, c, fy) # {} /\ x = NumericObservation(T, c, fy)
    BY <2>0
  <2>2. x.company = c /\ x.fy = fy /\ x.cutoff \in Nat
    BY <1>1, <2>1, ObservationIs
  <2> QED BY <2>1, <2>2
<1>4. ASSUME NEW x \in A, NEW y \in B \ A PROVE x.cutoff < y.cutoff
  <2>0. PICK c \in Companies : \E fy : Annual(S, c, fy) # {} /\ x = NumericObservation(S, c, fy)
    BY <1>4, OutcomesAre
  <2>1. PICK fy : Annual(S, c, fy) # {} /\ x = NumericObservation(S, c, fy)
    BY <2>0
  <2>2. PICK s \in S : x.cutoff = Available(s.filing)
    BY <2>1, ObservationIs
  <2>3. Annual(S, y.company, y.fy) = {}
    <3>1. CASE Annual(S, y.company, y.fy) # {}
      <4>1. y = NumericObservation(S, y.company, y.fy)
        BY <1>3, <1>4, <3>1, SameObservation
      <4>2. y \in A
        BY <1>3, <1>4, <3>1, <4>1, OutcomesAre
      <4> QED BY <1>4, <4>2
    <3> QED BY <3>1
  <2>4. PICK t \in T : t \in Annual(T, y.company, y.fy) /\ y.cutoff = Available(t.filing)
    BY <1>1, <1>3, <1>4, ObservationIs
  <2>5. t \notin S
    BY <2>3, <2>4 DEF Annual
  <2> QED BY <2>2, <2>4, <2>5 DEF Extended
<1> HIDE DEF A, B
<1>5. \A x, y \in B : x.company = y.company /\ x.fy = y.fy => x = y
  BY <1>3
<1>6. Pool(A, B)
  BY <1>2, <1>3, <1>4, <1>5 DEF Pool
<1> QED
  BY <1>6 DEF A, B

\* So do the reports.
Reported(R, Q) ==
    /\ IsFiniteSet(Q) /\ R \subseteq Q
    /\ \A r \in Q : r.available \in Nat
    /\ \A r \in R, q \in Q \ R : r.available < q.available

\* A new report is of a new accession.
LEMMA ReportsGrow ==
  ASSUME NEW S, NEW T, Extended(S, T), NEW company
  PROVE  Reported(ReportedPeriods(S, company), ReportedPeriods(T, company))
<1> DEFINE of(U) == {s \in U : s.filing.company = company /\ s.filing.form \in {"10-Q", "10-K"}}
           kept(U) == {x \in of(U) : \A t \in of(U) \ {x} :
                          t.filing.accn = x.filing.accn => FiledFirst(x, t)}
           record(s) == [of |-> s, available |-> Available(s.filing), fcf |-> FreeCashFlow(s.filing)]
<1>1. \A U : ReportedPeriods(U, company) = {record(s) : s \in kept(U)}
  BY DEF ReportedPeriods
<1>2. kept(S) \subseteq kept(T)
  <2>1. ASSUME NEW x \in kept(S), NEW t \in of(T) \ {x}, t.filing.accn = x.filing.accn
        PROVE  FiledFirst(x, t)
    <3>1. t \in S
      BY <2>1 DEF Extended
    <3> QED BY <2>1, <3>1
  <2> QED BY <2>1 DEF Extended
<1>3. \A t \in kept(T) \ kept(S) : t \in T \ S
  BY DEF Extended
<1>4. \A s \in kept(T) : record(s).available = Available(s.filing) /\ Available(s.filing) \in Nat
  BY AvailableIs DEF Extended, Placed
<1>5. kept(S) \subseteq S /\ kept(T) \subseteq T
  OBVIOUS
<1>6. IsFiniteSet({record(s) : s \in kept(T)})
  <2>1. IsFiniteSet(kept(T))
    BY <1>5, FS_Subset DEF Extended, Placed
  <2> DEFINE f == [s \in kept(T) |-> record(s)]
  <2> HIDE DEF kept, record
  <2>2. f \in Surjection(kept(T), {record(s) : s \in kept(T)})
    BY DEF Surjection
  <2> HIDE DEF f
  <2> QED BY <2>1, <2>2, FS_Surjection
<1> HIDE DEF kept
<1>7. ASSUME NEW s \in kept(S), NEW t \in kept(T), record(t) \notin {record(u) : u \in kept(S)}
      PROVE  Available(s.filing) < Available(t.filing)
  <2>1. t \in T \ S
    BY <1>3, <1>7
  <2> QED BY <1>5, <2>1 DEF Extended
<1> DEFINE R == {record(s) : s \in kept(S)}
           Q == {record(s) : s \in kept(T)}
<1>8. R \subseteq Q /\ \A r \in Q : r.available \in Nat
  BY <1>2, <1>4
<1>9. ASSUME NEW r \in R, NEW q \in Q \ R PROVE r.available < q.available
  <2>1. PICK s \in kept(S) : r = record(s)
    OBVIOUS
  <2>2. PICK t \in kept(T) : q = record(t)
    OBVIOUS
  <2>3. record(t) \notin {record(u) : u \in kept(S)}
    BY <2>2
  <2>4. r.available = Available(s.filing) /\ q.available = Available(t.filing)
    BY <1>2, <1>4, <2>1, <2>2
  <2>5. Available(s.filing) < Available(t.filing)
    BY <1>7, <2>3
  <2> QED BY <2>4, <2>5
<1> HIDE DEF R, Q
<1>10. Reported(R, Q)
  BY <1>6, <1>8, <1>9 DEF Reported, Q
<1> QED
  BY <1>1, <1>10 DEF R, Q

\* Two reports that count keep counting: what comes later is not among them.
LEMMA SameReports ==
  ASSUME NEW R, NEW Q, Reported(R, Q), NEW o, o.cutoff \in Nat,
         Cardinality(SubsequentReports(o, R)) = 2
  PROVE  SubsequentReports(o, Q) = SubsequentReports(o, R)
<1> DEFINE in(U) == {r \in U : o.cutoff < r.available /\ r.available <= o.cutoff + TwelveMonths}
           ahead(U, r) == {s \in in(U) : Sooner(s, r)}
<1>1. \A U : SubsequentReports(o, U) = {r \in in(U) : Cardinality(ahead(U, r)) < 2}
  BY DEF SubsequentReports
<1>2. in(R) \subseteq in(Q) /\ in(R) = in(Q) \cap R
  BY DEF Reported
<1>3. ASSUME NEW r \in in(R), NEW q \in in(Q) \ in(R) PROVE Sooner(r, q) /\ ~Sooner(q, r)
  <2>1. r \in R /\ q \in Q \ R /\ r \in Q
    BY <1>3 DEF Reported
  <2>2. r.available < q.available /\ r.available \in Nat /\ q.available \in Nat
    BY <2>1 DEF Reported
  <2>3. ~(r.available = q.available) /\ ~(q.available < r.available)
    BY <2>2
  <2> QED BY <2>2, <2>3 DEF Sooner
<1>4. ASSUME NEW r \in in(R) PROVE ahead(Q, r) = ahead(R, r)
  BY <1>2, <1>3
<1>5. ASSUME NEW q \in in(Q) \ in(R) PROVE ~(Cardinality(ahead(Q, q)) < 2)
  <2>1. SubsequentReports(o, R) \subseteq ahead(Q, q)
    BY <1>1, <1>2, <1>3
  <2>2. IsFiniteSet(ahead(Q, q))
    BY FS_Subset DEF Reported
  <2> HIDE DEF ahead
  <2>3. 2 <= Cardinality(ahead(Q, q)) /\ Cardinality(ahead(Q, q)) \in Nat
    BY <2>1, <2>2, FS_Subset, FS_CardinalityType
  <2> QED BY <2>3
<1> HIDE DEF in, ahead
<1> QED
  BY <1>1, <1>2, <1>4, <1>5

\* The conditions and how many of them have a status.
Conditions == {"revenue_decline", "income_to_loss", "ocf_deterioration",
               "debt_to_assets_increase", "two_period_negative_fcf"}
With(statuses, v) == {c \in Conditions : statuses[c] = v}

\* A condition that can be told stays as it is; two_period_negative_fcf is the
\* only one that needs the reports.
LEMMA StatusesKept ==
  ASSUME NEW R, NEW Q, Reported(R, Q), NEW o, o.cutoff \in Nat, NEW next
  PROVE  LET p == ConditionStatuses(o, next, R)  q == ConditionStatuses(o, next, Q) IN
         /\ DOMAIN p = Conditions /\ DOMAIN q = Conditions
         /\ \A c \in Conditions : p[c] # "UNKNOWN" => q[c] = p[c]
         /\ \A c \in Conditions : p[c] \in {"TRUE", "FALSE", "UNKNOWN"}
<1> DEFINE p == ConditionStatuses(o, next, R)
           q == ConditionStatuses(o, next, Q)
<1>1. DOMAIN p = Conditions /\ DOMAIN q = Conditions
  BY DEF ConditionStatuses, Conditions
<1>2. \A c \in Conditions : p[c] \in {"TRUE", "FALSE", "UNKNOWN"}
  BY DEF ConditionStatuses, Conditions, Verdict
<1>3. /\ q["revenue_decline"] = p["revenue_decline"]
      /\ q["income_to_loss"] = p["income_to_loss"]
      /\ q["ocf_deterioration"] = p["ocf_deterioration"]
      /\ q["debt_to_assets_increase"] = p["debt_to_assets_increase"]
  <2>1. q["revenue_decline"] = p["revenue_decline"]
    BY DEF ConditionStatuses
  <2>2. q["income_to_loss"] = p["income_to_loss"]
    BY DEF ConditionStatuses
  <2>3. q["ocf_deterioration"] = p["ocf_deterioration"]
    BY DEF ConditionStatuses
  <2>4. q["debt_to_assets_increase"] = p["debt_to_assets_increase"]
    BY DEF ConditionStatuses
  <2> QED BY <2>1, <2>2, <2>3, <2>4
<1>4. p["two_period_negative_fcf"] # "UNKNOWN" => Cardinality(SubsequentReports(o, R)) = 2
  BY DEF ConditionStatuses, Verdict
<1>5. ASSUME SubsequentReports(o, Q) = SubsequentReports(o, R)
      PROVE  q["two_period_negative_fcf"] = p["two_period_negative_fcf"]
  BY <1>5 DEF ConditionStatuses
<1>6. p["two_period_negative_fcf"] # "UNKNOWN"
         => q["two_period_negative_fcf"] = p["two_period_negative_fcf"]
  BY <1>4, <1>5, SameReports
<1> HIDE DEF p, q
<1>7. \A c \in Conditions : p[c] # "UNKNOWN" => q[c] = p[c]
  BY <1>3, <1>6 DEF Conditions
<1> QED
  BY <1>1, <1>2, <1>7 DEF p, q

\* So a label that was decided stays: what was unknown may become true, but
\* then there were too few of either to matter.
LEMMA LabelledKept ==
  ASSUME NEW R, NEW Q, Reported(R, Q), NEW o, o.cutoff \in Nat, NEW next,
         Labelled(o, next, R).status = "VERIFIED"
  PROVE  Labelled(o, next, Q) = Labelled(o, next, R)
<1> DEFINE p == ConditionStatuses(o, next, R)
           q == ConditionStatuses(o, next, Q)
           label(t, u) == IF Decided(t, u)
                          THEN [status |-> "VERIFIED", value |-> t >= 2, code |-> ""]
                          ELSE [status |-> "REQUIRES_HUMAN_REVIEW", value |-> FALSE, code |-> ""]
<1>1. /\ DOMAIN p = Conditions /\ DOMAIN q = Conditions
      /\ \A c \in Conditions : p[c] # "UNKNOWN" => q[c] = p[c]
      /\ \A c \in Conditions : p[c] \in {"TRUE", "FALSE", "UNKNOWN"}
  BY StatusesKept
<1>2. /\ Labelled(o, next, R) =
            label(Cardinality(With(p, "TRUE")), Cardinality(With(p, "UNKNOWN")))
      /\ Labelled(o, next, Q) =
            label(Cardinality(With(q, "TRUE")), Cardinality(With(q, "UNKNOWN")))
  BY <1>1 DEF Labelled, With
<1> HIDE DEF p, q
<1>3. IsFiniteSet(Conditions)
  <2>1. Conditions = (((({"revenue_decline"} \cup {"income_to_loss"}) \cup {"ocf_deterioration"})
                         \cup {"debt_to_assets_increase"}) \cup {"two_period_negative_fcf"})
    BY DEF Conditions
  <2>2. \A c : IsFiniteSet({c})
    BY FS_Singleton
  <2> QED BY <2>1, <2>2, FS_Union
<1>4. ASSUME NEW s, NEW v PROVE IsFiniteSet(With(s, v)) /\ Cardinality(With(s, v)) \in Nat
  BY <1>3, FS_Subset, FS_CardinalityType DEF With
<1>5. ASSUME NEW s
      PROVE  Cardinality(With(s, "TRUE") \cup With(s, "UNKNOWN"))
                = Cardinality(With(s, "TRUE")) + Cardinality(With(s, "UNKNOWN"))
  <2>1. With(s, "TRUE") \cap With(s, "UNKNOWN") = {}
    BY DEF With
  <2>2. Cardinality(With(s, "TRUE") \cap With(s, "UNKNOWN")) = 0
    BY <2>1, FS_EmptySet
  <2>3. Cardinality(With(s, "TRUE") \cup With(s, "UNKNOWN"))
           = Cardinality(With(s, "TRUE")) + Cardinality(With(s, "UNKNOWN"))
               - Cardinality(With(s, "TRUE") \cap With(s, "UNKNOWN"))
    BY <1>4, FS_Union
  <2> QED BY <1>4, <2>2, <2>3
<1>6. Cardinality(With(p, "TRUE")) <= Cardinality(With(q, "TRUE"))
  <2>1. With(p, "TRUE") \subseteq With(q, "TRUE")
    BY <1>1 DEF With
  <2> QED BY <1>4, <2>1, FS_Subset
<1>7. Cardinality(With(q, "TRUE")) + Cardinality(With(q, "UNKNOWN"))
         <= Cardinality(With(p, "TRUE")) + Cardinality(With(p, "UNKNOWN"))
  <2>1. With(q, "TRUE") \cup With(q, "UNKNOWN") \subseteq With(p, "TRUE") \cup With(p, "UNKNOWN")
    BY <1>1 DEF With
  <2>2. IsFiniteSet(With(p, "TRUE") \cup With(p, "UNKNOWN"))
    BY <1>4, FS_Union
  <2>3. Cardinality(With(q, "TRUE") \cup With(q, "UNKNOWN"))
           <= Cardinality(With(p, "TRUE") \cup With(p, "UNKNOWN"))
    BY <2>1, <2>2, FS_Subset
  <2> QED BY <1>5, <2>3
<1>8. ASSUME NEW t \in Nat, NEW u \in Nat, NEW t1 \in Nat, NEW u1 \in Nat,
             t <= t1, t1 + u1 <= t + u, Decided(t, u)
      PROVE  Decided(t1, u1) /\ (t1 >= 2 <=> t >= 2)
  BY <1>8 DEF Decided
<1>9. Decided(Cardinality(With(p, "TRUE")), Cardinality(With(p, "UNKNOWN")))
  <2>1. ASSUME NEW t, NEW u, ~Decided(t, u) PROVE label(t, u).status # "VERIFIED"
    BY <2>1
  <2> HIDE DEF label
  <2> QED BY <1>2, <2>1
<1>10. /\ Decided(Cardinality(With(q, "TRUE")), Cardinality(With(q, "UNKNOWN")))
       /\ Cardinality(With(q, "TRUE")) >= 2 <=> Cardinality(With(p, "TRUE")) >= 2
  BY <1>4, <1>6, <1>7, <1>8, <1>9
<1>11. ASSUME NEW t, NEW u, NEW t1, NEW u1, Decided(t, u), Decided(t1, u1), t1 >= 2 <=> t >= 2
       PROVE  label(t1, u1) = label(t, u)
  <2>1. (t1 >= 2) = (t >= 2)
    BY <1>11
  <2> QED BY <1>11, <2>1
<1> HIDE DEF label
<1> QED
  BY <1>2, <1>9, <1>10, <1>11

\* And so does the finding that there is no outcome: what comes later comes after
\* the window.
LEMMA LabelKept ==
  ASSUME NEW A, NEW B, Pool(A, B), NEW R, NEW Q, Reported(R, Q), NEW o, o.cutoff \in Nat,
         Final(Label(o, A, R))
  PROVE  Label(o, B, Q) = Label(o, A, R)
<1> DEFINE of(U) == {x \in U : x.company = o.company /\ x.fy = o.fy + 1}
           eligible(U) == {x \in of(U) : o.cutoff < x.cutoff /\ x.cutoff <= o.cutoff + TwelveMonths}
           end == o.cutoff + TwelveMonths
<1>1. \A U, V : Label(o, U, V) = IF eligible(U) # {}
                                 THEN Labelled(o, (CHOOSE x \in eligible(U) : TRUE).facts, V)
                                 ELSE Unlabelled(o, of(U), U)
  BY DEF Label
<1>2. end \in Nat
  BY CorpusAssumption
<1>3. of(A) \subseteq of(B) /\ (of(A) # {} => of(B) = of(A))
  BY DEF Pool
<1>4. CASE eligible(A) # {}
  <2>1. eligible(B) = eligible(A)
    BY <1>3, <1>4
  <2> DEFINE x == CHOOSE y \in eligible(A) : TRUE
  <2>2. Label(o, A, R) = Labelled(o, x.facts, R) /\ Label(o, B, Q) = Labelled(o, x.facts, Q)
    <3>1. Label(o, A, R) = Labelled(o, x.facts, R)
      BY <1>1, <1>4
    <3>2. Label(o, B, Q) = Labelled(o, (CHOOSE y \in eligible(B) : TRUE).facts, Q)
      BY <1>1, <1>4, <2>1
    <3> HIDE DEF eligible
    <3>3. (CHOOSE y \in eligible(B) : TRUE) = x
      BY <2>1
    <3> QED BY <3>1, <3>2, <3>3
  <2> HIDE DEF x
  <2>3. Labelled(o, x.facts, R).code = ""
    BY DEF Labelled
  <2>4. Labelled(o, x.facts, R).status = "VERIFIED"
    BY <2>2, <2>3 DEF Final
  <2> QED BY <2>2, <2>4, LabelledKept
<1>5. CASE eligible(A) = {}
  <2>1. Label(o, A, R) = Unlabelled(o, of(A), A)
    BY <1>1, <1>5
  <2>2. Unlabelled(o, of(A), A).code = "TRUE_NO_ELIGIBLE_OUTCOME"
    BY <2>1 DEF Final, Unlabelled
  <2>3. \/ /\ \A x \in of(A) : ~(x.cutoff > o.cutoff)
           /\ ~(\A x \in A : x.cutoff < end)
        \/ /\ \E x \in of(A) : x.cutoff > o.cutoff
           /\ \A x \in of(A) : x.cutoff > o.cutoff => x.cutoff > end
    BY <2>2 DEF Unlabelled
  <2>4. /\ eligible(B) = {}
        /\ \/ /\ \A x \in of(B) : ~(x.cutoff > o.cutoff)
              /\ ~(\A x \in B : x.cutoff < end)
           \/ /\ \E x \in of(B) : x.cutoff > o.cutoff
              /\ \A x \in of(B) : x.cutoff > o.cutoff => x.cutoff > end
    <3>1. CASE of(A) # {}
      BY <1>3, <1>5, <2>3, <3>1 DEF Pool
    <3>2. CASE of(A) = {}
      <4>1. PICK y \in A : ~(y.cutoff < end)
        BY <2>3, <3>2
      <4>2. ASSUME NEW x \in of(B) PROVE x.cutoff > end /\ x.cutoff > o.cutoff
        <5>1. x \in B \ A /\ y \in B
          BY <3>2, <4>1 DEF Pool
        <5>2. y.cutoff < x.cutoff /\ y.cutoff \in Nat /\ x.cutoff \in Nat
          BY <4>1, <5>1 DEF Pool
        <5> QED BY <1>2, <4>1, <5>2, CorpusAssumption
      <4>3. \A x \in of(B) : ~(x.cutoff <= end)
        <5>1. \A x \in of(B) : x.cutoff \in Nat
          BY DEF Pool
        <5> QED BY <1>2, <4>2, <5>1
      <4>4. y \in B
        BY <4>1 DEF Pool
      <4>5. CASE of(B) = {}
        BY <4>1, <4>4, <4>5
      <4>6. CASE of(B) # {}
        BY <4>2, <4>3, <4>6
      <4> QED BY <4>5, <4>6
    <3> QED BY <3>1, <3>2
  <2>5. Label(o, B, Q) = Unlabelled(o, of(B), B)
    BY <1>1, <2>4
  <2> HIDE DEF of
  <2>6. /\ Unlabelled(o, of(B), B) = [status |-> "INSUFFICIENT_DATA", value |-> FALSE,
                                      code |-> "TRUE_NO_ELIGIBLE_OUTCOME"]
        /\ Unlabelled(o, of(A), A) = [status |-> "INSUFFICIENT_DATA", value |-> FALSE,
                                      code |-> "TRUE_NO_ELIGIBLE_OUTCOME"]
    BY <2>3, <2>4 DEF Unlabelled
  <2> QED BY <2>1, <2>5, <2>6
<1> QED
  BY <1>4, <1>5

\* The archives there are, in their order.
Kept == archives \in Seq(UNION {Archives[q] : q \in DOMAIN Archives})
InTheirPlaces ==
    /\ Kept
    /\ \A q \in 1 .. Len(archives) : q \in DOMAIN Archives /\ archives[q] \in Archives[q]

\* A label that is final is what an import would give it now.
FinalInv ==
    companyfacts = << >> =>
      \A o \in DOMAIN labels : Final(labels[o]) =>
        /\ o \in NumericCorpus(Planned, Submissions)
        /\ labels[o] = Label(o, AnnualOutcomes(Submissions),
                                ReportedPeriods(Submissions, o.company))

\* The inductive invariant of the imports.
CorpusInv == InTheirPlaces /\ FinalInv

\* What stands in an archive, and what an archive adds.
InArchive(q, c) == {[archive |-> q, row |-> i, filing |-> c[i]] : i \in DOMAIN c}

\* The filings there are, archive by archive, are in their places.
LEMMA SubmissionsAre ==
  InTheirPlaces => /\ Submissions = UNION {InArchive(q, archives[q]) : q \in 1 .. Len(archives)}
                   /\ Placed(Submissions)
<1> SUFFICES ASSUME InTheirPlaces
             PROVE  /\ Submissions = UNION {InArchive(q, archives[q]) : q \in 1 .. Len(archives)}
                    /\ Placed(Submissions)
  OBVIOUS
<1>1. DOMAIN archives = 1 .. Len(archives) /\ Len(archives) \in Nat
  BY DEF InTheirPlaces, Kept
<1>2. Submissions = UNION {InArchive(q, archives[q]) : q \in 1 .. Len(archives)}
  BY <1>1 DEF Submissions, InArchive
<1>3. ASSUME NEW q \in 1 .. Len(archives)
      PROVE  /\ IsFiniteSet(InArchive(q, archives[q]))
             /\ \A s \in InArchive(q, archives[q]) :
                   /\ s.archive = q /\ s.row \in DOMAIN archives[q] /\ s.row \in Nat
                   /\ s = [archive |-> q, row |-> s.row, filing |-> archives[q][s.row]]
                   /\ s.filing.filed \in Nat /\ s.filing.accepted \in Nat
  <2>1. q \in DOMAIN Archives /\ archives[q] \in Archives[q]
    BY DEF InTheirPlaces
  <2>2. /\ DOMAIN archives[q] \subseteq Nat /\ IsFiniteSet(DOMAIN archives[q])
        /\ \A i \in DOMAIN archives[q] : archives[q][i].filed \in Nat /\ archives[q][i].accepted \in Nat
    BY <2>1, CorpusAssumption
  <2> DEFINE f == [i \in DOMAIN archives[q] |-> [archive |-> q, row |-> i, filing |-> archives[q][i]]]
  <2>3. f \in Surjection(DOMAIN archives[q], InArchive(q, archives[q]))
    BY DEF Surjection, InArchive
  <2>4. IsFiniteSet(InArchive(q, archives[q]))
    BY <2>2, <2>3, FS_Surjection
  <2> HIDE DEF f
  <2> QED BY <2>2, <2>4 DEF InArchive
<1>4. IsFiniteSet(UNION {InArchive(q, archives[q]) : q \in 1 .. Len(archives)})
  <2> DEFINE all == {InArchive(q, archives[q]) : q \in 1 .. Len(archives)}
             g == [q \in 1 .. Len(archives) |-> InArchive(q, archives[q])]
  <2>1. IsFiniteSet(1 .. Len(archives))
    BY <1>1, FS_Interval
  <2>2. g \in Surjection(1 .. Len(archives), all)
    BY DEF Surjection
  <2>3. IsFiniteSet(all)
    BY <2>1, <2>2, FS_Surjection
  <2>4. \A x \in all : IsFiniteSet(x)
    BY <1>3
  <2> HIDE DEF all
  <2> QED BY <2>3, <2>4, FS_UNION DEF all
<1>5. \A s \in Submissions :
         /\ s.archive \in 1 .. Len(archives) /\ s \in InArchive(s.archive, archives[s.archive])
  BY <1>2, <1>3
<1>6. /\ \A s \in Submissions : /\ s.archive \in Nat /\ s.row \in Nat
                                /\ s.filing.filed \in Nat /\ s.filing.accepted \in Nat
      /\ \A s \in Submissions :
            s = [archive |-> s.archive, row |-> s.row, filing |-> archives[s.archive][s.row]]
  BY <1>1, <1>3, <1>5
<1>7. \A s, t \in Submissions : s.archive = t.archive /\ s.row = t.row => s = t
  BY <1>6
<1> QED
  BY <1>2, <1>4, <1>6, <1>7 DEF Placed

\* So they are in the next state.
LEMMA SubmissionsStay ==
  (InTheirPlaces => /\ Submissions = UNION {InArchive(q, archives[q]) : q \in 1 .. Len(archives)}
                    /\ Placed(Submissions))'
<1> QED
  BY SubmissionsAre, PTL

\* The archive of the next quarter adds filings that are all later.
LEMMA DownloadExtends ==
  ASSUME InTheirPlaces, NEW q \in DOMAIN Archives, NEW content \in Archives[q],
         Len(archives) = q - 1, Download(content)
  PROVE  InTheirPlaces' /\ Extended(Submissions, Submissions')
<1>1. archives' = Append(archives, content) /\ Len(archives) \in Nat
  BY DEF Download, InTheirPlaces, Kept
<1>2. q \in Nat /\ content \in UNION {Archives[r] : r \in DOMAIN Archives}
  BY CorpusAssumption
<1>3. /\ archives' \in Seq(UNION {Archives[r] : r \in DOMAIN Archives})
      /\ Len(archives') = q /\ archives'[q] = content
      /\ \A p \in 1 .. Len(archives) : archives'[p] = archives[p]
  BY <1>1, <1>2 DEF InTheirPlaces, Kept
<1>4. 1 .. Len(archives') = (1 .. Len(archives)) \cup {q} /\ \A p \in 1 .. Len(archives) : p < q
  BY <1>1, <1>2, <1>3
<1>5. InTheirPlaces'
  BY <1>3, <1>4 DEF InTheirPlaces, Kept
<1>6. Submissions = UNION {InArchive(p, archives[p]) : p \in 1 .. Len(archives)}
  BY SubmissionsAre
<1>7. /\ Submissions' = UNION {InArchive(p, archives'[p]) : p \in 1 .. Len(archives')}
      /\ Placed(Submissions)'
  BY <1>5, SubmissionsStay
<1>8. Submissions' = Submissions \cup InArchive(q, content)
  BY <1>3, <1>4, <1>6, <1>7
<1>9. ASSUME NEW s \in Submissions, NEW t \in InArchive(q, content)
      PROVE  /\ s.filing.filed < t.filing.filed
             /\ Available(s.filing) < Available(t.filing)
             /\ s.filing.accn # t.filing.accn
  <2>1. PICK p \in 1 .. Len(archives) : s \in InArchive(p, archives[p])
    BY <1>6
  <2>2. PICK i \in DOMAIN archives[p] : s.filing = archives[p][i]
    BY <2>1 DEF InArchive
  <2>3. PICK j \in DOMAIN content : t.filing = content[j]
    BY DEF InArchive
  <2>4. p \in DOMAIN Archives /\ archives[p] \in Archives[p] /\ p < q
    BY <1>4 DEF InTheirPlaces
  <2> QED BY <2>2, <2>3, <2>4, CorpusAssumption
<1> QED
  BY <1>5, <1>7, <1>8, <1>9 DEF Extended

\* An import gives every observation the label of what there is.
LEMMA ImportLabels ==
  ASSUME Import, companyfacts = << >>
  PROVE  /\ Submissions' = Submissions /\ companyfacts' = << >> /\ archives' = archives
         /\ DOMAIN labels' = NumericCorpus(Planned, Submissions)
         /\ \A o \in DOMAIN labels' :
               labels'[o] = Label(o, AnnualOutcomes(Submissions),
                                     ReportedPeriods(Submissions, o.company))
<1>1. /\ labels' = BuildOutcomes(NumericCorpus(Planned, Submissions), Submissions)
      /\ companyfacts' = << >> /\ archives' = archives
  BY DEF Import
<1> QED
  BY <1>1 DEF BuildOutcomes, Submissions

\* An observation of the corpus is known from some day on.
LEMMA CutoffIs ==
  ASSUME NEW T, Placed(T), NEW o \in NumericCorpus(Planned, T)
  PROVE  /\ o.cutoff \in Nat
         /\ \A U : Extended(T, U) => o \in NumericCorpus(Planned, U)
<1>1. PICK k \in Planned : /\ Annual(T, k[1], k[2]) # {}
                           /\ o = NumericObservation(T, k[1], k[2])
  BY DEF NumericCorpus
<1>2. o.cutoff \in Nat
  BY <1>1, ObservationIs
<1>3. ASSUME NEW U, Extended(T, U) PROVE o \in NumericCorpus(Planned, U)
  <2>1. Annual(U, k[1], k[2]) # {} /\ o = NumericObservation(U, k[1], k[2])
    BY <1>1, <1>3, SameObservation
  <2> QED BY <2>1 DEF NumericCorpus
<1> QED
  BY <1>2, <1>3

\* Before the first import there are no labels.
LEMMA CorpusInvInit == CorpusInit => CorpusInv
<1> SUFFICES ASSUME CorpusInit PROVE CorpusInv
  OBVIOUS
<1>1. archives = << >> /\ Len(archives) = 0 /\ DOMAIN labels = {}
  BY DEF CorpusInit
<1> QED
  BY <1>1 DEF CorpusInv, InTheirPlaces, Kept, FinalInv

\* An import gives the labels that it says; an archive leaves the final ones.
LEMMA CorpusInvStep == CorpusInv /\ [CorpusNext]_corpusVars => CorpusInv'
<1> SUFFICES ASSUME CorpusInv, [CorpusNext]_corpusVars PROVE CorpusInv'
  OBVIOUS
<1> USE DEF CorpusInv
<1>1. CASE Import
  <2>1. archives' = archives /\ companyfacts' = companyfacts
    BY <1>1 DEF Import
  <2>2. InTheirPlaces'
    BY <2>1 DEF InTheirPlaces, Kept
  <2>3. FinalInv'
    <3>1. SUFFICES ASSUME companyfacts = << >> PROVE FinalInv'
      BY <2>1 DEF FinalInv
    <3>2. /\ Submissions' = Submissions
          /\ DOMAIN labels' = NumericCorpus(Planned, Submissions)
          /\ \A o \in DOMAIN labels' :
               labels'[o] = Label(o, AnnualOutcomes(Submissions),
                                     ReportedPeriods(Submissions, o.company))
      BY <1>1, <3>1, ImportLabels
    <3> QED BY <3>2 DEF FinalInv
  <2> QED BY <2>2, <2>3
<1>2. ASSUME NEW q \in DOMAIN Archives, NEW content \in Archives[q],
             Len(archives) = q - 1, Download(content)
      PROVE  CorpusInv'
  <2>1. InTheirPlaces' /\ Extended(Submissions, Submissions')
    BY <1>2, DownloadExtends
  <2>2. labels' = labels /\ companyfacts' = companyfacts
    BY <1>2 DEF Download
  <2>3. ASSUME companyfacts = << >>, NEW o \in DOMAIN labels, Final(labels[o])
        PROVE  /\ o \in NumericCorpus(Planned, Submissions')
               /\ labels[o] = Label(o, AnnualOutcomes(Submissions'),
                                       ReportedPeriods(Submissions', o.company))
    <3>1. /\ o \in NumericCorpus(Planned, Submissions)
          /\ labels[o] = Label(o, AnnualOutcomes(Submissions),
                                  ReportedPeriods(Submissions, o.company))
      BY <2>3 DEF FinalInv
    <3>2. Placed(Submissions)
      BY SubmissionsAre
    <3>3. o.cutoff \in Nat /\ o \in NumericCorpus(Planned, Submissions')
      BY <2>1, <3>1, <3>2, CutoffIs
    <3>4. Pool(AnnualOutcomes(Submissions), AnnualOutcomes(Submissions'))
      BY <2>1, <3>2, PoolGrows
    <3>5. Reported(ReportedPeriods(Submissions, o.company), ReportedPeriods(Submissions', o.company))
      BY <2>1, ReportsGrow
    <3> QED BY <2>3, <3>1, <3>3, <3>4, <3>5, LabelKept
  <2>4. FinalInv'
    BY <2>2, <2>3 DEF FinalInv
  <2> QED BY <2>1, <2>4
<1>3. ASSUME NEW entries \in FactArchives, DownloadFacts(entries) PROVE CorpusInv'
  <2>1. companyfacts = << >> /\ archives' = archives /\ labels' = labels
    BY <1>3 DEF DownloadFacts
  <2>2. Submissions' = Submissions
    BY <2>1 DEF Submissions
  <2> QED BY <2>1, <2>2 DEF InTheirPlaces, Kept, FinalInv
<1>4. CASE UNCHANGED corpusVars
  <2>1. Submissions' = Submissions
    BY <1>4 DEF Submissions, corpusVars
  <2> QED BY <1>4, <2>1 DEF InTheirPlaces, Kept, FinalInv, corpusVars
<1> QED
  BY <1>1, <1>2, <1>3, <1>4 DEF CorpusNext

\* The invariant holds throughout.
THEOREM CorpusInvariant == CorpusSpec => []CorpusInv
<1> QED
  BY CorpusInvInit, CorpusInvStep, PTL DEF CorpusSpec

\* Whatever the archives of later quarters hold: a verified label stays what it
\* is, and an observation without an eligible outcome never gets one.
THEOREM LabelsAreAlwaysFinal == CorpusSpec => LabelsAreFinal
<1>1. CorpusInv /\ [CorpusNext]_corpusVars =>
        [companyfacts = << >> /\ companyfacts' = << >> =>
           \A o \in DOMAIN labels :
             Final(labels[o]) => o \in DOMAIN labels' /\ labels'[o] = labels[o]]_corpusVars
  <2> SUFFICES ASSUME CorpusInv, [CorpusNext]_corpusVars,
                      companyfacts = << >>, NEW o \in DOMAIN labels, Final(labels[o])
               PROVE  o \in DOMAIN labels' /\ labels'[o] = labels[o]
    OBVIOUS
  <2>1. CASE Import
    BY <2>1, ImportLabels DEF CorpusInv, FinalInv
  <2>2. CASE labels' = labels
    BY <2>2
  <2> QED BY <2>1, <2>2 DEF CorpusNext, Download, DownloadFacts, corpusVars
<1> QED
  BY CorpusInvariant, <1>1, PTL DEF CorpusSpec, LabelsAreFinal

-----------------------------------------------------------------------------
(* The fitted research reference.                                          *)

\* The manifest and everything it binds tell of one rebuild: the files that
\* carry a basis carry the same one, the selection is the one worked out from
\* it, and it agrees with the hashes that were approved, in all but the inputs
\* edited while a command was under way.
Binds(m) ==
    /\ m.hashes["model"].basis \in [Inputs -> Versions]
    /\ m.selected = Selected(m.hashes["model"].basis)
    /\ \A f \in {"preprocessor", "selective", "replay"} :
          m.hashes[f].basis = m.hashes["model"].basis
    /\ m.approval.hashes \in [Inputs -> Versions]
    /\ TrainedOn(m.hashes["model"], m.approval.hashes)

\* What a command holds in memory is what is on disk, in all but the inputs
\* edited since a command began.
Remembers(values) ==
    /\ values \in [Inputs -> Versions]
    /\ \A i \in Inputs \ tainted : values[i] = inputs[i]

\* The files written so far that carry the basis of the rebuild under way.
Based == {"preprocessor", "model", "selective", "replay"}

\* The command under way: the files before the next one carry its basis.
BuilderInv ==
    builder.pc # "idle" =>
        /\ builder = [pc |-> builder.pc, kind |-> builder.kind,
                      machine |-> builder.machine, sources |-> builder.sources,
                      code |-> builder.code, approval |-> builder.approval,
                      basis |-> builder.basis, next |-> builder.next]
        /\ builder.sources = Frozen
        /\ builder.code \in Versions
        /\ "sources" \notin tainted => inputs["sources"] = Frozen
        /\ "code" \notin tainted => builder.code = inputs["code"]
        /\ builder.next \in 1 .. 11
        /\ builder.pc # "write" => builder.next = 1
        /\ builder.pc \in {"load", "write"} => Remembers(builder.approval.hashes)
        /\ builder.pc = "write" =>
              /\ Remembers(builder.basis)
              /\ \A i \in 1 .. builder.next - 1 :
                    WriteOrder[i] \in Based =>
                        disk[WriteOrder[i]].basis = builder.basis

\* The loader under way: what it read, and what it has still to read, is what
\* the manifest it verified names, unless a rebuild raced it.
ReaderInv ==
    reader.pc \in {"preprocessor", "model", "done"} =>
        /\ reader = [pc |-> reader.pc, raced |-> reader.raced,
                     manifest |-> reader.manifest,
                     preprocessor |-> reader.preprocessor, model |-> reader.model]
        /\ Binds(reader.manifest)
        /\ ~reader.raced =>
              /\ reader.pc = "preprocessor" =>
                    disk["preprocessor"] = reader.manifest.hashes["preprocessor"]
              /\ reader.pc # "preprocessor" =>
                    reader.preprocessor = reader.manifest.hashes["preprocessor"]
              /\ reader.pc # "done" =>
                    disk["model"] = reader.manifest.hashes["model"]
              /\ reader.pc = "done" =>
                    reader.model = reader.manifest.hashes["model"]

\* Company lists are the packet's, and a whole manifest binds one rebuild.
DiskInv ==
    /\ inputs \in [Inputs -> Versions]
    /\ DOMAIN disk = StudyFiles
    /\ Whole("companies") => disk["companies"].of = Frozen
    /\ Whole("manifest") => Binds(disk["manifest"])

\* The inductive invariant.
StudyInv == DiskInv /\ BuilderInv /\ ReaderInv

\* The files a rebuild writes are eleven different ones, none of them a file of
\* the approval.
LEMMA OrderOfWrites ==
    /\ \A i \in 1 .. 11 : WriteOrder[i] \in StudyFiles \ {"companies", "exclusions", "approval"}
    /\ \A i, j \in 1 .. 11 : WriteOrder[i] = WriteOrder[j] => i = j
    /\ Len(WriteOrder) = 11
    /\ WriteOrder[1] = "preprocessor" /\ WriteOrder[2] = "model"
    /\ WriteOrder[5] = "selective" /\ WriteOrder[7] = "replay"
    /\ WriteOrder[10] = "manifest"
<1>1. Len(WriteOrder) = 11 /\ DOMAIN WriteOrder = 1 .. 11
  BY DEF WriteOrder
<1>2. /\ WriteOrder[1] = "preprocessor" /\ WriteOrder[2] = "model"
      /\ WriteOrder[3] = "candidates" /\ WriteOrder[4] = "reference"
      /\ WriteOrder[5] = "selective" /\ WriteOrder[6] = "selection"
      /\ WriteOrder[7] = "replay" /\ WriteOrder[8] = "runtime"
      /\ WriteOrder[9] = "report" /\ WriteOrder[10] = "manifest"
      /\ WriteOrder[11] = "canonical"
  BY DEF WriteOrder
<1>3. \A i \in 1 .. 11 : i \in {1, 2, 3, 4, 5, 6, 7, 8, 9, 10, 11}
  OBVIOUS
<1>4. \A i \in 1 .. 11 : WriteOrder[i] \notin {"companies", "exclusions", "approval"}
  BY <1>2, <1>3
<1>5. \A i, j \in 1 .. 11 : WriteOrder[i] = WriteOrder[j] => i = j
  BY <1>2, <1>3
<1>6. \A i \in 1 .. 11 : WriteOrder[i] \in StudyFiles
  BY <1>1 DEF StudyFiles
<1> QED BY <1>1, <1>2, <1>4, <1>5, <1>6

\* The files that carry a basis are among those the manifest binds.
LEMMA BoundByManifest == Based \subseteq BoundFiles
<1>1. \A i \in 1 .. 9 : WriteOrder[i] \in BoundFiles
  BY DEF BoundFiles
<1> QED BY <1>1, OrderOfWrites DEF Based

\* What the rebuild writes to each of its files.
LEMMA WhatIsWritten ==
    ASSUME NEW f \in {WriteOrder[i] : i \in 1 .. 11}
    PROVE  /\ Written(f).is = f
           /\ f \in Based => Written(f).basis = builder.basis
           /\ f = "manifest" => Written(f) = ManifestFile
<1>1. f \in {"preprocessor", "model", "candidates", "reference", "selective",
             "selection", "replay", "runtime", "report", "manifest", "canonical"}
  <2>1. \A i \in 1 .. 11 : i \in {1, 2, 3, 4, 5, 6, 7, 8, 9, 10, 11}
    OBVIOUS
  <2> QED BY <2>1 DEF WriteOrder
<1>2. CASE f \in {"preprocessor", "model"}
  BY <1>2 DEF Written, Based
<1>3. CASE f = "candidates"
  BY <1>3 DEF Written, Based
<1>4. CASE f = "reference"
  BY <1>4 DEF Written, ReferenceFile, Based
<1>5. CASE f = "selective"
  BY <1>5 DEF Written, SelectiveFile, Based
<1>6. CASE f = "selection"
  BY <1>6 DEF Written, SelectionFile, Based
<1>7. CASE f = "replay"
  BY <1>7 DEF Written, Based
<1>8. CASE f = "runtime"
  BY <1>8 DEF Written, RuntimeFile, Based
<1>9. CASE f = "report"
  BY <1>9 DEF Written, Based
<1>10. CASE f = "manifest"
  BY <1>10 DEF Written, ManifestFile, Based
<1>11. CASE f = "canonical"
  BY <1>11 DEF Written, CanonicalFile, Based
<1> QED BY <1>1, <1>2, <1>3, <1>4, <1>5, <1>6, <1>7, <1>8, <1>9, <1>10, <1>11

\* Nothing is on disk and no command is under way.
LEMMA StudyInvInit == ASSUME StudyInit PROVE StudyInv
<1>1. DiskInv
  <2>1. {"companies", "manifest"} \subseteq StudyFiles
    BY OrderOfWrites DEF StudyFiles
  <2> QED BY <2>1, StudyAssumption DEF StudyInit, DiskInv, Whole, Absent
<1>2. BuilderInv /\ ReaderInv
  BY DEF StudyInit, Idle, BuilderInv, ReaderInv
<1> QED BY <1>1, <1>2 DEF StudyInv

\* Steps that leave the files, the loader or the command alone.
LEMMA DiskKept ==
    ASSUME DiskInv, disk' = disk, inputs' \in [Inputs -> Versions],
           tainted \subseteq tainted'
    PROVE  DiskInv'
<1>1. Whole("manifest")' => Binds(disk["manifest"])'
  BY DEF DiskInv, Whole, Binds, TrainedOn
<1> QED BY <1>1 DEF DiskInv, Whole

\* The same for what the loader holds.
LEMMA ReaderKept ==
    ASSUME ReaderInv, reader' = reader, tainted \subseteq tainted', disk' = disk
    PROVE  ReaderInv'
BY DEF ReaderInv, Binds, TrainedOn

\* The same for what the command holds.
LEMMA BuilderKept ==
    ASSUME BuilderInv, builder' = builder, disk' = disk, inputs' = inputs,
           tainted' = tainted
    PROVE  BuilderInv'
BY DEF BuilderInv, Remembers

\* A command begins with the packet's sources, as they are now.
LEMMA StartCommandKeeps ==
    ASSUME StudyInv, NEW kind, NEW m, StartCommand(kind, m)
    PROVE  StudyInv'
<1>1. DiskInv' /\ ReaderInv'
  BY DiskKept, ReaderKept DEF StartCommand, StudyInv, DiskInv
<1>2. BuilderInv'
  <2>1. builder' = [pc |-> "companies", kind |-> kind, machine |-> m,
                   sources |-> inputs["sources"], code |-> inputs["code"],
                   approval |-> Absent, basis |-> inputs, next |-> 1]
        /\ inputs["sources"] = Frozen /\ inputs' = inputs
        /\ inputs["code"] \in Versions
    BY DEF StartCommand, StudyInv, DiskInv, Inputs
  <2> QED BY <2>1 DEF BuilderInv
<1> QED BY <1>1, <1>2 DEF StudyInv

\* Writing a file the loader does not open.
LEMMA CompaniesKeeps ==
    ASSUME StudyInv, WriteCompanies \/ WriteExclusions
    PROVE  StudyInv'
<1>1. \E f \in {"companies", "exclusions"} :
         disk' = [disk EXCEPT ![f] = [is |-> f, of |-> builder.sources]]
  BY DEF WriteCompanies, WriteExclusions
<1>2. /\ builder.pc \in {"companies", "exclusions"} /\ builder.sources = Frozen
      /\ inputs' = inputs /\ tainted' = tainted /\ reader' = reader
      /\ \E p \in {"exclusions", "approval"} : builder' = [builder EXCEPT !.pc = p]
  BY DEF WriteCompanies, WriteExclusions, StudyInv, BuilderInv
<1>3. /\ DOMAIN disk' = StudyFiles
      /\ disk'["manifest"] = disk["manifest"] /\ disk'["model"] = disk["model"]
      /\ disk'["preprocessor"] = disk["preprocessor"]
      /\ disk'["companies"] = disk["companies"] \/ disk'["companies"].of = Frozen
  BY <1>1, <1>2 DEF StudyInv, DiskInv, StudyFiles
<1>4. DiskInv'
  <2>1. Whole("manifest")' => Binds(disk["manifest"])'
    BY <1>2, <1>3 DEF StudyInv, DiskInv, Whole, Binds, TrainedOn
  <2> QED BY <2>1, <1>2, <1>3 DEF StudyInv, DiskInv, Whole
<1>5. BuilderInv'
  BY <1>2 DEF StudyInv, BuilderInv
<1>6. ReaderInv'
  BY <1>2, <1>3 DEF StudyInv, ReaderInv, Binds, TrainedOn
<1> QED BY <1>4, <1>5, <1>6 DEF StudyInv

\* The approval hashes what is now on disk, and the sources as remembered.
LEMMA ApprovalKeeps ==
    ASSUME StudyInv, WriteApproval
    PROVE  StudyInv'
<1>1. /\ disk' = [disk EXCEPT !["approval"] = ApprovalFile]
      /\ builder.pc = "approval" /\ inputs' = inputs /\ tainted' = tainted
      /\ reader' = reader
  BY DEF WriteApproval
<1>2. /\ DOMAIN disk' = StudyFiles
      /\ disk'["manifest"] = disk["manifest"] /\ disk'["model"] = disk["model"]
      /\ disk'["preprocessor"] = disk["preprocessor"]
      /\ disk'["companies"] = disk["companies"]
  BY <1>1 DEF StudyInv, DiskInv, StudyFiles
<1>3. DiskInv'
  <2>1. Whole("manifest")' => Binds(disk["manifest"])'
    BY <1>1, <1>2 DEF StudyInv, DiskInv, Whole, Binds, TrainedOn
  <2> QED BY <2>1, <1>1, <1>2 DEF StudyInv, DiskInv, Whole
<1>4. ReaderInv'
  BY <1>1, <1>2 DEF StudyInv, ReaderInv, Binds, TrainedOn
<1>5. BuilderInv'
  <2>1. CASE builder' = Idle
    BY <2>1 DEF BuilderInv, Idle
  <2>2. CASE builder' = [builder EXCEPT !.pc = "load", !.approval = ApprovalFile]
    <3>1. ApprovalFile.hashes = [inputs EXCEPT !["sources"] = builder.sources]
      BY DEF ApprovalFile
    <3>2. Remembers(ApprovalFile.hashes)
      BY <3>1, <1>1, StudyAssumption DEF Remembers, StudyInv, BuilderInv, DiskInv, Inputs
    <3>3. builder'.approval.hashes = ApprovalFile.hashes
      BY <2>2, <1>1 DEF StudyInv, BuilderInv
    <3>4. Remembers(builder.approval.hashes)'
      BY <3>2, <3>3, <1>1 DEF Remembers
    <3> HIDE DEF ApprovalFile
    <3>5. /\ builder' = [pc |-> "load", kind |-> builder.kind,
                      machine |-> builder.machine, sources |-> builder.sources,
                      code |-> builder.code, approval |-> ApprovalFile,
                      basis |-> builder.basis, next |-> builder.next]
          /\ builder.next = 1
      BY <2>2, <1>1 DEF StudyInv, BuilderInv
    <3> QED BY <3>4, <3>5, <1>1 DEF StudyInv, BuilderInv
  <2> QED BY <2>1, <2>2 DEF WriteApproval
<1> QED BY <1>3, <1>4, <1>5 DEF StudyInv

\* The rebuild reads every input again, but the code it was started with.
LEMMA LoadKeeps ==
    ASSUME StudyInv, LoadAndFit
    PROVE  StudyInv'
<1>1. DiskInv' /\ ReaderInv'
  BY DiskKept, ReaderKept DEF LoadAndFit, StudyInv, DiskInv
<1> DEFINE read == [inputs EXCEPT !["code"] = builder.code]
<1>2. CASE builder' = Idle
  BY <1>1, <1>2 DEF BuilderInv, Idle, StudyInv
<1>3. CASE builder' = [builder EXCEPT !.pc = "write", !.basis = read]
  <2>1. builder.pc = "load" /\ inputs' = inputs /\ tainted' = tainted
    BY DEF LoadAndFit
  <2>2. Remembers(read)
    BY <2>1 DEF Remembers, StudyInv, BuilderInv, DiskInv, Inputs
  <2> HIDE DEF read
  <2>3. /\ builder' = [pc |-> "write", kind |-> builder.kind,
                      machine |-> builder.machine, sources |-> builder.sources,
                      code |-> builder.code, approval |-> builder.approval,
                      basis |-> read, next |-> builder.next]
        /\ builder.next = 1
    BY <1>3, <2>1 DEF StudyInv, BuilderInv
  <2>4. Remembers(builder.basis)' /\ Remembers(builder.approval.hashes)'
    BY <2>1, <2>2, <2>3 DEF Remembers, StudyInv, BuilderInv
  <2>5. BuilderInv'
    BY <2>1, <2>3, <2>4 DEF StudyInv, BuilderInv
  <2> QED BY <1>1, <2>5 DEF StudyInv
<1> QED BY <1>2, <1>3 DEF LoadAndFit

\* An edit during a command taints the input; one in between moves no memory.
LEMMA EditKeepsStudy ==
    ASSUME StudyInv, NEW i \in Inputs, NEW v \in Versions, Edit(i, v)
    PROVE  StudyInv'
<1>1. DiskInv' /\ ReaderInv'
  <2>1. tainted \subseteq tainted' /\ disk' = disk /\ reader' = reader
        /\ inputs' \in [Inputs -> Versions]
    BY DEF Edit, StudyInv, DiskInv
  <2> QED BY <2>1, DiskKept, ReaderKept DEF StudyInv
<1>2. BuilderInv'
  <2>1. CASE builder.pc = "idle"
    BY <2>1 DEF Edit, BuilderInv
  <2>2. CASE builder.pc # "idle"
    <3>1. /\ tainted' = tainted \cup {i} /\ builder' = builder /\ disk' = disk
          /\ \A j \in Inputs \ tainted' : inputs'[j] = inputs[j]
      BY <2>2 DEF Edit, StudyInv, DiskInv
    <3>2. \A j \in {"sources", "code"} : j \notin tainted' => inputs'[j] = inputs[j] /\ j \notin tainted
      BY <3>1 DEF Inputs
    <3>3. builder.pc \in {"load", "write"} => Remembers(builder.approval.hashes)'
      BY <3>1, <2>2 DEF StudyInv, BuilderInv, Remembers
    <3>4. builder.pc = "write" => Remembers(builder.basis)'
      BY <3>1, <2>2 DEF StudyInv, BuilderInv, Remembers
    <3> QED BY <2>2, <3>1, <3>2, <3>3, <3>4 DEF StudyInv, BuilderInv
  <2> QED BY <2>1, <2>2
<1> QED BY <1>1, <1>2 DEF StudyInv

\* A rebuild writes a file.  The manifest binds the files written before it.
LEMMA WriteNextKeeps ==
    ASSUME StudyInv, WriteNext
    PROVE  StudyInv'
<1> DEFINE f == WriteOrder[builder.next]
<1>1. /\ builder.pc = "write" /\ builder.next \in 1 .. 11
      /\ disk' = [disk EXCEPT ![f] = Written(f)]
      /\ f \in StudyFiles \ {"companies", "exclusions", "approval"}
      /\ inputs' = inputs /\ tainted' = tainted
      /\ reader' = IF /\ reader.pc \in {"preprocessor", "model"}
                      /\ f \in {"preprocessor", "model"}
                   THEN [reader EXCEPT !.raced = TRUE] ELSE reader
  BY OrderOfWrites DEF WriteNext, StudyInv, BuilderInv
<1>2. /\ Written(f).is = f
      /\ f \in Based => Written(f).basis = builder.basis
      /\ f = "manifest" => Written(f) = ManifestFile
  BY <1>1, WhatIsWritten
<1>3. /\ Remembers(builder.basis) /\ Remembers(builder.approval.hashes)
      /\ \A i \in 1 .. builder.next - 1 :
            WriteOrder[i] \in Based => disk[WriteOrder[i]].basis = builder.basis
  BY <1>1 DEF StudyInv, BuilderInv
<1>4. ASSUME f = "manifest"
      PROVE  Binds(ManifestFile)
  <2>1. builder.next = 10
    BY <1>1, <1>4, OrderOfWrites
  <2>2. \A g \in Based : disk[g].basis = builder.basis
    <3>1. disk[WriteOrder[1]].basis = builder.basis
      BY <2>1, <1>3, OrderOfWrites DEF Based
    <3>2. disk[WriteOrder[2]].basis = builder.basis
      BY <2>1, <1>3, OrderOfWrites DEF Based
    <3>3. disk[WriteOrder[5]].basis = builder.basis
      BY <2>1, <1>3, OrderOfWrites DEF Based
    <3>4. disk[WriteOrder[7]].basis = builder.basis
      BY <2>1, <1>3, OrderOfWrites DEF Based
    <3> QED BY <3>1, <3>2, <3>3, <3>4, OrderOfWrites DEF Based
  <2>3. \A g \in Based : ManifestFile.hashes[g] = disk[g]
    BY BoundByManifest DEF ManifestFile
  <2>4. /\ ManifestFile.selected = Selected(builder.basis)
        /\ ManifestFile.approval = builder.approval
    BY DEF ManifestFile
  <2> HIDE DEF ManifestFile
  <2> QED BY <2>2, <2>3, <2>4, <1>3 DEF Binds, Remembers, TrainedOn, Based
<1> HIDE DEF f
<1>5. DiskInv'
  <2>1. DOMAIN disk' = StudyFiles /\ disk'["companies"] = disk["companies"]
    BY <1>1 DEF StudyInv, DiskInv
  <2>2. ASSUME Whole("manifest")' PROVE Binds(disk["manifest"])'
    <3>1. CASE f = "manifest"
      <4>1. disk'["manifest"] = ManifestFile
        BY <1>1, <1>2, <3>1 DEF StudyInv, DiskInv
      <4>2. Binds(ManifestFile)
        BY <1>4, <3>1
      <4> QED BY <4>1, <4>2, <1>1 DEF Binds, TrainedOn
    <3>2. CASE f # "manifest"
      <4>1. disk'["manifest"] = disk["manifest"]
        BY <1>1, <3>2 DEF StudyInv, DiskInv
      <4> QED BY <4>1, <2>2, <1>1 DEF StudyInv, DiskInv, Whole, Binds, TrainedOn
    <3> QED BY <3>1, <3>2
  <2> QED BY <2>1, <2>2, <1>1 DEF StudyInv, DiskInv, Whole
<1>6. BuilderInv'
  <2>1. CASE builder' = Idle
    BY <2>1 DEF BuilderInv, Idle
  <2>2. CASE builder.next # 11 /\ builder' = [builder EXCEPT !.next = @ + 1]
    <3>1. /\ builder' = [pc |-> builder.pc, kind |-> builder.kind,
                      machine |-> builder.machine, sources |-> builder.sources,
                      code |-> builder.code, approval |-> builder.approval,
                      basis |-> builder.basis, next |-> builder.next + 1]
      BY <2>2, <1>1 DEF StudyInv, BuilderInv
    <3>2. ASSUME NEW i \in 1 .. builder.next, WriteOrder[i] \in Based
          PROVE  disk'[WriteOrder[i]].basis = builder.basis
      <4>1. CASE i = builder.next
        BY <4>1, <3>2, <1>1, <1>2 DEF StudyInv, DiskInv, f
      <4>2. CASE i # builder.next
        <5>1. i \in 1 .. builder.next - 1 /\ i \in 1 .. 11 /\ WriteOrder[i] # f
          BY <4>2, <1>1, OrderOfWrites DEF f
        <5>2. WriteOrder[i] \in StudyFiles
          BY <5>1, OrderOfWrites
        <5> QED BY <5>1, <5>2, <3>2, <1>1, <1>3 DEF StudyInv, DiskInv
      <4> QED BY <4>1, <4>2
    <3>3. Remembers(builder.basis)' /\ Remembers(builder.approval.hashes)'
      BY <3>1, <1>1, <1>3 DEF Remembers
    <3>4. builder'.next \in 1 .. 11 /\ builder'.next - 1 = builder.next
      BY <3>1, <2>2, <1>1
    <3> QED BY <1>1, <3>1, <3>2, <3>3, <3>4 DEF StudyInv, BuilderInv
  <2> QED BY <2>1, <2>2, OrderOfWrites DEF WriteNext
<1>7. ReaderInv'
  <2>1. CASE reader' = reader /\ (reader.pc = "done" \/ f \notin {"preprocessor", "model"})
    <3>1. f \notin {"preprocessor", "model"} =>
             disk'["model"] = disk["model"] /\ disk'["preprocessor"] = disk["preprocessor"]
      BY <1>1 DEF StudyInv, DiskInv
    <3> QED BY <3>1, <2>1, <1>1 DEF StudyInv, ReaderInv, Binds, TrainedOn
  <2>2. CASE reader' = [reader EXCEPT !.raced = TRUE] /\ reader.pc \in {"preprocessor", "model"}
    <3>1. /\ reader' = [pc |-> reader.pc, raced |-> TRUE,
                     manifest |-> reader.manifest,
                     preprocessor |-> reader.preprocessor, model |-> reader.model]
          /\ Binds(reader.manifest)
      BY <2>2 DEF StudyInv, ReaderInv
    <3>2. Binds(reader.manifest)'
      BY <3>1, <1>1 DEF Binds, TrainedOn
    <3> QED BY <3>1, <3>2 DEF ReaderInv
  <2>3. CASE reader' = reader /\ reader.pc \notin {"preprocessor", "model", "done"}
    BY <2>3 DEF ReaderInv
  <2> QED BY <2>1, <2>2, <2>3, <1>1
<1> QED BY <1>5, <1>6, <1>7 DEF StudyInv

\* What is left of a file whose write was cut short is nobody's.
LEMMA KillKeeps ==
    ASSUME StudyInv, Kill
    PROVE  StudyInv'
<1>1. /\ inputs' = inputs /\ tainted' = tainted /\ builder' = Idle
      /\ DOMAIN disk' = StudyFiles
      /\ \A g \in StudyFiles : disk'[g] = disk[g] \/ disk'[g] = Torn
      /\ reader' = IF /\ reader.pc \in {"preprocessor", "model"} /\ disk' # disk
                   THEN [reader EXCEPT !.raced = TRUE] ELSE reader
  BY DEF Kill
<1>2. {"companies", "manifest"} \subseteq StudyFiles
  BY OrderOfWrites DEF StudyFiles
<1>3. DiskInv'
  <2>1. Whole("manifest")' => disk'["manifest"] = disk["manifest"]
    BY <1>1, <1>2 DEF Whole, Torn
  <2>2. Whole("companies")' => disk'["companies"] = disk["companies"]
    BY <1>1, <1>2 DEF Whole, Torn
  <2>3. Whole("manifest")' => Binds(disk["manifest"])'
    BY <2>1, <1>1 DEF StudyInv, DiskInv, Whole, Binds, TrainedOn
  <2> QED BY <2>2, <2>3, <1>1 DEF StudyInv, DiskInv, Whole
<1>4. BuilderInv'
  BY <1>1 DEF BuilderInv, Idle
<1>5. ReaderInv'
  <2>1. CASE reader' = reader /\ (disk' = disk \/ reader.pc \notin {"preprocessor", "model"})
    BY <2>1, <1>1 DEF StudyInv, ReaderInv, Binds, TrainedOn
  <2>2. CASE reader' = [reader EXCEPT !.raced = TRUE] /\ reader.pc \in {"preprocessor", "model"}
    <3>1. /\ reader' = [pc |-> reader.pc, raced |-> TRUE,
                     manifest |-> reader.manifest,
                     preprocessor |-> reader.preprocessor, model |-> reader.model]
          /\ Binds(reader.manifest)
      BY <2>2 DEF StudyInv, ReaderInv
    <3>2. Binds(reader.manifest)'
      BY <3>1, <1>1 DEF Binds, TrainedOn
    <3> QED BY <3>1, <3>2 DEF ReaderInv
  <2> QED BY <2>1, <2>2, <1>1
<1> QED BY <1>3, <1>4, <1>5 DEF StudyInv

\* Nothing above is about the commit.
LEMMA CommitKeepsStudy == ASSUME StudyInv, Commit PROVE StudyInv'
BY DiskKept, ReaderKept, BuilderKept DEF Commit, StudyInv, DiskInv

\* The loader: what it read is what the manifest it verified names.
LEMMA LoaderKeeps ==
    ASSUME StudyInv, StartPrediction \/ VerifyAgain \/ OpenPreprocessor \/ OpenModel
    PROVE  StudyInv'
<1>1. /\ inputs' = inputs /\ tainted' = tainted /\ builder' = builder /\ disk' = disk
  BY DEF StartPrediction, VerifyAgain, OpenPreprocessor, OpenModel
<1>2. DiskInv' /\ BuilderInv'
  BY <1>1, DiskKept, BuilderKept DEF StudyInv, DiskInv
<1> SUFFICES ReaderInv'
  BY <1>2 DEF StudyInv
<1>3. CASE reader' = Idle \/ StartPrediction
  <2>1. reader'.pc \in {"idle", "verify"}
    BY <1>3 DEF Idle, StartPrediction
  <2> QED BY <2>1 DEF ReaderInv
<1>4. CASE VerifyAgain /\ reader' # Idle
  <2>1. /\ Trusted
        /\ reader' = [pc |-> "preprocessor", raced |-> FALSE,
                       manifest |-> disk["manifest"],
                       preprocessor |-> Absent, model |-> Absent]
    BY <1>4 DEF VerifyAgain
  <2>2. Binds(disk["manifest"])
    BY <2>1 DEF Trusted, StudyInv, DiskInv
  <2>3. Binds(reader.manifest)'
    BY <2>1, <2>2, <1>1 DEF Binds, TrainedOn
  <2>4. /\ reader'.pc = "preprocessor" /\ ~reader'.raced
        /\ reader'.manifest = disk'["manifest"]
        /\ disk'["preprocessor"] = disk["manifest"].hashes["preprocessor"]
        /\ disk'["model"] = disk["manifest"].hashes["model"]
    BY <2>1, <1>1 DEF Trusted
  <2>5. reader' = [pc |-> reader'.pc, raced |-> reader'.raced,
                   manifest |-> reader'.manifest,
                   preprocessor |-> reader'.preprocessor, model |-> reader'.model]
    BY <2>1
  <2> QED BY <2>3, <2>4, <2>5, <1>1 DEF ReaderInv
<1>5. CASE OpenPreprocessor /\ reader' # Idle
  <2>1. /\ reader.pc = "preprocessor"
        /\ reader' = [pc |-> "model", raced |-> reader.raced,
                     manifest |-> reader.manifest,
                     preprocessor |-> disk["preprocessor"], model |-> reader.model]
    BY <1>5 DEF OpenPreprocessor, StudyInv, ReaderInv
  <2>2. Binds(reader.manifest)'
    BY <2>1, <1>1 DEF StudyInv, ReaderInv, Binds, TrainedOn
  <2>3. /\ reader'.pc = "model" /\ reader'.raced = reader.raced
        /\ reader'.manifest = reader.manifest
        /\ reader'.preprocessor = disk["preprocessor"]
    BY <2>1
  <2>4. reader' = [pc |-> reader'.pc, raced |-> reader'.raced,
                   manifest |-> reader'.manifest,
                   preprocessor |-> reader'.preprocessor, model |-> reader'.model]
    BY <2>1
  <2>5. ~reader.raced =>
           /\ disk["preprocessor"] = reader.manifest.hashes["preprocessor"]
           /\ disk["model"] = reader.manifest.hashes["model"]
    BY <2>1 DEF StudyInv, ReaderInv
  <2>6. ~reader'.raced =>
           /\ reader'.preprocessor = reader'.manifest.hashes["preprocessor"]
           /\ disk'["model"] = reader'.manifest.hashes["model"]
    BY <2>3, <2>5, <1>1
  <2> QED BY <2>2, <2>3, <2>4, <2>6 DEF ReaderInv
<1>6. CASE OpenModel /\ reader' # Idle
  <2>1. /\ reader.pc = "model"
        /\ reader' = [pc |-> "done", raced |-> reader.raced,
                     manifest |-> reader.manifest,
                     preprocessor |-> reader.preprocessor, model |-> disk["model"]]
    BY <1>6 DEF OpenModel, StudyInv, ReaderInv
  <2>2. Binds(reader.manifest)'
    BY <2>1, <1>1 DEF StudyInv, ReaderInv, Binds, TrainedOn
  <2>3. /\ reader'.pc = "done" /\ reader'.raced = reader.raced
        /\ reader'.manifest = reader.manifest
        /\ reader'.preprocessor = reader.preprocessor
        /\ reader'.model = disk["model"]
    BY <2>1
  <2>4. reader' = [pc |-> reader'.pc, raced |-> reader'.raced,
                   manifest |-> reader'.manifest,
                   preprocessor |-> reader'.preprocessor, model |-> reader'.model]
    BY <2>1
  <2>5. ~reader.raced =>
           /\ reader.preprocessor = reader.manifest.hashes["preprocessor"]
           /\ disk["model"] = reader.manifest.hashes["model"]
    BY <2>1 DEF StudyInv, ReaderInv
  <2>6. ~reader'.raced =>
           /\ reader'.preprocessor = reader'.manifest.hashes["preprocessor"]
           /\ reader'.model = reader'.manifest.hashes["model"]
    BY <2>3, <2>5, <1>1
  <2> QED BY <2>2, <2>3, <2>4, <2>6 DEF ReaderInv
<1> QED BY <1>3, <1>4, <1>5, <1>6

\* Every step of the study keeps the invariant.
LEMMA StudyInvStep == StudyInv /\ [StudyNext]_studyVars => StudyInv'
<1> SUFFICES ASSUME StudyInv, [StudyNext]_studyVars PROVE StudyInv'
  OBVIOUS
<1>1. CASE UNCHANGED studyVars
  BY <1>1, DiskKept, ReaderKept, BuilderKept DEF studyVars, StudyInv, DiskInv
<1>2. CASE StudyNext
  BY <1>2, StartCommandKeeps, CompaniesKeeps, ApprovalKeeps, LoadKeeps,
     WriteNextKeeps, KillKeeps, EditKeepsStudy, CommitKeepsStudy, LoaderKeeps
     DEF StudyNext
<1> QED BY <1>1, <1>2

\* The invariant of the fitted reference: a manifest on disk or in a loader's
\* hands binds one rebuild, whatever was killed, torn or edited.
THEOREM StudyInvariant == StudySpec => []StudyInv
BY StudyInvInit, StudyInvStep, PTL DEF StudySpec

\* The files a verified release is made of are the ones its manifest binds.
LEMMA ReleasesAreOneStudy == StudyInv => ReleaseIsOneStudy
<1> SUFFICES ASSUME StudyInv, NEW m \in Machines, ReleaseHolds(m)
             PROVE  /\ \A f \in {"preprocessor", "model", "replay"} :
                           TrainedOn(disk[f], inputs)
                    /\ disk["model"].basis = disk["preprocessor"].basis
                    /\ disk["canonical"].selected = Selected(disk["model"].basis)
                    /\ disk["selective"].basis = disk["model"].basis
                    /\ inputs["sources"] = Frozen
                    /\ tainted = {} => /\ disk["model"].basis = inputs
                                       /\ disk["model"].basis["experiment_config"] = Drafted
  BY DEF ReleaseIsOneStudy
<1> DEFINE b == disk["manifest"].hashes["model"].basis
<1>1. Binds(disk["manifest"])
  BY DEF StudyInv, DiskInv, ReleaseHolds, Verifies, ManifestHolds
<1>2. \A f \in Based : disk[f].basis = b
  <2>1. \A f \in Based : disk["manifest"].hashes[f] = disk[f]
    BY BoundByManifest DEF ReleaseHolds, Verifies, ManifestHolds
  <2> QED BY <2>1, <1>1 DEF Binds, Based
<1>3. disk["manifest"].approval.hashes = inputs
  BY DEF ReleaseHolds, Verifies, ManifestHolds, DevelopmentHolds
<1>4. \A i \in Inputs \ tainted : b[i] = inputs[i]
  BY <1>1, <1>3 DEF Binds, TrainedOn
<1>5. disk["canonical"].selected = Selected(b)
  BY <1>1 DEF Binds, ReleaseHolds, Verifies, CanonicalHolds, SelectionHolds
<1>6. inputs["sources"] = Frozen
  BY DEF ReleaseHolds, Verifies, DevelopmentHolds, StudyInv, DiskInv
<1>7. ASSUME tainted = {}
      PROVE  b = inputs /\ b["experiment_config"] = Drafted
  <2>1. b \in [Inputs -> Versions] /\ inputs \in [Inputs -> Versions]
    BY <1>1 DEF Binds, StudyInv, DiskInv
  <2>2. \A i \in Inputs : b[i] = inputs[i]
    BY <1>4, <1>7
  <2>3. b = inputs
    BY <2>1, <2>2
  <2> QED BY <2>3 DEF ReleaseHolds, ContractHolds
<1> HIDE DEF b
<1> QED BY <1>2, <1>4, <1>5, <1>6, <1>7 DEF TrainedOn, Based

\* The loader's two files are those of the manifest it verified, unless raced.
LEMMA ScoresAreOneStudy == StudyInv => ScoresComeFromOneStudy
BY DEF StudyInv, ReaderInv, Binds, ScoresComeFromOneStudy, TrainedOn

\* PublishedIsOneStudy for any inputs, grids, fits, machines and edits: what
\* verify_artifact accepts, and what predict_scores computes with, is of one
\* study, except for inputs edited while a command was reading them.
THEOREM PublishedIsAlwaysOneStudy == StudySpec => []PublishedIsOneStudy
<1>1. StudyInv => PublishedIsOneStudy
  BY ReleasesAreOneStudy, ScoresAreOneStudy DEF PublishedIsOneStudy
<1> QED BY <1>1, StudyInvariant, PTL
=============================================================================

--------------------------- MODULE StudyArtifacts ---------------------------
(***************************************************************************)
(* The fitted research reference (research/strong_tabular_reference): the  *)
(* command that approves the development data, the one that rebuilds the   *)
(* reference, the verifier, the draft-contract check, and the loader that  *)
(* scores with the fitted files.  Nothing but the files on disk connects   *)
(* them: a command may be killed between, or within, any two writes, and   *)
(* the files it reads may be edited while its nested cross-validation      *)
(* runs.                                                                   *)
(*                                                                         *)
(* A file is its content, and a content is the record of what it was       *)
(* derived from.  A SHA-256 of a file is then the content itself (the hash *)
(* is taken to be collision free), so that two runs over the same inputs   *)
(* write the same files, as a seeded, deterministic fit does.              *)
(***************************************************************************)
EXTENDS Naturals, FiniteSets, Sequences

CONSTANTS
    Versions,      \* the contents an input file can have
    Frozen,        \* the one the replication packet's manifest.json records
    Drafted,       \* the one contract_identity.json records
    Families, Blocks,          \* model families, and the blocks that can win
    FamilyRank, BlockRank,     \* [Families -> Nat], [Blocks -> Nat]
    Grid(_, _),    \* parameters an experiment config lists for a family
    Inner(_, _, _),\* basis, candidate, parameters: cross-validated metrics
    Outer(_, _),   \* basis, candidate: mean outer-fold metrics
    Failed,        \* a fit that raised
    Machines, Windows, GenerationLock,  \* machines; those on Windows; those
                                        \* with the archived requirements lock
    Libraries(_),  \* numeric libraries of a machine
    MaxEvents, MaxCommits  \* bounds: edits and commands together, commits

ASSUME StudyAssumption ==
    /\ Frozen \in Versions /\ Drafted \in Versions
    /\ FamilyRank \in [Families -> Nat] /\ BlockRank \in [Blocks -> Nat]
    /\ Windows \subseteq Machines /\ GenerationLock \subseteq Machines
    /\ {MaxEvents, MaxCommits} \subseteq Nat

\* The files an edit can change: the E4-S replication packet, the feature
\* schema, the experiment and run configurations, the two command scripts.
Inputs == {"sources", "feature_schema", "experiment_config", "run_config",
           "code"}

\* What a rebuild writes after approval, in its order.  "candidates" stands
\* for fold_assignments, candidate_results, oof_predictions and
\* observability_diagnostic, which are four renderings of one value.
WriteOrder == << "preprocessor", "model", "candidates", "reference",
                 "selective", "selection", "replay", "runtime", "report",
                 "manifest", "canonical" >>

\* The files artifact_manifest.json binds by hash.
BoundFiles == {WriteOrder[i] : i \in 1 .. 9}

StudyFiles == {WriteOrder[i] : i \in DOMAIN WriteOrder}
                  \cup {"companies", "exclusions", "approval"}

Candidates == Families \X Blocks

VARIABLES
    inputs,     \* the input files
    head,       \* the commit git rev-parse HEAD answers
    disk,       \* the files the commands write
    builder,    \* the approve or rebuild command under way
    reader,     \* a predict_scores call under way
    edits,      \* edits made so far
    builds,     \* commands started so far
    tainted     \* history: inputs edited while a command was under way

studyVars == << inputs, head, disk, builder, reader, edits, builds, tainted >>

\* A file that is not there, and one whose write was cut short.
Absent == [is |-> "absent"]
Torn   == [is |-> "torn"]
Whole(f) == disk[f].is = f

-----------------------------------------------------------------------------
(* Mechanical selection *)

\* The order both rankings use: more AUROC, then more PR-AUC, then a tie-break.
Ahead(m, n, tie) ==
    \/ m.auroc > n.auroc
    \/ m.auroc = n.auroc /\ m.prauc > n.prauc
    \/ m.auroc = n.auroc /\ m.prauc = n.prauc /\ tie

\* The records of one parameter search.  A fit that raises is kept, and is
\* not eligible.
Search(b, c) ==
    [p \in Grid(b.experiment_config, c[1]) |-> Inner(b, c, p)]

EligibleIn(records) == {p \in DOMAIN records : records[p] # Failed}

\* Parameters are naturals, ordered as their canonical JSON is.
ParameterWinner(records) ==
    CHOOSE p \in EligibleIn(records) :
        \A q \in EligibleIn(records) \ {p} :
            Ahead(records[p], records[q], p < q)

CandidateWinner(results) ==
    CHOOSE c \in Candidates :
        \A d \in Candidates \ {c} :
            Ahead(results[c].metrics, results[d].metrics,
                  \/ FamilyRank[c[1]] < FamilyRank[d[1]]
                  \/ /\ FamilyRank[c[1]] = FamilyRank[d[1]]
                     /\ BlockRank[c[2]] < BlockRank[d[2]])

\* Every candidate must be fitted: one whose search has no eligible
\* parameters, or whose outer fit raises, ends the rebuild.
Fittable(b) ==
    \A c \in Candidates :
        /\ EligibleIn(Search(b, c)) # {}
        /\ Outer(b, c) # Failed

CandidateResults(b) ==
    [c \in Candidates |-> [metrics |-> Outer(b, c), search |-> Search(b, c)]]

\* What the rebuild carries into every file it writes: the selected candidate
\* and its final parameters.
Selected(b) ==
    LET c == CandidateWinner(CandidateResults(b))
    IN  [candidate |-> c, parameters |-> ParameterWinner(Search(b, c))]

-----------------------------------------------------------------------------
(* The files *)

\* The approved development manifest: the sources as they were hashed when
\* the command began, everything else as it is now, and the company lists on
\* disk.
ApprovalFile ==
    [is |-> "approval",
     hashes |-> [inputs EXCEPT !["sources"] = builder.sources],
     companies |-> disk["companies"], exclusions |-> disk["exclusions"],
     commit |-> head]

\* The label-free profile is built from the rows and the schema in memory,
\* but its source hash and its configuration are read again.
ReferenceFile ==
    [is |-> "reference", rows |-> builder.basis["sources"],
     source_sha |-> inputs["sources"],
     schema |-> builder.basis["feature_schema"],
     config |-> inputs["run_config"]]

SelectiveFile ==
    [is |-> "selective", basis |-> builder.basis, config |-> inputs["run_config"],
     reference |-> disk["reference"]]

\* The configurations are hashed when the record is written.
SelectionFile ==
    [is |-> "selection", approval |-> builder.approval,
     experiment_config |-> inputs["experiment_config"],
     run_config |-> inputs["run_config"],
     selected |-> Selected(builder.basis),
     final_search |-> Search(builder.basis, Selected(builder.basis).candidate)]

RuntimeFile ==
    [is |-> "runtime", machine |-> builder.machine, commit |-> head]

ManifestFile ==
    [is |-> "manifest", approval |-> builder.approval,
     schema |-> builder.basis["feature_schema"],
     selected |-> Selected(builder.basis), runtime |-> disk["runtime"],
     hashes |-> [f \in BoundFiles |-> disk[f]]]

\* The last file repeats the headline results and names the fitted artifact.
CanonicalFile ==
    [is |-> "canonical", selected |-> Selected(builder.basis),
     oof |-> Outer(builder.basis, Selected(builder.basis).candidate),
     selective |-> disk["selective"], reference |-> disk["reference"],
     fitted |-> disk["manifest"]]

\* What the rebuild writes to a file.
Written(f) ==
    CASE f \in {"preprocessor", "model"} ->
            [is |-> f, basis |-> builder.basis, libs |-> Libraries(builder.machine)]
      [] f = "candidates" ->
            [is |-> f, schema |-> builder.basis["feature_schema"],
             results |-> CandidateResults(builder.basis)]
      [] f = "reference" -> ReferenceFile
      [] f = "selective" -> SelectiveFile
      [] f = "selection" -> SelectionFile
      [] f = "replay" ->
            [is |-> f, basis |-> builder.basis, libs |-> Libraries(builder.machine)]
      [] f = "runtime" -> RuntimeFile
      [] f = "report" -> [is |-> f, status |-> "PASS"]
      [] f = "manifest" -> ManifestFile
      [] f = "canonical" -> CanonicalFile

-----------------------------------------------------------------------------
(* Approving and rebuilding *)

Idle == [pc |-> "idle"]

StudyInit ==
    /\ inputs = [i \in Inputs |-> Frozen]
    /\ head = 0
    /\ disk = [f \in StudyFiles |-> Absent]
    /\ builder = Idle
    /\ reader = Idle
    /\ edits = 0
    /\ builds = 0
    /\ tainted = {}

\* approve_development_data.build hashes the six source files and stops
\* unless they are the packet's.  A rebuild approves first; the scripts it
\* runs were read when the process started.
StartCommand(kind, m) ==
    /\ builder.pc = "idle"
    /\ edits + builds < MaxEvents
    /\ inputs["sources"] = Frozen
    /\ builder' = [pc |-> "companies", kind |-> kind, machine |-> m,
                   sources |-> inputs["sources"], code |-> inputs["code"],
                   approval |-> Absent, basis |-> inputs, next |-> 1]
    /\ builds' = builds + 1
    /\ UNCHANGED << inputs, head, disk, reader, edits, tainted >>

\* The 675 labelled companies, then the 2,000 companies barred from E5, both
\* from the packet in memory.
WriteCompanies ==
    /\ builder.pc = "companies"
    /\ disk' = [disk EXCEPT !["companies"] =
                    [is |-> "companies", of |-> builder.sources]]
    /\ builder' = [builder EXCEPT !.pc = "exclusions"]
    /\ UNCHANGED << inputs, head, reader, edits, builds, tainted >>

WriteExclusions ==
    /\ builder.pc = "exclusions"
    /\ disk' = [disk EXCEPT !["exclusions"] =
                    [is |-> "exclusions", of |-> builder.sources]]
    /\ builder' = [builder EXCEPT !.pc = "approval"]
    /\ UNCHANGED << inputs, head, reader, edits, builds, tainted >>

WriteApproval ==
    /\ builder.pc = "approval"
    /\ disk' = [disk EXCEPT !["approval"] = ApprovalFile]
    /\ builder' = IF builder.kind = "approve" THEN Idle
                  ELSE [builder EXCEPT !.pc = "load", !.approval = ApprovalFile]
    /\ UNCHANGED << inputs, head, reader, edits, builds, tainted >>

\* run() validates the manifest it was handed against the schema on disk,
\* reads every input again, and fits.  Drift or an unfittable candidate ends
\* it before anything is written.
LoadAndFit ==
    LET basis == [inputs EXCEPT !["code"] = builder.code]
        works == /\ builder.approval.hashes["feature_schema"]
                        = inputs["feature_schema"]
                 /\ Fittable(basis)
    IN  /\ builder.pc = "load"
        /\ builder' = IF works
                      THEN [builder EXCEPT !.pc = "write", !.basis = basis]
                      ELSE Idle
        /\ UNCHANGED << inputs, head, disk, reader, edits, builds, tainted >>

WriteNext ==
    LET f == WriteOrder[builder.next] IN
    /\ builder.pc = "write"
    /\ disk' = [disk EXCEPT ![f] = Written(f)]
    /\ builder' = IF builder.next = Len(WriteOrder) THEN Idle
                  ELSE [builder EXCEPT !.next = @ + 1]
    /\ reader' = IF /\ reader.pc \in {"preprocessor", "model"}
                    /\ f \in {"preprocessor", "model"}
                 THEN [reader EXCEPT !.raced = TRUE] ELSE reader
    /\ UNCHANGED << inputs, head, edits, builds, tainted >>

\* The command is killed: between two writes, or in one, which truncates the
\* file it was writing (path.write_bytes does not replace atomically).
NextFile ==
    CASE builder.pc \in {"companies", "exclusions", "approval"} -> {builder.pc}
      [] builder.pc = "write" -> {WriteOrder[builder.next]}
      [] OTHER -> {}

Kill ==
    /\ builder.pc # "idle"
    /\ builder' = Idle
    /\ \E torn \in {{}, NextFile} :
        disk' = [f \in StudyFiles |-> IF f \in torn THEN Torn ELSE disk[f]]
    /\ reader' = IF /\ reader.pc \in {"preprocessor", "model"}
                    /\ disk' # disk
                 THEN [reader EXCEPT !.raced = TRUE] ELSE reader
    /\ UNCHANGED << inputs, head, edits, builds, tainted >>

\* Somebody edits an input, or puts it back; or commits.
Edit(i, v) ==
    /\ edits + builds < MaxEvents
    /\ v # inputs[i]
    /\ inputs' = [inputs EXCEPT ![i] = v]
    /\ edits' = edits + 1
    /\ tainted' = IF builder.pc = "idle" THEN tainted ELSE tainted \cup {i}
    /\ UNCHANGED << head, disk, builder, reader, builds >>

Commit ==
    /\ head < MaxCommits
    /\ head' = head + 1
    /\ UNCHANGED << inputs, disk, builder, reader, edits, builds, tainted >>

-----------------------------------------------------------------------------
(* Scoring *)

\* Mutant: the loader does not compare the preprocessor's hash.
Trusted_ModelOnly ==
    /\ Whole("manifest") /\ Whole("approval")
    /\ disk["manifest"].schema = inputs["feature_schema"]
    /\ disk["manifest"].approval = disk["approval"]
    /\ disk["manifest"].hashes["model"] = disk["model"]

\* artifact._verified_manifest: everything the loader looks at before it
\* unpickles.
Trusted ==
    /\ Whole("manifest") /\ Whole("approval")
    /\ disk["manifest"].schema = inputs["feature_schema"]
    /\ disk["manifest"].approval = disk["approval"]
    /\ disk["manifest"].hashes["preprocessor"] = disk["preprocessor"]
    /\ disk["manifest"].hashes["model"] = disk["model"]

\* predict_scores verifies, compares the caller's feature names, verifies
\* again in load_trusted_artifact, and opens the two pickles one after the
\* other.  A check that fails raises.
StartPrediction ==
    /\ reader.pc \in {"idle", "done"}
    /\ Trusted
    /\ reader' = [pc |-> "verify", selected |-> disk["manifest"].selected]
    /\ UNCHANGED << inputs, head, disk, builder, edits, builds, tainted >>

VerifyAgain ==
    /\ reader.pc = "verify"
    /\ reader' = IF Trusted
                 THEN [pc |-> "preprocessor", raced |-> FALSE,
                       manifest |-> disk["manifest"],
                       preprocessor |-> Absent, model |-> Absent]
                 ELSE Idle
    /\ UNCHANGED << inputs, head, disk, builder, edits, builds, tainted >>

OpenPreprocessor ==
    /\ reader.pc = "preprocessor"
    /\ reader' = IF Whole("preprocessor")
                 THEN [reader EXCEPT !.pc = "model",
                                     !.preprocessor = disk["preprocessor"]]
                 ELSE Idle
    /\ UNCHANGED << inputs, head, disk, builder, edits, builds, tainted >>

OpenModel ==
    /\ reader.pc = "model"
    /\ reader' = IF Whole("model")
                 THEN [reader EXCEPT !.pc = "done", !.model = disk["model"]]
                 ELSE Idle
    /\ UNCHANGED << inputs, head, disk, builder, edits, builds, tainted >>

StudyNext ==
    \/ \E kind \in {"approve", "rebuild"}, m \in Machines : StartCommand(kind, m)
    \/ WriteCompanies \/ WriteExclusions \/ WriteApproval
    \/ LoadAndFit \/ WriteNext \/ Kill
    \/ \E i \in Inputs, v \in Versions : Edit(i, v)
    \/ Commit
    \/ StartPrediction \/ VerifyAgain \/ OpenPreprocessor \/ OpenModel

StudySpec == StudyInit /\ [][StudyNext]_studyVars
-----------------------------------------------------------------------------
(* Verification without retraining: verify_artifact.verify, on machine m.  *)
(* It changes nothing, so it is a predicate of the disk and the inputs.    *)

\* Mutant: the company lists are compared, the inventory of hashes is not.
DevelopmentHolds_ListsOnly ==
    /\ \A f \in {"approval", "companies", "exclusions"} : Whole(f)
    /\ disk["approval"].companies = disk["companies"]
    /\ disk["approval"].exclusions = disk["exclusions"]
    /\ disk["companies"].of = inputs["sources"]
    /\ disk["exclusions"].of = inputs["sources"]

\* _verify_development_data: the manifest's inventory of hashes is matched
\* against the files, and the company lists against the packet.
DevelopmentHolds ==
    /\ \A f \in {"approval", "companies", "exclusions"} : Whole(f)
    /\ disk["approval"].hashes = inputs
    /\ disk["approval"].companies = disk["companies"]
    /\ disk["approval"].exclusions = disk["exclusions"]
    /\ disk["companies"].of = inputs["sources"]
    /\ disk["exclusions"].of = inputs["sources"]

ManifestHolds ==
    /\ Whole("manifest")
    /\ disk["manifest"].schema = inputs["feature_schema"]
    /\ disk["manifest"].approval = disk["approval"]
    /\ \A f \in BoundFiles : disk["manifest"].hashes[f] = disk[f]

\* The recorded platform must be Windows with the archived lock, the numeric
\* libraries those of the machine that verifies, the commit one git knows.
RuntimeHolds(m) ==
    /\ Whole("runtime")
    /\ disk["manifest"].runtime = disk["runtime"]
    /\ disk["runtime"].machine \in Windows \cap GenerationLock
    /\ Libraries(disk["runtime"].machine) = Libraries(m)
    /\ disk["runtime"].commit <= head

\* Every candidate, over the grid and the feature order now on disk.
CandidatesHold ==
    /\ Whole("candidates")
    /\ disk["candidates"].schema = inputs["feature_schema"]
    /\ \A c \in Candidates :
          DOMAIN disk["candidates"].results[c].search
              = Grid(inputs["experiment_config"], c[1])

\* The ranking and the final parameters are worked out again.
SelectionHolds ==
    LET s == disk["selection"]
        winner == CandidateWinner(disk["candidates"].results)
    IN  /\ Whole("selection")
        /\ s.experiment_config = inputs["experiment_config"]
        /\ s.run_config = inputs["run_config"]
        /\ s.approval = disk["approval"]
        /\ s.selected.candidate = winner
        /\ DOMAIN s.final_search = Grid(inputs["experiment_config"], winner[1])
        /\ s.selected.parameters = ParameterWinner(s.final_search)
        /\ disk["manifest"].selected = s.selected

ReferenceHolds ==
    /\ Whole("reference")
    /\ disk["reference"].source_sha = inputs["sources"]
    /\ disk["reference"].schema = inputs["feature_schema"]
    /\ disk["reference"].config = inputs["run_config"]
    /\ disk["reference"].rows = inputs["sources"]

SelectiveHolds ==
    /\ Whole("selective")
    /\ disk["selective"].config = inputs["run_config"]
    /\ disk["selective"].reference = disk["reference"]

CanonicalHolds ==
    LET k == disk["canonical"]
        winner == CandidateWinner(disk["candidates"].results)
    IN  /\ Whole("canonical")
        /\ k.oof = disk["candidates"].results[winner].metrics
        /\ k.selected = disk["selection"].selected
        /\ k.selective = disk["selective"]
        /\ k.reference = disk["reference"]
        /\ k.fitted = disk["manifest"]

\* The fitted files score the replay rows as recorded.
ReplayHolds(m) ==
    /\ Whole("replay") /\ Trusted /\ Whole("preprocessor") /\ Whole("model")
    /\ disk["replay"].basis = disk["model"].basis
    /\ disk["replay"].libs = Libraries(m)

Verifies(m) ==
    /\ DevelopmentHolds /\ ManifestHolds /\ RuntimeHolds(m)
    /\ CandidatesHold /\ SelectionHolds /\ ReferenceHolds
    /\ SelectiveHolds /\ CanonicalHolds /\ ReplayHolds(m)

\* contract.main: the draft contract's own hashes.
ContractHolds ==
    /\ inputs["feature_schema"] = Drafted
    /\ inputs["experiment_config"] = Drafted

\* scripts/verify_v041.verify_artifacts runs both.
ReleaseHolds(m) == ContractHolds /\ Verifies(m)

-----------------------------------------------------------------------------
(* Properties *)

\* What a fitted file was trained on agrees with the inputs in all but the
\* ones that were edited while a command was reading them.
TrainedOn(file, values) ==
    \A i \in Inputs \ tainted : file.basis[i] = values[i]

\* A release that verifies is one whole study: every file on disk, those of
\* an interrupted rebuild included, tells of the same candidate, trained on
\* the inputs now on disk, which are the packet's and the contract's.  The
\* exception is an input edited, and put back, while a command ran: the
\* rebuild hashes its files at other moments than it reads them.
ReleaseIsOneStudy ==
    \A m \in Machines : ReleaseHolds(m) =>
        /\ \A f \in {"preprocessor", "model", "replay"} :
              TrainedOn(disk[f], inputs)
        /\ disk["model"].basis = disk["preprocessor"].basis
        /\ disk["canonical"].selected = Selected(disk["model"].basis)
        /\ disk["selective"].basis = disk["model"].basis
        /\ inputs["sources"] = Frozen
        /\ tainted = {} => /\ disk["model"].basis = inputs
                           /\ disk["model"].basis["experiment_config"] = Drafted

\* A score is computed with a preprocessor and a model of one rebuild, the
\* one the verified manifest names, on the data approved with it; unless a
\* rebuild replaced them between the loader's check and its reads.
ScoresComeFromOneStudy ==
    (reader.pc = "done" /\ ~reader.raced) =>
        /\ reader.model.basis = reader.preprocessor.basis
        /\ reader.manifest.selected = Selected(reader.model.basis)
        /\ TrainedOn(reader.model, reader.manifest.approval.hashes)

\* Whatever leaves the study, a release or a score, is of one study.
PublishedIsOneStudy == ReleaseIsOneStudy /\ ScoresComeFromOneStudy

=============================================================================

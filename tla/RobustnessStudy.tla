--------------------------- MODULE RobustnessStudy ---------------------------
(***************************************************************************)
(* The robustness study E4-R (research/e4r_automated_robustness):          *)
(* run_e4r.py writes its results one file after the other, over what is    *)
(* there, in four modes; verify_e4r.py says of a work tree whether the     *)
(* study holds.  The packet the study reads is generated anew elsewhere,   *)
(* its configuration is edited and frozen again, and runs are killed in    *)
(* the middle of a file.                                                   *)
(*                                                                         *)
(* A result is where it stems from: the packet of the run that computed    *)
(* it, the packet the out-of-fold scores it used were fitted on, and the   *)
(* configuration.  Different packets may have the same labels.             *)
(***************************************************************************)
EXTENDS Naturals, Sequences, SequencesExt, FiniteSets

CONSTANTS
    Packets,           \* versions of the replication packet, each with its manifest
    Labels,            \* [Packets -> labels, companies and sectors]
    Leaking,           \* packets in which the audit confirms leakage
    Configs,           \* versions of experiment_config.json with its feature sets
    MaxRuns, MaxEdits  \* bounds

\* The study that was run first passed its audit.
ASSUME FirstPacketAssumption == 1 \notin Leaking

VARIABLES
    input,   \* what people edit: the packet, the configuration, the extension's
    files,   \* results on disk
    run,     \* the run under way
    runs, edits

robustVars == << input, files, run, runs, edits >>

Broken == 0      \* a packet that its manifest does not match
Absent == 0      \* no extension_config.json

-----------------------------------------------------------------------------
(* What a run does, step by step: mostly a file to write.                   *)

Primary ==
    << "leakage_audit", "temporal_ablation", "temporal_contribution_summary", "scores",
       "oof_predictions.csv", "oof_predictions", "model_results", "statistical_tests",
       "temporal_incremental_test", "subgroup_results", "influence_analysis",
       "negative_controls", "calibration_diagnostics", "threshold_robustness",
       "complexity_comparison" >>

\* "temporal_shuffle" writes negative_controls.json again.
Extensions ==
    << "missingness_ablation", "boosting_temporal_increment", "temporal_shuffle",
       "sector_heterogeneity", "model_stability" >>

\* The manifest is written before the report, which quotes it, and after.
Finish == << "figures", "manifest", "FINAL_REPORT", "manifest" >>

Plan(flags) ==
    CASE "--extensions" \in flags -> << "scores" >> \o Extensions \o Finish
      [] "--extensions" \notin flags /\ "--skip-extensions" \in flags -> Primary \o Finish
      [] OTHER -> Primary \o Extensions \o Finish

Target(step) == IF step = "temporal_shuffle" THEN "negative_controls" ELSE step
Results == {Target(s) : s \in ToSet(Primary \o Extensions \o Finish)} \ {"scores"}

\* Two files are in no manifest.
Listed == Results \ {"manifest", "threshold_robustness", "temporal_incremental_test"}

Torn == [torn |-> TRUE]
Whole(f) == "torn" \notin DOMAIN files[f]

\* What a step reads from disk; it raises if a file of these is torn.
Reads(step) ==
    CASE step = "temporal_shuffle" -> {"oof_predictions", "negative_controls"}
      [] step = "figures" ->
            {"oof_predictions", "model_results", "temporal_ablation", "statistical_tests",
             "subgroup_results", "calibration_diagnostics", "missingness_ablation",
             "boosting_temporal_increment", "negative_controls", "sector_heterogeneity"}
      [] step = "FINAL_REPORT" ->
            Results \ {"oof_predictions.csv", "oof_predictions", "figures", "FINAL_REPORT"}
      [] OTHER -> {}

-----------------------------------------------------------------------------
(* The content of each file                                                 *)

File(data, scores) == [data |-> data, scores |-> scores, config |-> run.config]

Computed == File(run.packet, run.packet)   \* from the packet alone
Scored == File(run.packet, run.ledger)     \* with the scores of the ledger

\* A reloaded ledger is written back as it was, labels and all.
LedgerFile == IF run.fit THEN Computed ELSE File(run.ledger, run.ledger)

\* Reloaded results are kept, those of B0 and B6 among them.
ResultsFile == IF run.fit THEN Computed ELSE File(run.results, run.results)

\* A mutant: the shuffle of an earlier run is kept.
ControlsFile_KeepsShuffle ==
    IF "folds" \in DOMAIN files["negative_controls"]
    THEN [data |-> run.packet, scores |-> run.ledger, config |-> run.config,
          shuffled |-> files["negative_controls"].shuffled,
          folds |-> files["negative_controls"].folds]
    ELSE Scored

\* The permuted labels; the block of the shuffle only says who computes it.
ControlsFile == Scored

\* What is there, with the block of the shuffle replaced: its packet, and
\* whether its folds are those of the ledger on disk.
ShuffleFile ==
    LET old == files["negative_controls"] IN
    [data |-> old.data, scores |-> old.scores, config |-> old.config,
     shuffled |-> run.packet,
     folds |-> Labels[run.packet] = Labels[files["oof_predictions"].data]]

\* Figures and report are made from the other files; only their hashes count,
\* so that the two they are mostly about may stand for them all.
Digest == [of |-> << files["statistical_tests"], files["model_results"] >>]
FiguresFile == Digest
ReportFile == Digest

\* config_hash is of what was read at the start, everything else of the disk.
ManifestFile ==
    [outputs |-> [f \in Listed |-> files[f]],
     onDisk |-> [config |-> input.config, extension |-> input.extension],
     config |-> run.config]

\* The stages that look at the packet alone: the audit, B6 without each of its
\* terms, what its temporal terms contribute, the models with and without the
\* temporal columns, which signs and columns each fold keeps.
AuditFile == Computed
AblationFile == Computed
ContributionFile == Computed
IncrementalFile == Computed
StabilityFile == Computed

\* The stages that weigh the scores of the ledger against the packet's labels.
StatisticsFile == Scored
SubgroupsFile == Scored
InfluenceFile == Scored
CalibrationFile == Scored
ThresholdsFile == Scored
HeterogeneityFile == Scored

\* New arms and boosted models, fitted on the packet, beside the ledger's.
MissingnessFile == Scored
BoostingFile == Scored

\* Complexity is a summary of the results.
ComplexityFile == ResultsFile

ContentOf(step) ==
    CASE step \in {"oof_predictions.csv", "oof_predictions"} -> LedgerFile
      [] step = "leakage_audit" -> AuditFile
      [] step = "temporal_ablation" -> AblationFile
      [] step = "temporal_contribution_summary" -> ContributionFile
      [] step = "temporal_incremental_test" -> IncrementalFile
      [] step = "model_stability" -> StabilityFile
      [] step = "statistical_tests" -> StatisticsFile
      [] step = "subgroup_results" -> SubgroupsFile
      [] step = "influence_analysis" -> InfluenceFile
      [] step = "calibration_diagnostics" -> CalibrationFile
      [] step = "threshold_robustness" -> ThresholdsFile
      [] step = "sector_heterogeneity" -> HeterogeneityFile
      [] step = "missingness_ablation" -> MissingnessFile
      [] step = "boosting_temporal_increment" -> BoostingFile
      [] step = "model_results" -> ResultsFile
      [] step = "complexity_comparison" -> ComplexityFile
      [] step = "negative_controls" -> ControlsFile
      [] step = "temporal_shuffle" -> ShuffleFile
      [] step = "figures" -> FiguresFile
      [] step = "FINAL_REPORT" -> ReportFile
      [] step = "manifest" -> ManifestFile

-----------------------------------------------------------------------------
(* Runs *)

NoRun == [steps |-> << >>]

\* A study that was run in full, on the first packet.
FirstFile(f) ==
    CASE f = "negative_controls" ->
            [data |-> 1, scores |-> 1, config |-> 1, shuffled |-> 1, folds |-> TRUE]
      [] f \in {"figures", "FINAL_REPORT"} ->
            [of |-> << [data |-> 1, scores |-> 1, config |-> 1],
                       [data |-> 1, scores |-> 1, config |-> 1] >>]
      [] OTHER -> [data |-> 1, scores |-> 1, config |-> 1]

RobustInit ==
    /\ input = [packet |-> 1, config |-> 1, sets |-> 1, extension |-> 1]
    /\ files = [f \in Results |->
                  IF f = "manifest"
                  THEN [outputs |-> [g \in Listed |-> FirstFile(g)],
                        onDisk |-> [config |-> 1, extension |-> 1], config |-> 1]
                  ELSE FirstFile(f)]
    /\ run = NoRun
    /\ runs = 0 /\ edits = 0

\* assert_config_intact, assert_extension_intact and the first two stages: a
\* missing extension_config.json is frozen against the configuration there is.
StartRun(flags) ==
    /\ run = NoRun /\ runs < MaxRuns
    /\ input.sets = input.config
    /\ input.extension \in {input.config, Absent}
    /\ input.packet # Broken
    /\ input' = [input EXCEPT !.extension = input.config]
    /\ run' = [steps |-> Plan(flags), fit |-> flags \cap {"--reuse-oof", "--extensions"} = {},
               packet |-> input.packet, config |-> input.config,
               ledger |-> input.packet, results |-> input.packet]
    /\ runs' = runs + 1
    /\ UNCHANGED << files, edits >>

Running == run # NoRun /\ run.steps # << >>
Step == Head(run.steps)
Continue == [run EXCEPT !.steps = Tail(@)]

ReadsResults == "model_results" \in ToSet(run.steps)

\* stage_models, or the ledger as it is on disk, with the results if the primary
\* stages follow; the extensions alone do not look at these.
TakeScores ==
    /\ Running /\ Step = "scores"
    /\ run' =
          IF run.fit THEN Continue
          ELSE IF Whole("oof_predictions") /\ (ReadsResults => Whole("model_results"))
          THEN [Continue EXCEPT !.ledger = files["oof_predictions"].scores,
                                !.results = IF ReadsResults THEN files["model_results"].data
                                            ELSE @]
          ELSE NoRun
    /\ UNCHANGED << input, files, runs, edits >>

\* A confirmed leak ends the run once the audit is written.
WriteResult ==
    /\ Running /\ Step # "scores"
    /\ IF \A f \in Reads(Step) : Whole(f)
       THEN /\ files' = [files EXCEPT ![Target(Step)] = ContentOf(Step)]
            /\ run' = IF \/ Step = "leakage_audit" /\ run.packet \in Leaking
                         \/ Tail(run.steps) = << >>
                      THEN NoRun ELSE Continue
       ELSE run' = NoRun /\ UNCHANGED files
    /\ UNCHANGED << input, runs, edits >>

\* Killed before a file or in the middle of it.
KillRun ==
    /\ Running
    /\ run' = NoRun
    /\ \/ UNCHANGED files
       \/ Step # "scores" /\ files' = [files EXCEPT ![Target(Step)] = Torn]
    /\ UNCHANGED << input, runs, edits >>

\* The packet is generated anew, or changed so that its manifest does not match.
ChangePacket ==
    /\ edits < MaxEdits /\ edits' = edits + 1
    /\ \E p \in Packets \cup {Broken} : p # input.packet /\ input' = [input EXCEPT !.packet = p]
    /\ UNCHANGED << files, run, runs >>

\* A configuration is edited alone, with its feature sets, or the frozen
\* extension is removed.
ChangeConfig ==
    /\ edits < MaxEdits /\ edits' = edits + 1
    /\ \/ \E c \in Configs : c # input.config /\ input' = [input EXCEPT !.config = c]
       \/ \E c \in Configs : c # input.config /\ input' = [input EXCEPT !.config = c, !.sets = c]
       \/ input' = [input EXCEPT !.extension = Absent]
    /\ UNCHANGED << files, run, runs >>

RobustNext ==
    \/ \E flags \in SUBSET {"--reuse-oof", "--extensions", "--skip-extensions"} : StartRun(flags)
    \/ TakeScores \/ WriteResult \/ KillRun
    \/ ChangePacket \/ ChangeConfig

RobustSpec == RobustInit /\ [][RobustNext]_robustVars

-----------------------------------------------------------------------------
(* verify_e4r.py *)

Ledger == files["oof_predictions"]
SameLabels(p, q) == Labels[p] = Labels[q]

SourcesHold == input.packet # Broken

ConfigHolds ==
    LET manifest == files["manifest"] IN
    /\ manifest.config = input.config /\ manifest.onDisk.config = input.config
    /\ input.sets = input.config
    /\ input.extension = manifest.onDisk.extension /\ input.extension = input.config

OutputsHold == \A f \in Listed : files["manifest"].outputs[f] = files[f]

\* The primary comparisons, from the labels and scores of the ledger.
StatisticsHold ==
    LET s == files["statistical_tests"] IN
    SameLabels(s.data, Ledger.data) /\ s.scores = Ledger.scores

\* B6 without its temporal terms ranks as B0 does.
AblationHolds == files["temporal_ablation"].data = files["model_results"].data

LeakageHolds == files["leakage_audit"].data \notin Leaking

\* The arms and the increment carry their own scores; the labels are the ledger's.
MissingnessHolds == SameLabels(files["missingness_ablation"].data, Ledger.data)
BoostingHolds == SameLabels(files["boosting_temporal_increment"].data, Ledger.data)

ControlsHold == "folds" \in DOMAIN files["negative_controls"] /\ files["negative_controls"].folds

\* Sectors are those of the packet as it is now.
HeterogeneityHolds ==
    LET h == files["sector_heterogeneity"] IN
    /\ SameLabels(h.data, Ledger.data) /\ h.scores = Ledger.scores
    /\ SameLabels(h.data, input.packet)

Opened ==
    {"manifest", "oof_predictions", "statistical_tests", "temporal_ablation", "model_results",
     "leakage_audit", "calibration_diagnostics", "threshold_robustness",
     "missingness_ablation", "boosting_temporal_increment", "negative_controls",
     "sector_heterogeneity", "model_stability"}

StudyVerifies ==
    /\ \A f \in Opened : Whole(f)
    /\ SourcesHold /\ ConfigHolds /\ OutputsHold
    /\ StatisticsHold /\ AblationHolds /\ LeakageHolds
    /\ MissingnessHolds /\ BoostingHolds /\ ControlsHold /\ HeterogeneityHolds

-----------------------------------------------------------------------------
(* Properties *)

\* Whatever runs were started, killed and mixed over changing packets and
\* configurations: a study that verifies publishes scores fitted on a packet
\* that passed the audit, with the labels of the packet on disk, its statistics
\* and its sectors are about these scores, and its five extensions stem from one
\* packet and from the configuration on disk, although verification compares few
\* of them with anything.
VerifiedHeadlinesAgree ==
    StudyVerifies =>
      LET stages == {"missingness_ablation", "boosting_temporal_increment",
                     "sector_heterogeneity", "model_stability"} IN
      /\ Ledger.scores \notin Leaking
      /\ \A f \in stages \cup {"statistical_tests", "oof_predictions"} :
            SameLabels(files[f].data, input.packet)
      /\ files["statistical_tests"].scores = Ledger.scores
      /\ \A f \in stages :
            /\ files[f].data = files["negative_controls"].shuffled
            /\ files[f].config = input.config
      /\ files["missingness_ablation"].scores = Ledger.scores
=============================================================================

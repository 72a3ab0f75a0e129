----------------------------- MODULE StagedStudy -----------------------------
(***************************************************************************)
(* The E4 study (scripts/run_e4.py, the stage record of                    *)
(* backend/finrisk/e4_core.py, scripts/render_e4_readme.py): fifteen       *)
(* commands and `all`, which picks the next one.  Each requires a stage,   *)
(* writes files that may not be there yet, one after the other and each    *)
(* atomically, and most of them advance the stage at the end.  Commands    *)
(* are killed or raise between two writes; a person removes files of the   *)
(* current stage and starts again, as EXECUTION_RESTART_REPORT.md tells;   *)
(* and the future outcomes are mounted or not.                             *)
(*                                                                         *)
(* Everything is computed deterministically except what the local model    *)
(* answers, so the content of a file is the runs of the model it stems     *)
(* from: << >> for no file, << 0 >> for none, << r >> for run r, and       *)
(* << a, h >> for agent rows of run a with hybrid rows of run h.           *)
(***************************************************************************)
EXTENDS Integers, Sequences, SequencesExt, FiniteSets

CONSTANTS
    MaxKills, MaxRemovals   \* bounds: commands killed, single files removed

VARIABLES
    stage,       \* state.json
    artifacts,   \* every file the commands write
    doing,       \* the command under way and its next write
    outcomes,    \* are the future outcomes mounted?
    replayable,  \* runs whose kept responses replay_frozen_agent accepts
    kills, removals

stagedVars == << stage, artifacts, doing, outcomes, replayable, kills, removals >>

Stage(name) ==
    CHOOSE i \in 0 .. 10 :
        << "INIT", "INPUTS_VERIFIED", "LOCAL_AGENT_VERIFIED", "PROTOCOL_FROZEN",
           "COHORT_FROZEN", "FEATURES_FROZEN", "PREDICTIONS_FROZEN", "OUTCOMES_FROZEN",
           "EVALUATED", "REPRODUCED", "README_RENDERED" >>[i + 1] = name

-----------------------------------------------------------------------------
(* The commands.  at: the stage required; mount: what must be mounted;      *)
(* needs: files without which it raises before it writes; writes: in order; *)
(* advances: whether the stage moves on at the end.                         *)

Command(at, mount, needs, writes, advances) ==
    [at |-> Stage(at), mount |-> mount, needs |-> needs, writes |-> writes,
     advances |-> advances]

VerifyInputs ==
    Command("INIT", "outcomes", {}, << "input_inventory" >>, TRUE)
VerifyLocalAgent ==
    Command("INPUTS_VERIFIED", "any", {}, << "local_agent_verification" >>, TRUE)
FreezeProtocol ==
    Command("LOCAL_AGENT_VERIFIED", "any", {"input_inventory", "local_agent_verification"},
            << "experiment_config", "protocol_freeze" >>, TRUE)
BuildCohort ==
    Command("PROTOCOL_FROZEN", "features", {}, << "cohort", "cohort_report" >>, TRUE)
BuildFeatures ==
    Command("COHORT_FROZEN", "features", {"cohort"}, << "features", "feature_report" >>, TRUE)
RunNumeric ==
    Command("FEATURES_FROZEN", "features", {"features"},
            << "numeric_predictions", "numeric_report" >>, FALSE)
\* The manifest is written before the model is asked anything.
RunAgent ==
    Command("FEATURES_FROZEN", "features", {"feature_report"},
            << "agent_batch_manifest", "agent_predictions", "agent_raw_responses",
               "agent_stability_runs", "agent_stability_raw",
               "agent_single_case_predictions", "agent_single_case_raw" >>, FALSE)
RunHybrid ==
    Command("FEATURES_FROZEN", "features", {"numeric_predictions", "agent_predictions"},
            << "hybrid_predictions" >>, FALSE)
FreezePredictions ==
    Command("FEATURES_FROZEN", "features",
            {"numeric_predictions", "agent_predictions", "hybrid_predictions",
             "agent_batch_manifest", "agent_raw_responses"},
            << "predictions", "prediction_freeze" >>, TRUE)
BuildOutcomes ==
    Command("PREDICTIONS_FROZEN", "outcomes", {"features"},
            << "outcomes", "outcome_report" >>, TRUE)
Evaluate ==
    Command("OUTCOMES_FROZEN", "any", {"features", "predictions", "outcomes"},
            << "evaluation", "threshold_sensitivity", "sector_heterogeneity", "missingness",
               "attrition", "source_concordance", "agent_stability_summary",
               "batch_sensitivity_summary" >>, TRUE)
Reproduce ==
    Command("EVALUATED", "any", {"numeric_predictions", "agent_predictions",
             "hybrid_predictions", "predictions", "evaluation"},
            << "reproducibility_summary" >>, TRUE)
VerifyAgentReplay ==
    Command("REPRODUCED", "any", {"agent_batch_manifest", "agent_raw_responses",
             "agent_predictions"}, << "agent_replay_verification" >>, FALSE)
\* The summary of the README takes in the verification of the replay.  Four
\* summaries are copied, four texts and the README written over.
Render ==
    Command("REPRODUCED", "any", {"evaluation", "attrition", "cohort_report",
             "outcome_report", "agent_raw_responses", "agent_stability_summary",
             "batch_sensitivity_summary", "source_concordance",
             "reproducibility_summary", "agent_replay_verification"},
            << "readme_summary", "public_copies", "readme" >>, TRUE)
VerifyRender ==
    Command("README_RENDERED", "any", {"readme_summary", "readme"},
            << "render_replay_verification", "public_render_replay_verification" >>, FALSE)

Commands ==
    {VerifyInputs, VerifyLocalAgent, FreezeProtocol, BuildCohort, BuildFeatures,
     RunNumeric, RunAgent, RunHybrid, FreezePredictions, BuildOutcomes, Evaluate,
     Reproduce, VerifyAgentReplay, Render, VerifyRender}

Artifacts == UNION {ToSet(c.writes) : c \in Commands}

\* write_text replaces what is there; every other file is written once.
Rewritable == {"readme"}

Present(f) == artifacts[f] # << >>

\* Evaluation reads these two only when it comes to the file that needs them.
LateNeeds(f) ==
    CASE f = "agent_stability_summary" -> {"agent_stability_runs"}
      [] f = "batch_sensitivity_summary" -> {"agent_single_case_predictions"}
      [] OTHER -> {}

\* command_reproduce and command_verify_agent_replay compare before they write.
\* A mutant: the hybrid is not computed again.
Agrees_HybridUnchecked(c) ==
    /\ c = Reproduce => artifacts["evaluation"] = artifacts["predictions"]
    /\ c = VerifyAgentReplay =>
          /\ artifacts["agent_raw_responses"] = artifacts["agent_predictions"]
          /\ artifacts["agent_raw_responses"][1] \in replayable

Agrees(c) ==
    /\ c = Reproduce =>
          /\ artifacts["hybrid_predictions"] = artifacts["agent_predictions"]
          /\ artifacts["evaluation"] = artifacts["predictions"]
    /\ c = VerifyAgentReplay =>
          /\ artifacts["agent_raw_responses"] = artifacts["agent_predictions"]
          /\ artifacts["agent_raw_responses"][1] \in replayable

\* run_numeric, run_agent and run_hybrid look for the file they are named after.
Announces(c) ==
    CASE c = RunNumeric -> {"numeric_predictions"}
      [] c = RunAgent   -> {"agent_predictions"}
      [] c = RunHybrid  -> {"hybrid_predictions"}
      [] OTHER -> {}

-----------------------------------------------------------------------------
(* Steps *)

Nothing == [writes |-> << >>]

StagedInit ==
    /\ stage = Stage("INIT")
    /\ artifacts = [f \in Artifacts |-> << >>]
    /\ doing = Nothing
    /\ outcomes = TRUE
    /\ replayable = {}
    /\ kills = 0 /\ removals = 0

Idle == doing = Nothing

Mounted(c) ==
    CASE c.mount = "outcomes" -> outcomes
      [] c.mount = "features" -> ~outcomes
      [] OTHER -> TRUE

CanStart(c) ==
    /\ stage = c.at /\ Mounted(c)
    /\ \A f \in Announces(c) : ~Present(f)
    /\ \A f \in c.needs : Present(f)
    /\ Agrees(c)

\* A run of the local model that differs from every one on disk.
FreshRun ==
    CHOOSE r \in 1 .. 4 :
        /\ \A f \in Artifacts : r \notin ToSet(artifacts[f])
        /\ \A s \in 1 .. (r - 1) : \E f \in Artifacts : s \in ToSet(artifacts[f])

\* A command that may not start raises and changes nothing.
Start(c) ==
    /\ Idle /\ CanStart(c)
    /\ \/ /\ c = RunAgent
          /\ \E good \in BOOLEAN :
                replayable' = IF good THEN replayable \cup {FreshRun}
                              ELSE replayable \ {FreshRun}
       \/ c # RunAgent /\ UNCHANGED replayable
    /\ doing' = [writes |-> c.writes, advances |-> c.advances,
                 run |-> IF c = RunAgent THEN FreshRun ELSE 0]
    /\ UNCHANGED << stage, artifacts, outcomes, kills, removals >>

Content(f) ==
    CASE f \in ToSet(Tail(RunAgent.writes)) -> << doing.run >>
      [] f = "hybrid_predictions" -> artifacts["agent_predictions"]
      [] f = "predictions" -> artifacts["agent_predictions"] \o artifacts["hybrid_predictions"]
      [] f = "evaluation" -> artifacts["predictions"]
      [] f = "readme_summary" -> artifacts["evaluation"]
      [] f = "readme" -> artifacts["readme_summary"]
      [] OTHER -> << 0 >>

\* The next file: refused if it is there, impossible if what it needs is not.
WriteFile ==
    LET f == Head(doing.writes) IN
    /\ ~Idle /\ doing.writes # << >>
    /\ IF /\ f \in Rewritable \/ ~Present(f)
          /\ \A g \in LateNeeds(f) : Present(g)
       THEN /\ artifacts' = [artifacts EXCEPT ![f] = Content(f)]
            /\ doing' = [doing EXCEPT !.writes = Tail(@)]
       ELSE doing' = Nothing /\ UNCHANGED artifacts
    /\ UNCHANGED << stage, outcomes, replayable, kills, removals >>

Advance ==
    /\ ~Idle /\ doing.writes = << >>
    /\ stage' = IF doing.advances THEN stage + 1 ELSE stage
    /\ doing' = Nothing
    /\ UNCHANGED << artifacts, outcomes, replayable, kills, removals >>

\* Killed; or the model's runtime refuses a prompt, which ends run_agent.
Die ==
    /\ ~Idle /\ kills < MaxKills
    /\ doing' = Nothing
    /\ kills' = kills + 1
    /\ UNCHANGED << stage, artifacts, outcomes, replayable, removals >>

\* A mutant: nobody looks whether the hybrid is there.
NextCommand_ForgetsHybrid ==
    IF stage # Stage("FEATURES_FROZEN")
    THEN CHOOSE c \in Commands \ {VerifyAgentReplay} : c.at = stage
    ELSE CASE ~Present("numeric_predictions") -> RunNumeric
           [] Present("numeric_predictions") /\ ~Present("agent_predictions") -> RunAgent
           [] OTHER -> FreezePredictions

\* command_all: the one command it would run now.
NextCommand ==
    IF stage # Stage("FEATURES_FROZEN")
    THEN CHOOSE c \in Commands \ {VerifyAgentReplay} : c.at = stage
    ELSE CASE ~Present("numeric_predictions") -> RunNumeric
           [] Present("numeric_predictions") /\ ~Present("agent_predictions") -> RunAgent
           [] /\ Present("numeric_predictions") /\ Present("agent_predictions")
              /\ ~Present("hybrid_predictions") -> RunHybrid
           [] OTHER -> FreezePredictions

StartAll == stage < Stage("README_RENDERED") /\ Start(NextCommand)

\* The files of the current stage.
Current == UNION {ToSet(c.writes) : c \in {d \in Commands : d.at = stage}}

\* A person removes one of them, or, when the next command cannot go through,
\* all of them.
RemoveFile(f) ==
    /\ Idle /\ removals < MaxRemovals
    /\ f \in Current /\ Present(f)
    /\ artifacts' = [artifacts EXCEPT ![f] = << >>]
    /\ removals' = removals + 1
    /\ UNCHANGED << stage, doing, outcomes, replayable, kills >>

Stuck ==
    /\ stage < Stage("README_RENDERED")
    /\ \/ \E f \in ToSet(NextCommand.writes) \ Rewritable : Present(f)
       \/ \E f \in NextCommand.needs : ~Present(f) /\ f \in Current \ {"agent_replay_verification"}

StartOver ==
    /\ Idle /\ Stuck
    /\ artifacts' = [f \in Artifacts |-> IF f \in Current THEN << >> ELSE artifacts[f]]
    /\ UNCHANGED << stage, doing, outcomes, replayable, kills, removals >>

\* The container is started again with the outcomes mounted, or without.
Remount ==
    /\ Idle
    /\ outcomes' = ~outcomes
    /\ UNCHANGED << stage, artifacts, doing, replayable, kills, removals >>

StagedNext ==
    \/ \E c \in Commands : Start(c)
    \/ WriteFile \/ Advance \/ Die
    \/ \E f \in Artifacts : RemoveFile(f)
    \/ StartOver \/ Remount

StagedSpec == StagedInit /\ [][StagedNext]_stagedVars

\* `all` is started again and again, in either container, and somebody clears
\* up and verifies the replay.
Diligence ==
    /\ WF_stagedVars(WriteFile) /\ WF_stagedVars(Advance) /\ WF_stagedVars(Remount)
    /\ SF_stagedVars(StartAll) /\ SF_stagedVars(StartOver)
    /\ SF_stagedVars(Start(VerifyAgentReplay))

-----------------------------------------------------------------------------
(* Properties *)

\* However often the study is killed, cleared and taken up again: once it is
\* reproduced, the predictions, the hybrid and the evaluation stem from one run
\* of the local model; and once the README is rendered, so do the kept
\* responses, which replay to them.
ReproducedStudyIsOneRun ==
    LET agent == artifacts["agent_predictions"] IN
    /\ stage >= Stage("REPRODUCED") =>
          /\ artifacts["hybrid_predictions"] = agent
          /\ artifacts["predictions"] = agent \o agent
          /\ artifacts["evaluation"] = agent \o agent
    /\ stage = Stage("README_RENDERED") =>
          /\ artifacts["readme"] = agent \o agent
          /\ artifacts["agent_raw_responses"] = agent
          /\ agent[1] \in replayable

\* A study that no command can complete any more: predictions are frozen, but a
\* file of run_agent that evaluation needs was never written, or hybrid or kept
\* responses belong to another run, or the kept responses do not replay.
Doomed ==
    /\ stage >= Stage("PREDICTIONS_FROZEN")
    /\ \/ ~Present("agent_stability_runs") \/ ~Present("agent_single_case_predictions")
       \/ artifacts["hybrid_predictions"] # artifacts["agent_predictions"]
       \/ artifacts["agent_raw_responses"] # artifacts["agent_predictions"]
       \/ artifacts["agent_raw_responses"][1] \notin replayable

\* A diligent person finishes every study that does not become doomed, whatever
\* is killed or removed on the way.
StudyFinishesUnlessDoomed == <>(stage = Stage("README_RENDERED") \/ Doomed)
=============================================================================

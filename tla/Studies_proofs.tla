--------------------------- MODULE Studies_proofs ---------------------------
(***************************************************************************)
(* Proofs about the E4 study and the robustness study E4-R.                *)
(*                                                                         *)
(* The staged study, for any number of kills and removals.  The invariant  *)
(* says at which stage each file can still change, and so which of the     *)
(* comparisons made on the way still hold at the end.                      *)
(*                                                                         *)
(* The batches of the local model, for any representations, cases, budget  *)
(* and token counts and any number of failing calls.  The invariant says   *)
(* what became of each case that is past, and what a part that is still to *)
(* be asked may cost: a batch of n cases takes at most 4n - 2 calls, and   *)
(* each step spends no more than it takes off what is left.                *)
(*                                                                         *)
(* The cohort, for any filings, ranks and limits; dates and sectors are    *)
(* numbers and no two companies have the same rank (CohortAssumption).     *)
(* The invariant says that a candidate is the earliest of what was read.   *)
(* The floors leave fewer seats than there are sectors, so that the        *)
(* sectors with the largest remainders fill the cohort exactly.            *)
(*                                                                         *)
(* The nested loop, for any packets, columns, folds and grids; days are    *)
(* numbers and a packet is finite (CVAssumption).  A packet with as many   *)
(* CIKs as observations has nobody twice, so that parting companies parts  *)
(* the observations themselves.                                            *)
(*                                                                         *)
(* The robustness study, for any packets, labels and configurations and    *)
(* any number of runs and edits; the study on disk at the beginning passed *)
(* its audit (FirstPacketAssumption).  The invariant says what a manifest  *)
(* lists, for which the parts of a plan have to be in order.               *)
(***************************************************************************)
EXTENDS StagedStudy, AgentBatches, CohortSelection, RobustnessStudy, NestedCV,
        FiniteSetTheorems, SequenceTheorems, WellFoundedInduction, TLAPS

-----------------------------------------------------------------------------
(* The staged study                                                         *)

\* The rows the local model answered, and the rows blended from them.
Agent == artifacts["agent_predictions"]
Hybrid == artifacts["hybrid_predictions"]

\* What each check of the study has established, as long as nobody touches the
\* files: the two are frozen together; reproduction found the hybrid and the
\* evaluation again; the kept responses replay; summary and README are of the
\* evaluation.
Frozen == artifacts["predictions"] = Agent \o Hybrid
Reproduced == Hybrid = Agent /\ artifacts["evaluation"] = artifacts["predictions"]
Replayed == artifacts["agent_raw_responses"] = Agent /\ Agent[1] \in replayable
Summed == artifacts["readme_summary"] = artifacts["evaluation"]
Rendered == artifacts["readme"] = artifacts["evaluation"]

\* A command under way still has files of its stage to write.
StagedTypes ==
    /\ stage \in 0 .. 10
    /\ DOMAIN artifacts = Artifacts
    /\ ~Idle => /\ DOMAIN doing = {"writes", "advances", "run"}
                /\ doing.writes \in Seq(Current)
                /\ doing.advances \in BOOLEAN
                /\ doing.advances => stage < 10

\* What a command under way has made sure of, and keeps while it writes.
CommandInv ==
    ~Idle =>
      /\ stage = 5 /\ doing.advances =>
            \/ doing.writes = << "predictions", "prediction_freeze" >>
            \/ doing.writes \in {<< "prediction_freeze" >>, << >>} /\ Frozen
      /\ stage = 8 => Reproduced
      /\ stage = 9 => Replayed
      /\ stage = 9 /\ doing.advances =>
            \/ doing.writes = << "readme_summary", "public_copies", "readme" >>
            \/ doing.writes \in {<< "public_copies", "readme" >>, << "readme" >>} /\ Summed
            \/ doing.writes = << >> /\ Rendered

\* What a stage promises once it is passed.
StageInv ==
    /\ stage > 5 => Frozen
    /\ stage > 8 => Reproduced
    /\ stage > 9 => Replayed /\ Rendered
    /\ Present("agent_replay_verification") => stage > 8 /\ Replayed

\* The inductive invariant of the staged study.
StagedInv == StagedTypes /\ CommandInv /\ StageInv

\* The stages, counted.
LEMMA StageNumbers ==
    /\ Stage("INIT") = 0
    /\ Stage("INPUTS_VERIFIED") = 1
    /\ Stage("LOCAL_AGENT_VERIFIED") = 2
    /\ Stage("PROTOCOL_FROZEN") = 3
    /\ Stage("COHORT_FROZEN") = 4
    /\ Stage("FEATURES_FROZEN") = 5
    /\ Stage("PREDICTIONS_FROZEN") = 6
    /\ Stage("OUTCOMES_FROZEN") = 7
    /\ Stage("EVALUATED") = 8
    /\ Stage("REPRODUCED") = 9
    /\ Stage("README_RENDERED") = 10
<1>0. Stage("INIT") = 0
  BY DEF Stage
<1>1. Stage("INPUTS_VERIFIED") = 1
  BY DEF Stage
<1>2. Stage("LOCAL_AGENT_VERIFIED") = 2
  BY DEF Stage
<1>3. Stage("PROTOCOL_FROZEN") = 3
  BY DEF Stage
<1>4. Stage("COHORT_FROZEN") = 4
  BY DEF Stage
<1>5. Stage("FEATURES_FROZEN") = 5
  BY DEF Stage
<1>6. Stage("PREDICTIONS_FROZEN") = 6
  BY DEF Stage
<1>7. Stage("OUTCOMES_FROZEN") = 7
  BY DEF Stage
<1>8. Stage("EVALUATED") = 8
  BY DEF Stage
<1>9. Stage("REPRODUCED") = 9
  BY DEF Stage
<1>10. Stage("README_RENDERED") = 10
  BY DEF Stage
<1> QED BY <1>0, <1>1, <1>2, <1>3, <1>4, <1>5, <1>6, <1>7, <1>8, <1>9, <1>10

\* What a command writes belongs to it, and the files that matter are written at
\* one stage each.
Proper(c) ==
    /\ c.at \in 0 .. 10 /\ c.advances \in BOOLEAN /\ (c.advances => c.at < 10)
    /\ c.writes \in Seq(ToSet(c.writes))
    /\ \A f \in ToSet(c.writes) :
         /\ f \in {"agent_predictions", "agent_raw_responses", "hybrid_predictions",
                  "predictions"} => c.at = 5
         /\ f = "evaluation" => c.at = 7
         /\ f = "agent_replay_verification" => c.at = 9 /\ ~c.advances
         /\ f \in {"readme_summary", "readme"} => c.at = 9 /\ c.advances

\* Of the commands of a stage at most one advances.
LEMMA CommandFacts ==
    \A c \in Commands :
        /\ Proper(c)
        /\ c.at = 5 /\ c.advances => c = FreezePredictions
        /\ c.at = 8 => c = Reproduce
        /\ c.at = 9 => c = IF c.advances THEN Render ELSE VerifyAgentReplay
<1>1. VerifyInputs.at = 0 /\ VerifyInputs.advances /\ Proper(VerifyInputs)
  <2>1. /\ VerifyInputs.at = 0 /\ VerifyInputs.advances = TRUE
        /\ VerifyInputs.writes = << "input_inventory" >>
    BY StageNumbers DEF VerifyInputs, Command
  <2>2. ToSet(VerifyInputs.writes) = {"input_inventory"}
    BY <2>1 DEF ToSet
  <2>3. VerifyInputs.writes \in Seq(ToSet(VerifyInputs.writes))
    BY <2>1, <2>2
  <2>4. VerifyInputs.advances /\ VerifyInputs.advances \in BOOLEAN
    BY <2>1
  <2>5. VerifyInputs.at = 0
    BY <2>1
  <2> QED BY <2>2, <2>3, <2>4, <2>5 DEF Proper
<1>2. VerifyLocalAgent.at = 1 /\ VerifyLocalAgent.advances /\ Proper(VerifyLocalAgent)
  <2>1. /\ VerifyLocalAgent.at = 1 /\ VerifyLocalAgent.advances = TRUE
        /\ VerifyLocalAgent.writes = << "local_agent_verification" >>
    BY StageNumbers DEF VerifyLocalAgent, Command
  <2>2. ToSet(VerifyLocalAgent.writes) = {"local_agent_verification"}
    BY <2>1 DEF ToSet
  <2>3. VerifyLocalAgent.writes \in Seq(ToSet(VerifyLocalAgent.writes))
    BY <2>1, <2>2
  <2>4. VerifyLocalAgent.advances /\ VerifyLocalAgent.advances \in BOOLEAN
    BY <2>1
  <2>5. VerifyLocalAgent.at = 1
    BY <2>1
  <2> QED BY <2>2, <2>3, <2>4, <2>5 DEF Proper
<1>3. FreezeProtocol.at = 2 /\ FreezeProtocol.advances /\ Proper(FreezeProtocol)
  <2>1. /\ FreezeProtocol.at = 2 /\ FreezeProtocol.advances = TRUE
        /\ FreezeProtocol.writes = << "experiment_config", "protocol_freeze" >>
    BY StageNumbers DEF FreezeProtocol, Command
  <2>2. ToSet(FreezeProtocol.writes) = {"experiment_config", "protocol_freeze"}
    BY <2>1 DEF ToSet
  <2>3. FreezeProtocol.writes \in Seq(ToSet(FreezeProtocol.writes))
    BY <2>1, <2>2
  <2>4. FreezeProtocol.advances /\ FreezeProtocol.advances \in BOOLEAN
    BY <2>1
  <2>5. FreezeProtocol.at = 2
    BY <2>1
  <2> QED BY <2>2, <2>3, <2>4, <2>5 DEF Proper
<1>4. BuildCohort.at = 3 /\ BuildCohort.advances /\ Proper(BuildCohort)
  <2>1. /\ BuildCohort.at = 3 /\ BuildCohort.advances = TRUE
        /\ BuildCohort.writes = << "cohort", "cohort_report" >>
    BY StageNumbers DEF BuildCohort, Command
  <2>2. ToSet(BuildCohort.writes) = {"cohort", "cohort_report"}
    BY <2>1 DEF ToSet
  <2>3. BuildCohort.writes \in Seq(ToSet(BuildCohort.writes))
    BY <2>1, <2>2
  <2>4. BuildCohort.advances /\ BuildCohort.advances \in BOOLEAN
    BY <2>1
  <2>5. BuildCohort.at = 3
    BY <2>1
  <2> QED BY <2>2, <2>3, <2>4, <2>5 DEF Proper
<1>5. BuildFeatures.at = 4 /\ BuildFeatures.advances /\ Proper(BuildFeatures)
  <2>1. /\ BuildFeatures.at = 4 /\ BuildFeatures.advances = TRUE
        /\ BuildFeatures.writes = << "features", "feature_report" >>
    BY StageNumbers DEF BuildFeatures, Command
  <2>2. ToSet(BuildFeatures.writes) = {"features", "feature_report"}
    BY <2>1 DEF ToSet
  <2>3. BuildFeatures.writes \in Seq(ToSet(BuildFeatures.writes))
    BY <2>1, <2>2
  <2>4. BuildFeatures.advances /\ BuildFeatures.advances \in BOOLEAN
    BY <2>1
  <2>5. BuildFeatures.at = 4
    BY <2>1
  <2> QED BY <2>2, <2>3, <2>4, <2>5 DEF Proper
<1>6. RunNumeric.at = 5 /\ ~RunNumeric.advances /\ Proper(RunNumeric)
  <2>1. /\ RunNumeric.at = 5 /\ RunNumeric.advances = FALSE
        /\ RunNumeric.writes = << "numeric_predictions", "numeric_report" >>
    BY StageNumbers DEF RunNumeric, Command
  <2>2. ToSet(RunNumeric.writes) = {"numeric_predictions", "numeric_report"}
    BY <2>1 DEF ToSet
  <2>3. RunNumeric.writes \in Seq(ToSet(RunNumeric.writes))
    BY <2>1, <2>2
  <2>4. ~RunNumeric.advances /\ RunNumeric.advances \in BOOLEAN
    BY <2>1
  <2>5. RunNumeric.at = 5
    BY <2>1
  <2> QED BY <2>2, <2>3, <2>4, <2>5 DEF Proper
<1>7. RunAgent.at = 5 /\ ~RunAgent.advances /\ Proper(RunAgent)
  <2>1. /\ RunAgent.at = 5 /\ RunAgent.advances = FALSE
        /\ RunAgent.writes = << "agent_batch_manifest", "agent_predictions",
                                "agent_raw_responses", "agent_stability_runs",
                                "agent_stability_raw", "agent_single_case_predictions",
                                "agent_single_case_raw" >>
    BY StageNumbers DEF RunAgent, Command
  <2>2. ToSet(RunAgent.writes) = {"agent_batch_manifest", "agent_predictions",
                                   "agent_raw_responses", "agent_stability_runs",
                                   "agent_stability_raw",
                                   "agent_single_case_predictions",
                                   "agent_single_case_raw"}
    BY <2>1 DEF ToSet
  <2>3. RunAgent.writes \in Seq(ToSet(RunAgent.writes))
    BY <2>1, <2>2
  <2>4. ~RunAgent.advances /\ RunAgent.advances \in BOOLEAN
    BY <2>1
  <2>5. RunAgent.at = 5
    BY <2>1
  <2> QED BY <2>2, <2>3, <2>4, <2>5 DEF Proper
<1>8. RunHybrid.at = 5 /\ ~RunHybrid.advances /\ Proper(RunHybrid)
  <2>1. /\ RunHybrid.at = 5 /\ RunHybrid.advances = FALSE
        /\ RunHybrid.writes = << "hybrid_predictions" >>
    BY StageNumbers DEF RunHybrid, Command
  <2>2. ToSet(RunHybrid.writes) = {"hybrid_predictions"}
    BY <2>1 DEF ToSet
  <2>3. RunHybrid.writes \in Seq(ToSet(RunHybrid.writes))
    BY <2>1, <2>2
  <2>4. ~RunHybrid.advances /\ RunHybrid.advances \in BOOLEAN
    BY <2>1
  <2>5. RunHybrid.at = 5
    BY <2>1
  <2> QED BY <2>2, <2>3, <2>4, <2>5 DEF Proper
<1>9. FreezePredictions.at = 5 /\ FreezePredictions.advances /\ Proper(FreezePredictions)
  <2>1. /\ FreezePredictions.at = 5 /\ FreezePredictions.advances = TRUE
        /\ FreezePredictions.writes = << "predictions", "prediction_freeze" >>
    BY StageNumbers DEF FreezePredictions, Command
  <2>2. ToSet(FreezePredictions.writes) = {"predictions", "prediction_freeze"}
    BY <2>1 DEF ToSet
  <2>3. FreezePredictions.writes \in Seq(ToSet(FreezePredictions.writes))
    BY <2>1, <2>2
  <2>4. FreezePredictions.advances /\ FreezePredictions.advances \in BOOLEAN
    BY <2>1
  <2>5. FreezePredictions.at = 5
    BY <2>1
  <2> QED BY <2>2, <2>3, <2>4, <2>5 DEF Proper
<1>10. BuildOutcomes.at = 6 /\ BuildOutcomes.advances /\ Proper(BuildOutcomes)
  <2>1. /\ BuildOutcomes.at = 6 /\ BuildOutcomes.advances = TRUE
        /\ BuildOutcomes.writes = << "outcomes", "outcome_report" >>
    BY StageNumbers DEF BuildOutcomes, Command
  <2>2. ToSet(BuildOutcomes.writes) = {"outcomes", "outcome_report"}
    BY <2>1 DEF ToSet
  <2>3. BuildOutcomes.writes \in Seq(ToSet(BuildOutcomes.writes))
    BY <2>1, <2>2
  <2>4. BuildOutcomes.advances /\ BuildOutcomes.advances \in BOOLEAN
    BY <2>1
  <2>5. BuildOutcomes.at = 6
    BY <2>1
  <2> QED BY <2>2, <2>3, <2>4, <2>5 DEF Proper
<1>11. Evaluate.at = 7 /\ Evaluate.advances /\ Proper(Evaluate)
  <2>1. /\ Evaluate.at = 7 /\ Evaluate.advances = TRUE
        /\ Evaluate.writes = << "evaluation", "threshold_sensitivity",
                                "sector_heterogeneity", "missingness", "attrition",
                                "source_concordance", "agent_stability_summary",
                                "batch_sensitivity_summary" >>
    BY StageNumbers DEF Evaluate, Command
  <2>2. ToSet(Evaluate.writes) = {"evaluation", "threshold_sensitivity",
                                   "sector_heterogeneity", "missingness", "attrition",
                                   "source_concordance", "agent_stability_summary",
                                   "batch_sensitivity_summary"}
    BY <2>1 DEF ToSet
  <2>3. Evaluate.writes \in Seq(ToSet(Evaluate.writes))
    BY <2>1, <2>2
  <2>4. Evaluate.advances /\ Evaluate.advances \in BOOLEAN
    BY <2>1
  <2>5. Evaluate.at = 7
    BY <2>1
  <2> QED BY <2>2, <2>3, <2>4, <2>5 DEF Proper
<1>12. Reproduce.at = 8 /\ Reproduce.advances /\ Proper(Reproduce)
  <2>1. /\ Reproduce.at = 8 /\ Reproduce.advances = TRUE
        /\ Reproduce.writes = << "reproducibility_summary" >>
    BY StageNumbers DEF Reproduce, Command
  <2>2. ToSet(Reproduce.writes) = {"reproducibility_summary"}
    BY <2>1 DEF ToSet
  <2>3. Reproduce.writes \in Seq(ToSet(Reproduce.writes))
    BY <2>1, <2>2
  <2>4. Reproduce.advances /\ Reproduce.advances \in BOOLEAN
    BY <2>1
  <2>5. Reproduce.at = 8
    BY <2>1
  <2> QED BY <2>2, <2>3, <2>4, <2>5 DEF Proper
<1>13. VerifyAgentReplay.at = 9 /\ ~VerifyAgentReplay.advances /\ Proper(VerifyAgentReplay)
  <2>1. /\ VerifyAgentReplay.at = 9 /\ VerifyAgentReplay.advances = FALSE
        /\ VerifyAgentReplay.writes = << "agent_replay_verification" >>
    BY StageNumbers DEF VerifyAgentReplay, Command
  <2>2. ToSet(VerifyAgentReplay.writes) = {"agent_replay_verification"}
    BY <2>1 DEF ToSet
  <2>3. VerifyAgentReplay.writes \in Seq(ToSet(VerifyAgentReplay.writes))
    BY <2>1, <2>2
  <2>4. ~VerifyAgentReplay.advances /\ VerifyAgentReplay.advances \in BOOLEAN
    BY <2>1
  <2>5. VerifyAgentReplay.at = 9
    BY <2>1
  <2> QED BY <2>2, <2>3, <2>4, <2>5 DEF Proper
<1>14. Render.at = 9 /\ Render.advances /\ Proper(Render)
  <2>1. /\ Render.at = 9 /\ Render.advances = TRUE
        /\ Render.writes = << "readme_summary", "public_copies", "readme" >>
    BY StageNumbers DEF Render, Command
  <2>2. ToSet(Render.writes) = {"readme_summary", "public_copies", "readme"}
    BY <2>1 DEF ToSet
  <2>3. Render.writes \in Seq(ToSet(Render.writes))
    BY <2>1, <2>2
  <2>4. Render.advances /\ Render.advances \in BOOLEAN
    BY <2>1
  <2>5. Render.at = 9
    BY <2>1
  <2> QED BY <2>2, <2>3, <2>4, <2>5 DEF Proper
<1>15. VerifyRender.at = 10 /\ ~VerifyRender.advances /\ Proper(VerifyRender)
  <2>1. /\ VerifyRender.at = 10 /\ VerifyRender.advances = FALSE
        /\ VerifyRender.writes = << "render_replay_verification",
                                    "public_render_replay_verification" >>
    BY StageNumbers DEF VerifyRender, Command
  <2>2. ToSet(VerifyRender.writes) = {"render_replay_verification",
                                       "public_render_replay_verification"}
    BY <2>1 DEF ToSet
  <2>3. VerifyRender.writes \in Seq(ToSet(VerifyRender.writes))
    BY <2>1, <2>2
  <2>4. ~VerifyRender.advances /\ VerifyRender.advances \in BOOLEAN
    BY <2>1
  <2>5. VerifyRender.at = 10
    BY <2>1
  <2> QED BY <2>2, <2>3, <2>4, <2>5 DEF Proper
<1> QED
  BY <1>1, <1>2, <1>3, <1>4, <1>5, <1>6, <1>7, <1>8, <1>9, <1>10, <1>11, <1>12, <1>13, <1>14,
     <1>15 DEF Commands

\* So what is written, or removed, at a stage is of that stage.
LEMMA Homes ==
    ASSUME NEW f \in Current
    PROVE  /\ f \in Artifacts
           /\ f \in {"agent_predictions", "agent_raw_responses", "hybrid_predictions",
                     "predictions"} => stage = 5
           /\ f = "evaluation" => stage = 7
           /\ f \in {"agent_replay_verification", "readme_summary", "readme"} => stage = 9
<1>1. PICK c \in Commands : c.at = stage /\ f \in ToSet(c.writes)
  BY DEF Current
<1>2. Proper(c)
  BY CommandFacts
<1> QED BY <1>1, <1>2 DEF Proper, Artifacts

\* The files of a command are files of its stage.
LEMMA WritesAreCurrent ==
    ASSUME NEW c \in Commands, c.at = stage
    PROVE  c.writes \in Seq(Current)
<1>1. c.writes \in Seq(ToSet(c.writes))
  BY CommandFacts DEF Proper
<1>2. ToSet(c.writes) \subseteq Current
  BY DEF Current
<1> QED BY <1>1, <1>2, SeqMonotonic

\* What the files of the last commands contain.
LEMMA Contents ==
    /\ Content("predictions") = Agent \o Hybrid
    /\ Content("readme_summary") = artifacts["evaluation"]
    /\ Content("readme") = artifacts["readme_summary"]
<1>1. \A f \in {"predictions", "readme_summary", "readme"} : f \notin ToSet(Tail(RunAgent.writes))
  <2>1. Tail(RunAgent.writes) =
          << "agent_predictions", "agent_raw_responses", "agent_stability_runs",
             "agent_stability_raw", "agent_single_case_predictions", "agent_single_case_raw" >>
    BY DEF RunAgent, Command
  <2> DEFINE t == Tail(RunAgent.writes)
  <2> HIDE DEF t
  <2>2. ToSet(t) =
          {"agent_predictions", "agent_raw_responses", "agent_stability_runs",
           "agent_stability_raw", "agent_single_case_predictions", "agent_single_case_raw"}
    <3>1. t = << "agent_predictions", "agent_raw_responses", "agent_stability_runs",
                 "agent_stability_raw", "agent_single_case_predictions",
                 "agent_single_case_raw" >>
      BY <2>1 DEF t
    <3> QED BY <3>1 DEF ToSet
  <2> QED BY <2>2 DEF t
<1> QED BY <1>1 DEF Content, Agent, Hybrid

\* The files the invariant is about.
LEMMA Known ==
    \A f \in {"agent_predictions", "agent_raw_responses", "hybrid_predictions",
             "predictions", "evaluation", "agent_replay_verification", "readme_summary",
             "readme"} : f \in Artifacts
<1>1. /\ RunAgent.writes[2] = "agent_predictions" /\ 2 \in DOMAIN RunAgent.writes
      /\ RunAgent.writes[3] = "agent_raw_responses" /\ 3 \in DOMAIN RunAgent.writes
  BY DEF RunAgent, Command
<1>2. /\ RunHybrid.writes[1] = "hybrid_predictions" /\ 1 \in DOMAIN RunHybrid.writes
      /\ FreezePredictions.writes[1] = "predictions" /\ 1 \in DOMAIN FreezePredictions.writes
      /\ Evaluate.writes[1] = "evaluation" /\ 1 \in DOMAIN Evaluate.writes
  BY DEF RunHybrid, FreezePredictions, Evaluate, Command
<1>3. /\ VerifyAgentReplay.writes[1] = "agent_replay_verification"
      /\ 1 \in DOMAIN VerifyAgentReplay.writes
  BY DEF VerifyAgentReplay, Command
<1>4. /\ Render.writes[1] = "readme_summary" /\ 1 \in DOMAIN Render.writes
      /\ Render.writes[3] = "readme" /\ 3 \in DOMAIN Render.writes
  BY DEF Render, Command
<1>5. \A c \in Commands : \A i \in DOMAIN c.writes : c.writes[i] \in Artifacts
  BY DEF Artifacts, ToSet
<1>6. {RunAgent, RunHybrid, FreezePredictions, Evaluate, VerifyAgentReplay, Render}
          \subseteq Commands
  BY DEF Commands
<1> QED BY <1>1, <1>2, <1>3, <1>4, <1>5, <1>6

\* Nothing is there at the start.
LEMMA StagedInvInit == StagedInit => StagedInv
<1> SUFFICES ASSUME StagedInit PROVE StagedInv
  OBVIOUS
<1>1. stage = 0 /\ Idle /\ DOMAIN artifacts = Artifacts
  BY StageNumbers DEF StagedInit, Idle
<1>2. ~Present("agent_replay_verification")
  BY Known DEF StagedInit, Present
<1> QED BY <1>1, <1>2 DEF StagedInv, StagedTypes, CommandInv, StageInv

\* A command starts where it may.
LEMMA StartKeeps ==
    ASSUME StagedInv, NEW c \in Commands, Start(c)
    PROVE  StagedInv'
<1>1. StagedTypes /\ CommandInv /\ StageInv /\ CanStart(c) /\ stage = c.at
  BY DEF StagedInv, Start, CanStart
<1>2. /\ stage' = stage /\ artifacts' = artifacts
      /\ DOMAIN doing' = {"writes", "advances", "run"}
      /\ doing'.writes = c.writes /\ doing'.advances = c.advances
  BY DEF Start
<1>3. Current' = Current /\ c.writes \in Seq(Current) /\ Proper(c)
  BY <1>1, <1>2, WritesAreCurrent, CommandFacts DEF Current
<1>4. stage = 5 \/ replayable' = replayable
  <2>1. RunAgent \in Commands /\ RunAgent.at = 5
    BY StageNumbers DEF Commands, RunAgent, Command
  <2> QED BY <2>1, <1>1 DEF Start
<1>5. StagedTypes'
  BY <1>1, <1>2, <1>3 DEF StagedTypes, Proper
<1>6. StageInv'
  <2>1. CASE stage = 5
    BY <2>1, <1>1, <1>2 DEF StageInv, Present
  <2>2. CASE replayable' = replayable
    BY <2>2, <1>1, <1>2
       DEF StageInv, Frozen, Reproduced, Replayed, Rendered, Agent, Hybrid, Present
  <2> QED BY <1>4, <2>1, <2>2
<1>7. CommandInv'
  <2>1. ASSUME stage = 5, c.advances
        PROVE  c.writes = << "predictions", "prediction_freeze" >>
    BY <2>1, <1>1, CommandFacts DEF FreezePredictions, Command
  <2>2. ASSUME stage = 8
        PROVE  Reproduced
    BY <2>2, <1>1, CommandFacts DEF CanStart, Agrees, Reproduced, Agent, Hybrid
  <2>3. ASSUME stage = 9, c.advances
        PROVE  /\ Replayed
               /\ c.writes = << "readme_summary", "public_copies", "readme" >>
    <3>1. c = Render
      BY <2>3, <1>1, CommandFacts
    <3>2. "agent_replay_verification" \in c.needs
      BY <3>1 DEF Render, Command
    <3>3. Replayed
      BY <3>2, <1>1 DEF CanStart, StageInv
    <3> QED BY <3>1, <3>3 DEF Render, Command
  <2>4. ASSUME stage = 9, ~c.advances
        PROVE  Replayed
    <3>1. c = VerifyAgentReplay
      BY <2>4, <1>1, CommandFacts
    <3> QED BY <3>1, <1>1 DEF CanStart, Agrees, Replayed, Agent
  <2>5. stage = 9 => Replayed
    BY <2>3, <2>4
  <2>6. Reproduced' <=> Reproduced
    BY <1>2 DEF Reproduced, Agent, Hybrid
  <2>7. stage = 9 => Replayed'
    BY <1>2, <1>4, <2>5 DEF Replayed, Agent
  <2>8. doing'.advances => c.advances
    BY <1>2
  <2> QED
    BY <1>2, <2>1, <2>2, <2>3, <2>6, <2>7, <2>8 DEF CommandInv
<1> QED BY <1>5, <1>6, <1>7 DEF StagedInv

\* What is removed between commands is of the current stage.
LEMMA RemovalKeeps ==
    ASSUME StagedInv, Idle, stage' = stage, doing' = doing, replayable' = replayable,
           DOMAIN artifacts' = Artifacts,
           \A f \in Artifacts : artifacts'[f] # artifacts[f] =>
               f \in Current /\ artifacts'[f] = << >>
    PROVE  StagedInv'
<1>1. StagedTypes /\ CommandInv /\ StageInv /\ Idle'
  BY DEF StagedInv, Idle
<1>3. \A f \in Artifacts : artifacts'[f] # artifacts[f] =>
         /\ f \in {"agent_predictions", "agent_raw_responses", "hybrid_predictions",
                   "predictions"} => stage = 5
         /\ f = "evaluation" => stage = 7
         /\ f \in {"agent_replay_verification", "readme_summary", "readme"} => stage = 9
  BY Homes
<1>4. /\ stage > 5 => Agent' = Agent /\ Hybrid' = Hybrid
                      /\ artifacts'["predictions"] = artifacts["predictions"]
                      /\ artifacts'["agent_raw_responses"] = artifacts["agent_raw_responses"]
      /\ stage > 7 => artifacts'["evaluation"] = artifacts["evaluation"]
      /\ stage > 9 => artifacts'["readme"] = artifacts["readme"]
      /\ Present("agent_replay_verification")' => Present("agent_replay_verification")
  BY <1>1, <1>3, Known DEF Agent, Hybrid, Present, StagedTypes
<1>5. StageInv'
  <2>1. stage \in Nat
    BY <1>1 DEF StagedTypes
  <2>2. stage > 5 => (Frozen => Frozen')
    BY <1>4 DEF Frozen
  <2>3. stage > 8 => (Reproduced => Reproduced')
    BY <1>4, <2>1 DEF Reproduced
  <2>4. stage > 8 => (Replayed => Replayed')
    BY <1>1, <1>4, <2>1 DEF Replayed
  <2>5. stage > 9 => (Rendered => Rendered')
    BY <1>4, <2>1 DEF Rendered
  <2>6. stage > 8 => stage > 5
    BY <2>1
  <2>7. stage > 9 => stage > 8
    BY <2>1
  <2> QED BY <1>1, <1>4, <2>2, <2>3, <2>4, <2>5, <2>6, <2>7 DEF StageInv
<1> QED BY <1>1, <1>5 DEF StagedInv, StagedTypes, CommandInv

\* A command writes its next file, or stops where it is.
LEMMA WriteKeeps ==
    ASSUME StagedInv, WriteFile
    PROVE  StagedInv'
<1> DEFINE f == Head(doing.writes)
<1>1. /\ StagedTypes /\ CommandInv /\ StageInv /\ ~Idle
      /\ stage' = stage /\ replayable' = replayable
  BY DEF StagedInv, WriteFile
<1>2. CASE doing' = Nothing /\ artifacts' = artifacts
  <2>1. Idle'
    BY <1>2 DEF Idle
  <2>2. StageInv'
    BY <1>1, <1>2
       DEF StageInv, Frozen, Reproduced, Replayed, Rendered, Agent, Hybrid, Present
  <2> QED BY <1>1, <1>2, <2>1, <2>2 DEF StagedInv, StagedTypes, CommandInv
<1>3. CASE /\ artifacts' = [artifacts EXCEPT ![f] = Content(f)]
           /\ doing' = [doing EXCEPT !.writes = Tail(@)]
  <2>1. /\ doing.writes \in Seq(Current) /\ doing.writes # << >>
        /\ DOMAIN doing = {"writes", "advances", "run"} /\ doing.advances \in BOOLEAN
        /\ doing.advances => stage < 10
    BY <1>1 DEF StagedTypes, WriteFile
  <2>2. f \in Current /\ Tail(doing.writes) \in Seq(Current)
    BY <2>1
  <2>3. /\ DOMAIN doing' = {"writes", "advances", "run"}
        /\ doing'.writes = Tail(doing.writes) /\ doing'.advances = doing.advances
    BY <1>3, <2>1
  <2> HIDE DEF f
  <2>4. /\ f \in Artifacts
        /\ f \in {"agent_predictions", "agent_raw_responses", "hybrid_predictions",
                  "predictions"} => stage = 5
        /\ f = "evaluation" => stage = 7
        /\ f \in {"agent_replay_verification", "readme_summary", "readme"} => stage = 9
    BY <2>2, Homes
  <2>5. /\ DOMAIN artifacts' = Artifacts
        /\ artifacts'[f] = Content(f)
        /\ \A g \in Artifacts : g # f => artifacts'[g] = artifacts[g]
    BY <1>1, <1>3, <2>4 DEF StagedTypes
  <2>6. StagedTypes'
    <3>1. Current' = Current
      BY <1>1 DEF Current
    <3> QED BY <1>1, <2>1, <2>2, <2>3, <2>5, <3>1 DEF StagedTypes
  <2>7. /\ stage > 5 => Agent' = Agent /\ Hybrid' = Hybrid
                        /\ artifacts'["predictions"] = artifacts["predictions"]
                        /\ artifacts'["agent_raw_responses"] = artifacts["agent_raw_responses"]
        /\ stage > 7 => artifacts'["evaluation"] = artifacts["evaluation"]
        /\ stage > 9 => artifacts'["readme"] = artifacts["readme"]
        /\ stage # 9 => artifacts'["agent_replay_verification"]
                           = artifacts["agent_replay_verification"]
    BY <2>4, <2>5, Known DEF Agent, Hybrid
  <2>8. StageInv'
    <3>1. stage = 9 => Replayed
      BY <1>1 DEF CommandInv
    <3>2. stage \in 0 .. 10 /\ StageInv
      BY <1>1 DEF StagedTypes
    <3>3. /\ stage > 5 => (Frozen' <=> Frozen) /\ (Replayed' <=> Replayed)
          /\ stage > 7 => (Reproduced' <=> Reproduced)
          /\ stage > 9 => (Rendered' <=> Rendered)
          /\ stage # 9 => (Present("agent_replay_verification")'
                             <=> Present("agent_replay_verification"))
      <4>1. stage > 5 => (Frozen' <=> Frozen)
        BY <2>7 DEF Frozen
      <4>2. stage > 5 => (Replayed' <=> Replayed)
        BY <1>1, <2>7 DEF Replayed
      <4>3. stage > 7 => (Reproduced' <=> Reproduced)
        BY <3>2, <2>7 DEF Reproduced
      <4>4. stage > 9 => (Rendered' <=> Rendered)
        BY <3>2, <2>7 DEF Rendered
      <4> QED BY <2>7, <4>1, <4>2, <4>3, <4>4 DEF Present
    <3>4. CASE stage = 9
      BY <1>1, <3>1, <3>2, <3>3, <3>4 DEF StageInv
    <3>5. CASE stage # 9
      BY <1>1, <3>2, <3>3, <3>5 DEF StageInv
    <3> QED BY <3>4, <3>5
  <2>9. ASSUME stage = 5, doing.advances
        PROVE  doing'.writes \in {<< "prediction_freeze" >>, << >>} /\ Frozen'
    <3>1. CASE doing.writes = << "predictions", "prediction_freeze" >>
      <4>1. f = "predictions" /\ doing'.writes = << "prediction_freeze" >>
        BY <3>1, <2>3 DEF f
      <4>2. Agent' = Agent /\ Hybrid' = Hybrid
        BY <4>1, <2>5, Known DEF Agent, Hybrid
      <4> QED BY <4>1, <4>2, <2>5, Contents DEF Frozen
    <3>2. CASE doing.writes = << "prediction_freeze" >> /\ Frozen
      <4>1. f = "prediction_freeze" /\ doing'.writes = << >>
        BY <3>2, <2>3 DEF f
      <4> QED BY <4>1, <3>2, <2>5, Known DEF Frozen, Agent, Hybrid
    <3> QED BY <1>1, <2>1, <2>9, <3>1, <3>2 DEF CommandInv
  <2>10. ASSUME stage = 9, doing.advances
         PROVE  \/ doing'.writes \in {<< "public_copies", "readme" >>, << "readme" >>} /\ Summed'
                \/ doing'.writes = << >> /\ Rendered'
    <3>1. CASE doing.writes = << "readme_summary", "public_copies", "readme" >>
      <4>1. f = "readme_summary" /\ doing'.writes = << "public_copies", "readme" >>
        BY <3>1, <2>3 DEF f
      <4> QED BY <4>1, <2>5, Contents, Known DEF Summed
    <3>2. CASE doing.writes = << "public_copies", "readme" >> /\ Summed
      <4>1. f = "public_copies" /\ doing'.writes = << "readme" >>
        BY <3>2, <2>3 DEF f
      <4> QED BY <4>1, <3>2, <2>5, Known DEF Summed
    <3>3. CASE doing.writes = << "readme" >> /\ Summed
      <4>1. f = "readme" /\ doing'.writes = << >>
        BY <3>3, <2>3 DEF f
      <4> QED BY <4>1, <3>3, <2>5, Contents, Known DEF Summed, Rendered
    <3> QED BY <1>1, <2>1, <2>10, <3>1, <3>2, <3>3 DEF CommandInv
  <2>11. CommandInv'
    <3>1. stage = 8 => Reproduced'
      BY <1>1, <2>7 DEF CommandInv, Reproduced
    <3>2. stage = 9 => Replayed'
      BY <1>1, <2>7 DEF CommandInv, Replayed
    <3> QED BY <1>1, <2>1, <2>3, <2>9, <2>10, <3>1, <3>2 DEF CommandInv
  <2> QED BY <2>6, <2>8, <2>11 DEF StagedInv
<1> QED BY <1>2, <1>3 DEF WriteFile

\* A command ends, and with it the stage, if it is one that advances.
LEMMA AdvanceKeeps ==
    ASSUME StagedInv, Advance
    PROVE  StagedInv'
<1>1. /\ StagedTypes /\ CommandInv /\ StageInv /\ ~Idle /\ doing.writes = << >>
      /\ stage' = (IF doing.advances THEN stage + 1 ELSE stage)
      /\ doing' = Nothing /\ artifacts' = artifacts /\ replayable' = replayable
  BY DEF StagedInv, Advance
<1>2. Idle'
  BY <1>1 DEF Idle
<1>3. StagedTypes' /\ CommandInv'
  BY <1>1, <1>2 DEF StagedTypes, CommandInv
<1>4. /\ (Frozen' <=> Frozen) /\ (Reproduced' <=> Reproduced) /\ (Replayed' <=> Replayed)
      /\ (Rendered' <=> Rendered)
      /\ (Present("agent_replay_verification")' <=> Present("agent_replay_verification"))
  BY <1>1 DEF Frozen, Reproduced, Replayed, Rendered, Agent, Hybrid, Present
<1>5. /\ doing.writes # << "predictions", "prediction_freeze" >>
      /\ doing.writes # << "readme_summary", "public_copies", "readme" >>
      /\ doing.writes # << "public_copies", "readme" >> /\ doing.writes # << "readme" >>
  BY <1>1
<1>6. StageInv'
  <2>1. CASE doing.advances
    <3>1. /\ stage = 5 => Frozen
          /\ stage = 8 => Reproduced
          /\ stage = 9 => Replayed /\ Rendered
      BY <2>1, <1>1, <1>5 DEF CommandInv
    <3> QED BY <2>1, <1>1, <1>4, <3>1 DEF StageInv, StagedTypes
  <2>2. CASE ~doing.advances
    BY <2>2, <1>1, <1>4 DEF StageInv
  <2> QED BY <2>1, <2>2
<1> QED BY <1>3, <1>6 DEF StagedInv

\* Every step keeps the invariant.
LEMMA StagedInvStep == StagedInv /\ [StagedNext]_stagedVars => StagedInv'
<1> SUFFICES ASSUME StagedInv, [StagedNext]_stagedVars PROVE StagedInv'
  OBVIOUS
<1>1. ASSUME NEW c \in Commands, Start(c) PROVE StagedInv'
  BY <1>1, StartKeeps
<1>2. CASE WriteFile
  BY <1>2, WriteKeeps
<1>3. CASE Advance
  BY <1>3, AdvanceKeeps
<1>4. CASE Die
  <2>1. Idle' /\ UNCHANGED << stage, artifacts, replayable >>
    BY <1>4 DEF Die, Idle
  <2> QED
    BY <2>1 DEF StagedInv, StagedTypes, CommandInv, StageInv, Frozen, Reproduced, Replayed,
                Rendered, Agent, Hybrid, Present
<1>5. ASSUME NEW f \in Artifacts, RemoveFile(f) PROVE StagedInv'
  BY <1>5, RemovalKeeps DEF RemoveFile, StagedInv, StagedTypes
<1>6. CASE StartOver
  <2>1. DOMAIN artifacts' = Artifacts
    BY <1>6 DEF StartOver
  <2>2. \A f \in Artifacts : artifacts'[f] # artifacts[f] =>
            f \in Current /\ artifacts'[f] = << >>
    BY <1>6 DEF StartOver
  <2> QED BY <1>6, <2>1, <2>2, RemovalKeeps DEF StartOver
<1>7. CASE Remount \/ UNCHANGED stagedVars
  BY <1>7 DEF Remount, stagedVars, StagedInv, StagedTypes, CommandInv, StageInv, Frozen,
              Reproduced, Replayed, Rendered, Agent, Hybrid, Present, Idle, Current, Summed
<1> QED BY <1>1, <1>2, <1>3, <1>4, <1>5, <1>6, <1>7 DEF StagedNext

\* The invariant of the staged study.
THEOREM StagedInvariant == StagedSpec => []StagedInv
BY StagedInvInit, StagedInvStep, PTL DEF StagedSpec

\* However often the study is killed, cleared and taken up again, what reproduce
\* and render pass stems from one run of the local model (ReproducedStudyIsOneRun),
\* for any number of kills and removals.
THEOREM ReproducedStudyIsAlwaysOneRun == StagedSpec => []ReproducedStudyIsOneRun
<1>1. ASSUME StagedInv PROVE ReproducedStudyIsOneRun
  <2>1. stage \in 0 .. 10 /\ StageInv
    BY <1>1 DEF StagedInv, StagedTypes
  <2>2. ASSUME stage >= 9
        PROVE  /\ Hybrid = Agent /\ artifacts["predictions"] = Agent \o Agent
               /\ artifacts["evaluation"] = Agent \o Agent
    <3>1. Frozen /\ Reproduced
      BY <2>1, <2>2 DEF StageInv
    <3> QED BY <3>1 DEF Frozen, Reproduced
  <2>3. ASSUME stage = 10
        PROVE  /\ artifacts["readme"] = Agent \o Agent
               /\ artifacts["agent_raw_responses"] = Agent /\ Agent[1] \in replayable
    <3>1. Replayed /\ Rendered
      BY <2>1, <2>3 DEF StageInv
    <3> QED BY <2>2, <2>3, <3>1 DEF Replayed, Rendered
  <2> QED BY <2>2, <2>3, StageNumbers DEF ReproducedStudyIsOneRun, Agent, Hybrid
<1>2. StagedInv => ReproducedStudyIsOneRun
  BY <1>1
<1> QED BY <1>2, StagedInvariant, PTL

-----------------------------------------------------------------------------
(* The batches of the local model                                           *)

\* The cases that have their prediction.
Past(r, c) ==
    \E t \in DOMAIN Representations :
        Representations[t] = r /\ (t < turn \/ (t = turn /\ c < from))

\* The calls about one case alone, and those for one batch of the manifest.
Alone(r, c) == {i \in DOMAIN records : records[i].rep = r /\ records[i].asked = {c}}
CallsFor(r, first) == {i \in DOMAIN records : records[i].rep = r /\ records[i].root = first}

Response ==
    {Garbled, NoResponse}
    \cup [json : {TRUE}, cases : SUBSET Nat, twice : BOOLEAN, valid : BOOLEAN]

BatchRecord ==
    [rep : ToSet(Representations), root : Cases,
     asked : (SUBSET Cases) \ {{}}, response : Response]

\* The batch that is asked is part of one of the manifest, whose last part is
\* asked last.
BatchShape ==
    /\ turn \in 1 .. Len(Representations) + 1
    /\ root \in Cases /\ from \in Cases /\ attempt \in {0, 1}
    /\ turn <= Len(Representations) =>
          /\ root <= from
          /\ ends \subseteq from .. LastOf(Rep, root)
          /\ LastOf(Rep, root) \in ends

\* A call was about cases of its batch, and that batch is not to come; it was
\* accepted, and then answered all it was about, or did not parse.
CallsInv ==
    /\ records \in Seq(BatchRecord)
    /\ \A i \in DOMAIN records :
          /\ records[i].asked \subseteq Allowed(records[i].rep, records[i].root)
          /\ \E t \in DOMAIN Representations :
                /\ Representations[t] = records[i].rep
                /\ t < turn \/ (t = turn /\ records[i].root <= root)
          /\ \/ /\ records[i].response = Answer(records[i].asked, FALSE, TRUE)
                /\ \A c \in records[i].asked : [rep |-> records[i].rep, case |-> c, call |-> i] \in answers
             \/ ~Parses(records[i].response, records[i].asked)

\* Who is past has an answer of the last call about him, or is given up after
\* two calls about him alone; who is not past has been asked about alone only as
\* often as it was tried just now.
FatesInv ==
    /\ answers \subseteq [rep : ToSet(Representations), case : Cases, call : Nat]
    /\ failures \subseteq [rep : ToSet(Representations), case : Cases]
    /\ \A a \in answers :
          /\ Past(a.rep, a.case)
          /\ a.call \in DOMAIN records
          /\ records[a.call].rep = a.rep /\ a.case \in records[a.call].asked
          /\ records[a.call].response = Answer(records[a.call].asked, FALSE, TRUE)
          /\ \A i \in DOMAIN records : i > a.call /\ records[i].rep = a.rep => a.case \notin records[i].asked
    /\ \A f \in failures :
          /\ Past(f.rep, f.case)
          /\ Cardinality(Alone(f.rep, f.case)) = 2
          /\ \A a \in answers : a.rep = f.rep => a.case # f.case
    /\ \A r \in ToSet(Representations), c \in Cases :
          IF Past(r, c)
          THEN \/ \E a \in answers : a.rep = r /\ a.case = c
               \/ [rep |-> r, case |-> c] \in failures
          ELSE Cardinality(Alone(r, c)) = IF r = Rep /\ Asked = {c} THEN attempt ELSE 0

\* A part of n cases may still take 4n - 2 calls, less those it has had.
CallsBound ==
    /\ \A r \in ToSet(Representations), c \in Cases :
          Cardinality(CallsFor(r, c)) <= 2 * (2 * Cardinality(Allowed(r, c)) - 1)
    /\ turn <= Len(Representations) =>
          Cardinality(CallsFor(Rep, root)) + 4 * (LastOf(Rep, root) - from + 1) + 2
              <= 4 * (LastOf(Rep, root) - root + 1) + 2 * Cardinality(ends) + attempt

\* The inductive invariant of the batches.
BatchesInv == BatchShape /\ CallsInv /\ FatesInv /\ CallsBound

\* Every nonempty set of naturals has a least element, and one that is bounded
\* a greatest.
LEMMA LeastOf ==
  ASSUME NEW T, T \subseteq Nat, T # {}
  PROVE  Min(T) \in T /\ \A y \in T : Min(T) <= y
<1> DEFINE R == OpToRel(<, Nat)
<1>1. \E x \in T : \A y \in T : ~ (<< y, x >> \in R)
  BY NatLessThanWellFounded, WFMin
<1>2. \A x, y \in Nat : y < x => << y, x >> \in R
  BY DEF OpToRel
<1> HIDE DEF R
<1>3. PICK x \in T : \A y \in T : ~ (<< y, x >> \in R)
  BY <1>1
<1>4. ASSUME NEW y \in T PROVE x <= y
  <2>1. x \in Nat /\ y \in Nat /\ ~ (<< y, x >> \in R)
    BY <1>3
  <2>2. ~ (y < x)
    BY <2>1, <1>2
  <2> QED BY <2>1, <2>2
<1> QED
  BY <1>4 DEF Min

LEMMA GreatestOf ==
  ASSUME NEW T, T \subseteq Nat, T # {}, NEW b \in Nat, \A y \in T : y <= b
  PROVE  Max(T) \in T /\ \A y \in T : Max(T) >= y
<1> DEFINE U == {b - y : y \in T}
<1>1. U \subseteq Nat /\ U # {}
  <2>1. \A y \in T : b - y \in Nat
    OBVIOUS
  <2> QED BY <2>1
<1>2. Min(U) \in U /\ \A y \in U : Min(U) <= y
  BY <1>1, LeastOf
<1>3. PICK x \in T : Min(U) = b - x
  BY <1>2
<1>4. ASSUME NEW y \in T PROVE x >= y
  <2>1. b - x <= b - y
    BY <1>2, <1>3
  <2> QED BY <2>1
<1> QED
  BY <1>4 DEF Max

\* A batch begins with its first case and ends with one of the cases.
LEMMA LastOfIsCase ==
  ASSUME NEW r, NEW first \in Cases
  PROVE  LastOf(r, first) \in first .. CaseCount
<1> DEFINE T == {d \in first .. CaseCount : \A c \in first + 1 .. d : Joins(r, first, c)}
<1>1. T \subseteq first .. CaseCount /\ first \in Nat /\ CaseCount \in Nat /\ first \in first .. CaseCount
  BY BatchAssumption DEF Cases
<1>2. first \in T
  <2>1. first + 1 .. first = {}
    BY <1>1
  <2> QED BY <1>1, <2>1
<1>3. T \subseteq Nat /\ T # {} /\ \A y \in T : y <= CaseCount
  BY <1>1, <1>2
<1>4. Max(T) \in T
  BY <1>1, <1>3, GreatestOf
<1> QED
  BY <1>1, <1>4 DEF LastOf

\* As a sequence without repetition the representations are told apart by
\* their places.
LEMMA Places ==
  /\ Len(Representations) \in Nat /\ DOMAIN Representations = 1 .. Len(Representations)
  /\ \A t \in DOMAIN Representations : Representations[t] \in ToSet(Representations)
  /\ \A r \in ToSet(Representations) : \E t \in DOMAIN Representations : Representations[t] = r
  /\ \A t, u \in DOMAIN Representations : Representations[t] = Representations[u] => t = u
  BY BatchAssumption DEF ToSet, IsInjective

\* The part that is asked: consecutive cases of one batch, from the first case
\* that has no prediction.
LEMMA AskedIs ==
  ASSUME BatchShape, Asking
  PROVE  /\ turn \in DOMAIN Representations /\ Rep = Representations[turn]
         /\ Rep \in ToSet(Representations)
         /\ LastOf(Rep, root) \in root .. CaseCount
         /\ Min(ends) \in ends /\ \A e \in ends : Min(ends) <= e
         /\ Min(ends) \in from .. LastOf(Rep, root)
         /\ Max(ends) = LastOf(Rep, root)
         /\ from \in Asked /\ Asked \subseteq Cases /\ Asked \subseteq Allowed(Rep, root)
         /\ \A c \in Cases : c \in Asked <=> from <= c /\ c <= Min(ends)
         /\ IsFiniteSet(Asked) /\ Cardinality(Asked) = Min(ends) - from + 1
         /\ IsFiniteSet(ends) /\ Cardinality(ends) \in Nat
<1>1. /\ turn \in DOMAIN Representations /\ Rep = Representations[turn]
      /\ Rep \in ToSet(Representations)
      /\ turn <= Len(Representations)
  BY Places DEF BatchShape, Asking, Rep
<1>2. LastOf(Rep, root) \in root .. CaseCount
  BY LastOfIsCase DEF BatchShape
<1>3. /\ CaseCount \in Nat /\ root \in 1 .. CaseCount /\ from \in 1 .. CaseCount /\ root <= from
      /\ ends \subseteq from .. LastOf(Rep, root) /\ LastOf(Rep, root) \in ends
  BY <1>1, BatchAssumption DEF BatchShape, Cases
<1>4. ends \subseteq Nat /\ ends # {} /\ LastOf(Rep, root) \in Nat
  BY <1>2, <1>3
<1>5. Min(ends) \in ends /\ \A e \in ends : Min(ends) <= e
  BY <1>4, LeastOf
<1>6. Max(ends) \in ends /\ \A e \in ends : Max(ends) >= e
  <2>1. \A e \in ends : e <= LastOf(Rep, root)
    BY <1>3, <1>4
  <2> QED BY <1>4, <2>1, GreatestOf
<1>7. Max(ends) = LastOf(Rep, root)
  <2>1. Max(ends) \in from .. LastOf(Rep, root)
    BY <1>3, <1>6
  <2>2. Max(ends) <= LastOf(Rep, root) /\ Max(ends) >= LastOf(Rep, root) /\ Max(ends) \in Nat
    BY <1>3, <1>4, <1>6, <2>1
  <2> QED BY <2>2, <1>4
<1>8. Min(ends) \in from .. LastOf(Rep, root)
  BY <1>3, <1>5
<1>9. /\ from \in Asked /\ Asked \subseteq Cases /\ Asked \subseteq Allowed(Rep, root)
      /\ \A c \in Cases : c \in Asked <=> from <= c /\ c <= Min(ends)
  BY <1>2, <1>3, <1>8 DEF Asked, Allowed, Cases
<1>10. IsFiniteSet(Asked) /\ Cardinality(Asked) = Min(ends) - from + 1
  BY <1>3, <1>2, <1>8, FS_Interval DEF Asked
<1>11. IsFiniteSet(ends)
  <2>1. IsFiniteSet(from .. LastOf(Rep, root))
    BY <1>3, <1>4, FS_Interval
  <2> QED BY <2>1, <1>3, FS_Subset
<1>12. Cardinality(ends) \in Nat
  BY <1>11, FS_CardinalityType
<1> QED
  BY <1>1, <1>2, <1>5, <1>7, <1>8, <1>9, <1>10, <1>11, <1>12

\* A batch of the manifest counts its cases.
LEMMA AllowedIs ==
  ASSUME NEW r, NEW c \in Cases
  PROVE  Cardinality(Allowed(r, c)) = LastOf(r, c) - c + 1 /\ Allowed(r, c) \subseteq Cases
<1>1. LastOf(r, c) \in c .. CaseCount /\ c \in 1 .. CaseCount /\ CaseCount \in Nat
  BY LastOfIsCase, BatchAssumption DEF Cases
<1>2. Cardinality(c .. LastOf(r, c)) = LastOf(r, c) - c + 1
  BY <1>1, FS_Interval
<1> QED
  BY <1>1, <1>2 DEF Allowed, Cases

\* A call is kept at the end, and counts for whom it was about.
LEMMA KeptIs ==
  ASSUME BatchShape, Asking, records \in Seq(BatchRecord),
         NEW response \in Response, Keep(response)
  PROVE  /\ records' \in Seq(BatchRecord)
         /\ Call \in Nat /\ DOMAIN records = 1 .. Len(records) /\ Len(records) \in Nat
         /\ DOMAIN records' = DOMAIN records \cup {Call} /\ Call \notin DOMAIN records
         /\ \A i \in DOMAIN records : i \in Nat /\ i < Call /\ records'[i] = records[i]
         /\ records'[Call] = [rep |-> Rep, root |-> root, asked |-> Asked, response |-> response]
         /\ \A r, c : Cardinality(Alone(r, c)') =
               Cardinality(Alone(r, c)) + IF r = Rep /\ Asked = {c} THEN 1 ELSE 0
         /\ \A r, c : Cardinality(CallsFor(r, c)') =
               Cardinality(CallsFor(r, c)) + IF r = Rep /\ c = root THEN 1 ELSE 0
         /\ \A r, c : Cardinality(Alone(r, c)) \in Nat /\ Cardinality(CallsFor(r, c)) \in Nat
<1> DEFINE new == [rep |-> Rep, root |-> root, asked |-> Asked, response |-> response]
<1>1. new \in BatchRecord
  <2>1. Rep \in ToSet(Representations) /\ Asked \in SUBSET Cases /\ Asked # {}
    BY AskedIs
  <2> QED BY <2>1 DEF BatchRecord, BatchShape
<1>2. records' = Append(records, new)
  BY DEF Keep
<1>3. /\ Len(records) \in Nat /\ DOMAIN records = 1 .. Len(records) /\ Call = Len(records) + 1
  BY DEF Call
<1> HIDE DEF new
<1>4. /\ records' \in Seq(BatchRecord)
      /\ DOMAIN records' = 1 .. Len(records) + 1
      /\ \A i \in DOMAIN records : records'[i] = records[i]
      /\ records'[Len(records) + 1] = new
  BY <1>1, <1>2, <1>3
<1>5. DOMAIN records' = DOMAIN records \cup {Call} /\ Call \notin DOMAIN records /\ Call \in Nat
  BY <1>3, <1>4
<1>6. records'[Call] = new
  BY <1>3, <1>4
<1>7. IsFiniteSet(DOMAIN records)
  BY <1>3, FS_Interval
<1>8. ASSUME NEW r, NEW c
      PROVE  /\ Cardinality(Alone(r, c)') = Cardinality(Alone(r, c)) + IF r = Rep /\ Asked = {c} THEN 1 ELSE 0
             /\ Cardinality(Alone(r, c)) \in Nat
  <2>1. IsFiniteSet(Alone(r, c)) /\ Call \notin Alone(r, c)
    <3>1. Alone(r, c) \subseteq DOMAIN records
      BY DEF Alone
    <3> QED BY <1>5, <1>7, <3>1, FS_Subset
  <2>2. Cardinality(Alone(r, c)) \in Nat
    BY <2>1, FS_CardinalityType
  <2>3. new.rep = Rep /\ new.asked = Asked
    BY DEF new
  <2>4. Alone(r, c)' = {i \in DOMAIN records' : records'[i].rep = r /\ records'[i].asked = {c}}
    BY DEF Alone
  <2>5. CASE r = Rep /\ Asked = {c}
    <3>1. Alone(r, c)' = Alone(r, c) \cup {Call}
      BY <2>3, <2>4, <2>5, <1>4, <1>5, <1>6 DEF Alone
    <3>2. Cardinality(Alone(r, c)') = Cardinality(Alone(r, c)) + 1
      BY <2>1, <3>1, FS_AddElement
    <3> QED BY <2>2, <2>5, <3>2
  <2>6. CASE ~(r = Rep /\ Asked = {c})
    <3>1. Alone(r, c)' = Alone(r, c)
      BY <2>3, <2>4, <2>6, <1>4, <1>5, <1>6 DEF Alone
    <3> QED BY <2>2, <2>6, <3>1
  <2> QED BY <2>5, <2>6
<1>9. ASSUME NEW r, NEW c
      PROVE  /\ Cardinality(CallsFor(r, c)') = Cardinality(CallsFor(r, c)) + IF r = Rep /\ c = root THEN 1 ELSE 0
             /\ Cardinality(CallsFor(r, c)) \in Nat
  <2>1. IsFiniteSet(CallsFor(r, c)) /\ Call \notin CallsFor(r, c)
    <3>1. CallsFor(r, c) \subseteq DOMAIN records
      BY DEF CallsFor
    <3> QED BY <1>5, <1>7, <3>1, FS_Subset
  <2>2. Cardinality(CallsFor(r, c)) \in Nat
    BY <2>1, FS_CardinalityType
  <2>3. new.rep = Rep /\ new.root = root
    BY DEF new
  <2>4. CallsFor(r, c)' = {i \in DOMAIN records' : records'[i].rep = r /\ records'[i].root = c}
    BY DEF CallsFor
  <2>5. CASE r = Rep /\ c = root
    <3>1. CallsFor(r, c)' = CallsFor(r, c) \cup {Call}
      BY <2>3, <2>4, <2>5, <1>4, <1>5, <1>6 DEF CallsFor
    <3>2. Cardinality(CallsFor(r, c)') = Cardinality(CallsFor(r, c)) + 1
      BY <2>1, <3>1, FS_AddElement
    <3> QED BY <2>2, <2>5, <3>2
  <2>6. CASE ~(r = Rep /\ c = root)
    <3>1. CallsFor(r, c)' = CallsFor(r, c)
      BY <2>3, <2>4, <2>6, <1>4, <1>5, <1>6 DEF CallsFor
    <3> QED BY <2>2, <2>6, <3>1
  <2> QED BY <2>5, <2>6
<1>10. \A i \in DOMAIN records : i \in Nat /\ i < Call
  BY <1>3
<1> QED
  BY <1>3, <1>4, <1>5, <1>6, <1>8, <1>9, <1>10 DEF new

\* Who is asked about is not past.
LEMMA AskedNotPast ==
  ASSUME BatchShape, Asking, NEW c \in Asked
  PROVE  ~Past(Rep, c)
<1>1. /\ turn \in DOMAIN Representations /\ Rep = Representations[turn]
      /\ c \in Cases /\ from <= c
  BY AskedIs
<1>2. c \in Nat /\ from \in Nat /\ turn \in Nat
  BY <1>1, Places DEF Cases, BatchShape
<1>3. ASSUME NEW t \in DOMAIN Representations, Representations[t] = Rep PROVE t = turn
  BY <1>1, <1>3, Places
<1> QED
  BY <1>1, <1>2, <1>3 DEF Past

\* Whom a call leaves behind: those it was about, and nobody returns.
LEMMA ProceedMoves ==
  ASSUME BatchShape, Asking, Proceed, attempt' = 0
  PROVE  /\ BatchShape'
         /\ \A r \in ToSet(Representations), c \in Cases :
               Past(r, c)' <=> Past(r, c) \/ (r = Rep /\ c \in Asked)
         /\ \A t \in DOMAIN Representations, c \in Cases :
               t < turn \/ (t = turn /\ c <= root) => t < turn' \/ (t = turn' /\ c <= root')
<1>1. /\ turn \in DOMAIN Representations /\ Rep = Representations[turn]
      /\ LastOf(Rep, root) \in root .. CaseCount
      /\ Min(ends) \in ends /\ (\A e \in ends : Min(ends) <= e)
      /\ Min(ends) \in from .. LastOf(Rep, root)
      /\ Max(ends) = LastOf(Rep, root)
      /\ \A c \in Cases : c \in Asked <=> from <= c /\ c <= Min(ends)
  BY AskedIs
<1>2. /\ Len(Representations) \in Nat /\ DOMAIN Representations = 1 .. Len(Representations)
      /\ turn \in 1 .. Len(Representations)
      /\ CaseCount \in Nat /\ 1 <= CaseCount /\ Cases = 1 .. CaseCount
      /\ root \in 1 .. CaseCount /\ from \in 1 .. CaseCount /\ root <= from
      /\ Min(ends) \in 1 .. CaseCount
      /\ ends \subseteq from .. LastOf(Rep, root) /\ LastOf(Rep, root) \in ends
  BY <1>1, Places, BatchAssumption DEF BatchShape, Cases
<1>3. CASE Min(ends) # Max(ends)
  <2>1. /\ from' = Min(ends) + 1 /\ ends' = ends \ {Min(ends)} /\ turn' = turn /\ root' = root
    BY <1>3 DEF Proceed
  <2>2. Min(ends) < LastOf(Rep, root)
    BY <1>1, <1>2, <1>3
  <2>3. BatchShape'
    <3>1. from' \in Cases /\ root' <= from' /\ root' \in Cases /\ turn' \in 1 .. Len(Representations) + 1
      BY <1>1, <1>2, <2>1, <2>2
    <3>2. Rep' = Rep
      BY <2>1 DEF Rep
    <3>3. LastOf(Rep, root) \in ends'
      BY <1>1, <1>2, <1>3, <2>1
    <3>4. ASSUME NEW e \in ends' PROVE e \in from' .. LastOf(Rep, root)
      <4>1. e \in ends /\ e # Min(ends) /\ Min(ends) <= e /\ e \in from .. LastOf(Rep, root)
        BY <1>1, <1>2, <2>1
      <4>2. Min(ends) \in Nat /\ LastOf(Rep, root) \in Nat
        BY <1>1, <1>2
      <4> QED BY <1>2, <2>1, <4>1, <4>2
    <3> QED BY <2>1, <3>1, <3>2, <3>3, <3>4 DEF BatchShape
  <2>4. ASSUME NEW r \in ToSet(Representations), NEW c \in Cases
        PROVE  Past(r, c)' <=> Past(r, c) \/ (r = Rep /\ c \in Asked)
    <3>1. Past(r, c)' <=> \E t \in DOMAIN Representations :
                Representations[t] = r /\ (t < turn \/ (t = turn /\ c < Min(ends) + 1))
      BY <2>1 DEF Past
    <3>2. c < Min(ends) + 1 <=> c < from \/ c \in Asked
      BY <1>1, <1>2
    <3> QED BY <3>1, <3>2, <1>1, Places DEF Past
  <2> QED BY <2>1, <2>3, <2>4
<1>4. CASE Min(ends) = Max(ends) /\ Min(ends) < CaseCount
  <2>1. Open(turn, Min(ends) + 1)
    BY <1>4 DEF Proceed
  <2>2. /\ turn' = turn /\ root' = Min(ends) + 1 /\ from' = Min(ends) + 1
        /\ ends' = {LastOf(Rep, root')}
    BY <1>1, <1>2, <2>1 DEF Open
  <2>3. BatchShape'
    <3>1. from' \in Cases /\ root' = from' /\ turn' \in 1 .. Len(Representations) + 1
      BY <1>2, <1>4, <2>2
    <3>2. Rep' = Rep
      BY <2>2 DEF Rep
    <3>3. LastOf(Rep, root') \in root' .. CaseCount
      BY <3>1, LastOfIsCase
    <3>4. ends' \subseteq from' .. LastOf(Rep, root') /\ LastOf(Rep, root') \in ends'
      BY <1>2, <2>2, <3>1, <3>3
    <3>5. root' <= from'
      BY <1>2, <2>2
    <3> QED BY <2>2, <3>1, <3>2, <3>4, <3>5 DEF BatchShape
  <2>4. ASSUME NEW r \in ToSet(Representations), NEW c \in Cases
        PROVE  Past(r, c)' <=> Past(r, c) \/ (r = Rep /\ c \in Asked)
    <3>1. Past(r, c)' <=> \E t \in DOMAIN Representations :
                Representations[t] = r /\ (t < turn \/ (t = turn /\ c < Min(ends) + 1))
      BY <2>2 DEF Past
    <3>2. c < Min(ends) + 1 <=> c < from \/ c \in Asked
      BY <1>1, <1>2
    <3> QED BY <3>1, <3>2, <1>1, Places DEF Past
  <2>5. root <= root'
    BY <1>1, <1>2, <2>2
  <2>6. ASSUME NEW c \in Cases, c <= root PROVE c <= root'
    BY <1>2, <2>2, <2>5, <2>6
  <2> QED BY <2>2, <2>3, <2>4, <2>6
<1>5. CASE Min(ends) = Max(ends) /\ ~(Min(ends) < CaseCount)
  <2>1. Open(turn + 1, 1)
    BY <1>5 DEF Proceed
  <2>2. /\ turn' = turn + 1 /\ root' = 1 /\ from' = 1
        /\ turn' <= Len(Representations) => ends' = {LastOf(Representations[turn'], 1)}
    BY <2>1 DEF Open
  <2>3. BatchShape'
    <3>1. from' \in Cases /\ root' = from' /\ turn' \in 1 .. Len(Representations) + 1 /\ root' <= from'
      BY <1>2, <2>2
    <3>2. Rep' = Representations[turn']
      BY DEF Rep
    <3>3. LastOf(Rep', root') \in root' .. CaseCount
      BY <3>1, LastOfIsCase
    <3>4. turn' <= Len(Representations) =>
            ends' \subseteq from' .. LastOf(Rep', root') /\ LastOf(Rep', root') \in ends'
      BY <1>2, <2>2, <3>2, <3>3
    <3> QED BY <3>1, <3>4 DEF BatchShape
  <2>4. ASSUME NEW r \in ToSet(Representations), NEW c \in Cases
        PROVE  Past(r, c)' <=> Past(r, c) \/ (r = Rep /\ c \in Asked)
    <3>1. PICK t \in DOMAIN Representations : Representations[t] = r
      BY Places
    <3>2. Past(r, c)' <=> t < turn + 1 \/ (t = turn + 1 /\ c < 1)
      BY <2>2, <3>1, Places DEF Past
    <3>3. Past(r, c) <=> t < turn \/ (t = turn /\ c < from)
      BY <3>1, Places DEF Past
    <3>4. c < from \/ c \in Asked
      BY <1>1, <1>2, <1>5
    <3>5. r = Rep <=> t = turn
      BY <1>1, <3>1, Places
    <3>6. t \in Nat /\ c \in Nat /\ turn \in Nat /\ ~(c < 1)
      BY <1>2
    <3>7. Past(r, c)' <=> t < turn \/ t = turn
      BY <3>2, <3>6
    <3> QED BY <3>3, <3>4, <3>5, <3>7
  <2>5. \A t \in DOMAIN Representations : t < turn \/ t = turn => t < turn'
    BY <1>2, <2>2
  <2> QED BY <2>3, <2>4, <2>5
<1> QED
  BY <1>3, <1>4, <1>5

\* What is true of a case that is past stays true when a call about others is
\* kept.
LEMMA FatesStay ==
  ASSUME BatchShape, Asking, CallsInv, FatesInv,
         NEW response \in Response, Keep(response),
         \A r \in ToSet(Representations), c \in Cases : Past(r, c) => Past(r, c)'
  PROVE  /\ \A a \in answers :
               /\ Past(a.rep, a.case)'
               /\ a.call \in DOMAIN records'
               /\ records'[a.call].rep = a.rep /\ a.case \in records'[a.call].asked
               /\ records'[a.call].response = Answer(records'[a.call].asked, FALSE, TRUE)
               /\ \A i \in DOMAIN records' :
                     i > a.call /\ records'[i].rep = a.rep => a.case \notin records'[i].asked
         /\ \A f \in failures :
               /\ Past(f.rep, f.case)'
               /\ Cardinality(Alone(f.rep, f.case)') = 2
<1>1. /\ DOMAIN records' = DOMAIN records \cup {Call}
      /\ \A i \in DOMAIN records : i \in Nat /\ i < Call /\ records'[i] = records[i]
      /\ records'[Call] = [rep |-> Rep, root |-> root, asked |-> Asked, response |-> response]
      /\ \A r, c : Cardinality(Alone(r, c)') =
               Cardinality(Alone(r, c)) + IF r = Rep /\ Asked = {c} THEN 1 ELSE 0
      /\ \A r, c : Cardinality(Alone(r, c)) \in Nat
  BY KeptIs DEF CallsInv
<1>2. ASSUME NEW a \in answers
      PROVE  /\ Past(a.rep, a.case)'
             /\ a.call \in DOMAIN records'
             /\ records'[a.call].rep = a.rep /\ a.case \in records'[a.call].asked
             /\ records'[a.call].response = Answer(records'[a.call].asked, FALSE, TRUE)
             /\ \A i \in DOMAIN records' :
                   i > a.call /\ records'[i].rep = a.rep => a.case \notin records'[i].asked
  <2>1. /\ a.rep \in ToSet(Representations) /\ a.case \in Cases
        /\ Past(a.rep, a.case)
        /\ a.call \in DOMAIN records
        /\ records[a.call].rep = a.rep /\ a.case \in records[a.call].asked
        /\ records[a.call].response = Answer(records[a.call].asked, FALSE, TRUE)
        /\ \A i \in DOMAIN records : i > a.call /\ records[i].rep = a.rep => a.case \notin records[i].asked
    BY DEF FatesInv
  <2>2. Past(a.rep, a.case)'
    BY <2>1
  <2>3. a.rep = Rep => a.case \notin Asked
    BY <2>1, AskedNotPast
  <2>4. ASSUME NEW i \in DOMAIN records', i > a.call, records'[i].rep = a.rep
        PROVE  a.case \notin records'[i].asked
    <3>1. CASE i \in DOMAIN records
      BY <1>1, <2>1, <2>4, <3>1
    <3>2. CASE i = Call
      BY <1>1, <2>3, <2>4, <3>2
    <3> QED BY <1>1, <3>1, <3>2
  <2> QED BY <1>1, <2>1, <2>2, <2>4
<1>3. ASSUME NEW f \in failures
      PROVE  Past(f.rep, f.case)' /\ Cardinality(Alone(f.rep, f.case)') = 2
  <2>1. /\ f.rep \in ToSet(Representations) /\ f.case \in Cases
        /\ Past(f.rep, f.case) /\ Cardinality(Alone(f.rep, f.case)) = 2
    BY DEF FatesInv
  <2>2. ~(f.rep = Rep /\ Asked = {f.case})
    BY <2>1, AskedNotPast
  <2>3. Cardinality(Alone(f.rep, f.case)') = Cardinality(Alone(f.rep, f.case)) + 0
    BY <1>1, <2>2
  <2> QED BY <2>1, <2>3
<1> QED
  BY <1>2, <1>3

\* The same for the records.
LEMMA CallsStay ==
  ASSUME BatchShape, Asking, CallsInv,
         NEW response \in Response, Keep(response), answers \subseteq answers',
         \A t \in DOMAIN Representations, c \in Cases :
               t < turn \/ (t = turn /\ c <= root) => t < turn' \/ (t = turn' /\ c <= root'),
         \/ /\ response = Answer(Asked, FALSE, TRUE)
            /\ \A c \in Asked : [rep |-> Rep, case |-> c, call |-> Call] \in answers'
         \/ ~Parses(response, Asked)
  PROVE  CallsInv'
<1>1. /\ records' \in Seq(BatchRecord)
      /\ DOMAIN records' = DOMAIN records \cup {Call}
      /\ \A i \in DOMAIN records : i \in Nat /\ i < Call /\ records'[i] = records[i]
      /\ records'[Call] = [rep |-> Rep, root |-> root, asked |-> Asked, response |-> response]
  BY KeptIs DEF CallsInv
<1>2. ASSUME NEW i \in DOMAIN records'
      PROVE  /\ records'[i].asked \subseteq Allowed(records'[i].rep, records'[i].root)
             /\ \E t \in DOMAIN Representations :
                   /\ Representations[t] = records'[i].rep
                   /\ t < turn' \/ (t = turn' /\ records'[i].root <= root')
             /\ \/ /\ records'[i].response = Answer(records'[i].asked, FALSE, TRUE)
                   /\ \A c \in records'[i].asked :
                         [rep |-> records'[i].rep, case |-> c, call |-> i] \in answers'
                \/ ~Parses(records'[i].response, records'[i].asked)
  <2>1. CASE i \in DOMAIN records
    <3>1. records'[i] = records[i]
      BY <1>1, <2>1
    <3>2. records[i].root \in Cases
      <4>1. records[i] \in BatchRecord
        BY <2>1 DEF CallsInv
      <4> QED BY <4>1 DEF BatchRecord
    <3>3. PICK t \in DOMAIN Representations :
              /\ Representations[t] = records[i].rep
              /\ t < turn \/ (t = turn /\ records[i].root <= root)
      BY <2>1 DEF CallsInv
    <3>4. t < turn' \/ (t = turn' /\ records[i].root <= root')
      BY <3>2, <3>3
    <3> QED BY <2>1, <3>1, <3>3, <3>4 DEF CallsInv
  <2>2. CASE i = Call
    <3>1. /\ turn \in DOMAIN Representations /\ Rep = Representations[turn]
          /\ Asked \subseteq Allowed(Rep, root) /\ root \in Cases
      BY AskedIs DEF BatchShape
    <3>2. turn < turn' \/ (turn = turn' /\ root <= root')
      <4>1. root <= root
        BY <3>1 DEF Cases
      <4> QED BY <3>1, <4>1
    <3>3. /\ records'[i].rep = Rep /\ records'[i].root = root
          /\ records'[i].asked = Asked /\ records'[i].response = response
      BY <1>1, <2>2
    <3>4. \/ /\ records'[i].response = Answer(records'[i].asked, FALSE, TRUE)
             /\ \A c \in records'[i].asked :
                   [rep |-> records'[i].rep, case |-> c, call |-> i] \in answers'
          \/ ~Parses(records'[i].response, records'[i].asked)
      BY <2>2, <3>3
    <3> QED BY <3>1, <3>2, <3>3, <3>4
  <2> QED BY <1>1, <2>1, <2>2
<1> QED
  BY <1>1, <1>2 DEF CallsInv

\* The bound for every batch: only the one that is asked has another call.
LEMMA CallFits ==
  ASSUME BatchShape, Asking, CallsInv, CallsBound, NEW response \in Response, Keep(response)
  PROVE  \A r \in ToSet(Representations), c \in Cases :
               Cardinality(CallsFor(r, c)') <= 2 * (2 * Cardinality(Allowed(r, c)) - 1)
<1>1. /\ turn \in DOMAIN Representations
      /\ LastOf(Rep, root) \in root .. CaseCount
      /\ Min(ends) \in from .. LastOf(Rep, root)
      /\ IsFiniteSet(ends) /\ Cardinality(ends) \in Nat
  BY AskedIs
<1>2. \A r, c : /\ Cardinality(CallsFor(r, c)') =
                       Cardinality(CallsFor(r, c)) + IF r = Rep /\ c = root THEN 1 ELSE 0
                /\ Cardinality(CallsFor(r, c)) \in Nat
  BY KeptIs DEF CallsInv
<1>3. /\ root \in Nat /\ from \in Nat /\ LastOf(Rep, root) \in Nat /\ attempt \in {0, 1}
      /\ root <= from /\ from <= LastOf(Rep, root)
      /\ turn <= Len(Representations) /\ ends \subseteq from .. LastOf(Rep, root)
  BY <1>1, Places, BatchAssumption DEF BatchShape, Cases
<1>4. Cardinality(ends) <= LastOf(Rep, root) - from + 1
  <2>1. /\ IsFiniteSet(from .. LastOf(Rep, root))
        /\ Cardinality(from .. LastOf(Rep, root)) = LastOf(Rep, root) - from + 1
    BY <1>3, FS_Interval
  <2>2. Cardinality(ends) <= Cardinality(from .. LastOf(Rep, root))
    BY <1>3, <2>1, FS_Subset
  <2> QED BY <2>1, <2>2
<1>5. Cardinality(CallsFor(Rep, root)) + 4 * (LastOf(Rep, root) - from + 1) + 2
         <= 4 * (LastOf(Rep, root) - root + 1) + 2 * Cardinality(ends) + attempt
  BY <1>3 DEF CallsBound
<1>6. ASSUME NEW r \in ToSet(Representations), NEW c \in Cases
      PROVE  Cardinality(CallsFor(r, c)') <= 2 * (2 * Cardinality(Allowed(r, c)) - 1)
  <2>1. CASE r = Rep /\ c = root
    <3>1. Cardinality(Allowed(r, c)) = LastOf(Rep, root) - root + 1
      BY <2>1, AllowedIs
    <3>2. Cardinality(CallsFor(r, c)') = Cardinality(CallsFor(Rep, root)) + 1
      BY <1>2, <2>1
    <3>3. Cardinality(CallsFor(Rep, root)) \in Nat
      BY <1>2
    <3>4. Cardinality(CallsFor(Rep, root)) + 1 <= 2 * (2 * (LastOf(Rep, root) - root + 1) - 1)
      <4>1. \A C, L, F, R, E \in Nat, A \in {0, 1} :
              /\ F <= L /\ E <= L - F + 1
              /\ C + 4 * (L - F + 1) + 2 <= 4 * (L - R + 1) + 2 * E + A
              => C + 1 <= 2 * (2 * (L - R + 1) - 1)
        OBVIOUS
      <4> QED BY <1>1, <1>3, <1>4, <1>5, <3>3, <4>1
    <3> QED BY <3>1, <3>2, <3>4
  <2>2. CASE ~(r = Rep /\ c = root)
    <3>1. Cardinality(CallsFor(r, c)') = Cardinality(CallsFor(r, c))
      BY <1>2, <2>2
    <3> QED BY <3>1 DEF CallsBound
  <2> QED BY <2>1, <2>2
<1> QED
  BY <1>6

\* What may still be spent, for the next part, batch or representation.
LEMMA ProceedFits ==
  ASSUME BatchShape, Asking, CallsInv, CallsBound, NEW response \in Response, Keep(response),
         Proceed, attempt' = 0
  PROVE  CallsBound'
<1>1. /\ turn \in DOMAIN Representations /\ Rep = Representations[turn]
      /\ LastOf(Rep, root) \in root .. CaseCount
      /\ Min(ends) \in ends
      /\ Min(ends) \in from .. LastOf(Rep, root)
      /\ Max(ends) = LastOf(Rep, root)
      /\ IsFiniteSet(ends) /\ Cardinality(ends) \in Nat
  BY AskedIs
<1>2. /\ \A r, c : Cardinality(CallsFor(r, c)) \in Nat
      /\ \A r, c : Cardinality(CallsFor(r, c)') =
            Cardinality(CallsFor(r, c)) + IF r = Rep /\ c = root THEN 1 ELSE 0
  BY KeptIs DEF CallsInv
<1>3. /\ root \in Nat /\ from \in Nat /\ LastOf(Rep, root) \in Nat /\ attempt \in {0, 1}
      /\ CaseCount \in Nat /\ 1 <= root /\ turn \in Nat
      /\ root <= from /\ from <= LastOf(Rep, root) /\ LastOf(Rep, root) <= CaseCount
      /\ turn <= Len(Representations) /\ Min(ends) \in Nat
  BY <1>1, Places, BatchAssumption DEF BatchShape, Cases
<1>4. Cardinality(CallsFor(Rep, root)) + 4 * (LastOf(Rep, root) - from + 1) + 2
         <= 4 * (LastOf(Rep, root) - root + 1) + 2 * Cardinality(ends) + attempt
  BY <1>3 DEF CallsBound
<1>5. ASSUME turn' <= Len(Representations), from' = root', ends' = {LastOf(Rep', root')},
             root' \in Cases, turn' \in DOMAIN Representations,
             turn' = turn + 1 \/ (turn' = turn /\ root < root')
      PROVE  Cardinality(CallsFor(Rep, root))' + 4 * (LastOf(Rep', root') - from' + 1) + 2
                <= 4 * (LastOf(Rep', root') - root' + 1) + 2 * Cardinality(ends') + attempt'
  <2>1. Rep' = Representations[turn']
    BY DEF Rep
  <2>2. ~(Rep' = Rep /\ root' = root)
    BY <1>1, <1>3, <1>5, <2>1, Places
  <2>3. PICK r, c : r = Rep' /\ c = root'
    OBVIOUS
  <2>4. CallsFor(r, c) = {}
    <3>1. ASSUME NEW i \in DOMAIN records, records[i].rep = Rep', records[i].root = root'
          PROVE  FALSE
      <4>1. PICK t \in DOMAIN Representations :
                /\ Representations[t] = Rep'
                /\ t < turn \/ (t = turn /\ root' <= root)
        BY <3>1 DEF CallsInv
      <4>2. t = turn'
        BY <1>5, <2>1, <4>1, Places
      <4> QED BY <1>3, <1>5, <4>1, <4>2 DEF Cases
    <3> QED BY <2>3, <3>1 DEF CallsFor
  <2>5. Cardinality(CallsFor(Rep, root))' = 0
    <3>1. Cardinality(CallsFor(r, c)) = 0
      BY <2>4, FS_EmptySet
    <3>2. Cardinality(CallsFor(r, c)') = 0
      BY <1>2, <2>2, <2>3, <3>1
    <3>3. CallsFor(Rep, root)' = CallsFor(r, c)'
      BY <2>3 DEF CallsFor
    <3> QED BY <3>2, <3>3
  <2>6. Cardinality(ends') = 1
    BY <1>5, FS_Singleton
  <2>7. LastOf(Rep', root') \in Nat /\ root' \in Nat
    BY <1>3, <1>5, LastOfIsCase DEF Cases
  <2> QED BY <1>5, <2>5, <2>6, <2>7
<1>6. turn' <= Len(Representations) =>
        Cardinality(CallsFor(Rep, root))' + 4 * (LastOf(Rep', root') - from' + 1) + 2
           <= 4 * (LastOf(Rep', root') - root' + 1) + 2 * Cardinality(ends') + attempt'
  <2>1. CASE Min(ends) # Max(ends)
    <3>1. /\ from' = Min(ends) + 1 /\ ends' = ends \ {Min(ends)} /\ turn' = turn /\ root' = root
      BY <2>1 DEF Proceed
    <3>2. Rep' = Rep
      BY <3>1 DEF Rep
    <3>3. Cardinality(ends') = Cardinality(ends) - 1
      BY <1>1, <3>1, FS_RemoveElement
    <3>4. Cardinality(CallsFor(Rep, root))' = Cardinality(CallsFor(Rep, root)) + 1
      <4>1. PICK r, c : r = Rep /\ c = root
        OBVIOUS
      <4>2. Cardinality(CallsFor(r, c)') = Cardinality(CallsFor(r, c)) + 1
        BY <1>2, <4>1
      <4>3. CallsFor(Rep, root)' = CallsFor(r, c)'
        BY <3>1, <3>2, <4>1 DEF CallsFor
      <4> QED BY <4>1, <4>2, <4>3
    <3>5. Cardinality(CallsFor(Rep, root)) \in Nat
      BY <1>2
    <3>6. Cardinality(CallsFor(Rep, root)) + 1 + 4 * (LastOf(Rep, root) - (Min(ends) + 1) + 1) + 2
             <= 4 * (LastOf(Rep, root) - root + 1) + 2 * (Cardinality(ends) - 1) + 0
      <4>1. \A C, L, F, R, E, M \in Nat, A \in {0, 1} :
              /\ F <= M
              /\ C + 4 * (L - F + 1) + 2 <= 4 * (L - R + 1) + 2 * E + A
              => C + 1 + 4 * (L - (M + 1) + 1) + 2 <= 4 * (L - R + 1) + 2 * (E - 1) + 0
        OBVIOUS
      <4>2. from <= Min(ends)
        BY <1>1, <1>3
      <4> QED BY <1>1, <1>3, <1>4, <3>5, <4>1, <4>2
    <3> QED BY <3>1, <3>2, <3>3, <3>4, <3>6
  <2>2. CASE Min(ends) = Max(ends) /\ Min(ends) < CaseCount
    <3>1. Open(turn, Min(ends) + 1)
      BY <2>2 DEF Proceed
    <3>2. /\ turn' = turn /\ root' = Min(ends) + 1 /\ from' = Min(ends) + 1
          /\ ends' = {LastOf(Rep, root')}
      BY <1>1, <1>3, <3>1 DEF Open
    <3>3. Rep' = Rep
      BY <3>2 DEF Rep
    <3>4. root' \in Cases /\ root < root'
      BY <1>1, <1>3, <2>2, <3>2 DEF Cases
    <3> QED BY <1>1, <1>3, <1>5, <3>2, <3>3, <3>4
  <2>3. CASE Min(ends) = Max(ends) /\ ~(Min(ends) < CaseCount)
    <3>1. Open(turn + 1, 1)
      BY <2>3 DEF Proceed
    <3>2. /\ turn' = turn + 1 /\ root' = 1 /\ from' = 1
          /\ turn' <= Len(Representations) => ends' = {LastOf(Rep', 1)}
      BY <3>1 DEF Open, Rep
    <3>3. root' \in Cases
      BY <1>3, <3>2 DEF Cases
    <3>4. turn' <= Len(Representations) => turn' \in DOMAIN Representations
      BY <1>3, <3>2, Places
    <3> QED BY <1>5, <3>2, <3>3, <3>4
  <2> QED BY <2>1, <2>2, <2>3
<1>7. \A r \in ToSet(Representations), c \in Cases :
           Cardinality(CallsFor(r, c)') <= 2 * (2 * Cardinality(Allowed(r, c)) - 1)
  BY CallFits
<1> QED
  BY <1>6, <1>7 DEF CallsBound

\* The answers that are not what was asked for do not parse.
LEMMA UnfitFails ==
  ASSUME BatchShape, Asking, NEW r \in Unfit \cup {NoResponse}
  PROVE  r \in Response /\ ~Parses(r, Asked)
<1>1. /\ Asked \subseteq Cases /\ Rep \in ToSet(Representations)
  BY AskedIs
<1>2. Cases \subseteq Nat /\ CaseCount + 1 \in Nat /\ root \in Cases
  BY BatchAssumption DEF Cases, BatchShape
<1>3. Asked \subseteq Nat /\ Allowed(Rep, root) \subseteq Nat
  BY <1>1, <1>2, AllowedIs
<1>4. CASE r \in {Garbled, NoResponse}
  <2>1. r \in Response
    BY <1>4 DEF Response
  <2>2. ~Garbled.json /\ ~NoResponse.json
    BY DEF Garbled, NoResponse
  <2> QED BY <1>4, <2>1, <2>2 DEF Parses
<1>5. CASE r \in {Answer(Asked, TRUE, TRUE), Answer(Asked, FALSE, FALSE)}
  <2>1. CASE r = Answer(Asked, TRUE, TRUE)
    BY <1>3, <2>1 DEF Answer, Response, Parses
  <2>2. CASE r = Answer(Asked, FALSE, FALSE)
    BY <1>3, <2>2 DEF Answer, Response, Parses
  <2> QED BY <1>5, <2>1, <2>2
<1>6. ASSUME NEW s \in {{from}, Allowed(Rep, root), Allowed(Rep, root) \ Asked, {}, {CaseCount + 1}}
                          \ {Asked},
             r = Answer(s, FALSE, TRUE)
      PROVE  r \in Response /\ ~Parses(r, Asked)
  <2>1. s \subseteq Nat /\ s # Asked
    BY <1>2, <1>3, <1>6 DEF BatchShape, Cases
  <2> QED BY <1>6, <2>1 DEF Answer, Response, Parses
<1> QED
  BY <1>4, <1>5, <1>6 DEF Unfit

\* The answer that is asked for is a response.
LEMMA AnswerFits ==
  ASSUME BatchShape, Asking
  PROVE  Answer(Asked, FALSE, TRUE) \in Response
<1>1. Asked \subseteq Cases /\ Cases \subseteq Nat
  BY AskedIs DEF Cases
<1> QED
  BY <1>1 DEF Answer, Response

\* Nothing was asked yet.
LEMMA BatchesInvInit == BatchesInit => BatchesInv
<1> SUFFICES ASSUME BatchesInit PROVE BatchesInv
  OBVIOUS
<1>1. /\ turn = 1 /\ root = 1 /\ from = 1 /\ attempt = 0
      /\ ends = {LastOf(Rep, 1)} /\ records = << >> /\ answers = {} /\ failures = {}
  BY DEF BatchesInit, Rep
<1>2. 1 \in Cases /\ Cases = 1 .. CaseCount
  BY BatchAssumption DEF Cases
<1>3. LastOf(Rep, 1) \in 1 .. CaseCount /\ LastOf(Rep, 1) \in Nat
  BY <1>2, LastOfIsCase
<1>4. BatchShape
  <2>1. ends \subseteq from .. LastOf(Rep, root)
    BY <1>1, <1>3
  <2> QED BY <1>1, <1>2, <2>1, Places DEF BatchShape
<1>5. CallsInv
  BY <1>1 DEF CallsInv
<1>6. \A r, c : ~Past(r, c) \/ c \notin Cases
  BY <1>1, <1>2, Places DEF Past
<1>7. \A r, c : Alone(r, c) = {} /\ CallsFor(r, c) = {}
  BY <1>1 DEF Alone, CallsFor
<1>8. \A r, c : Cardinality(Alone(r, c)) = 0 /\ Cardinality(CallsFor(r, c)) = 0
  BY <1>7, FS_EmptySet
<1>9. FatesInv
  BY <1>1, <1>6, <1>8 DEF FatesInv
<1>10. CallsBound
  <2>1. ASSUME NEW r \in ToSet(Representations), NEW c \in Cases
        PROVE  Cardinality(CallsFor(r, c)) <= 2 * (2 * Cardinality(Allowed(r, c)) - 1)
    <3>1. Cardinality(Allowed(r, c)) = LastOf(r, c) - c + 1 /\ LastOf(r, c) \in c .. CaseCount
      BY AllowedIs, LastOfIsCase
    <3>2. Cardinality(Allowed(r, c)) \in Nat /\ Cardinality(Allowed(r, c)) >= 1
      BY <1>2, <3>1, BatchAssumption
    <3> QED BY <1>8, <3>2
  <2>2. Cardinality(CallsFor(Rep, root)) + 4 * (LastOf(Rep, root) - from + 1) + 2
              <= 4 * (LastOf(Rep, root) - root + 1) + 2 * Cardinality(ends) + attempt
    <3>1. Cardinality(ends) = 1
      BY <1>1, FS_Singleton
    <3> QED BY <1>1, <1>3, <1>8, <3>1
  <2> QED BY <2>1, <2>2 DEF CallsBound
<1> QED
  BY <1>4, <1>5, <1>9, <1>10 DEF BatchesInv

\* An accepted answer is the last about each of its cases.
LEMMA AcceptKeeps ==
  ASSUME BatchesInv, Accept
  PROVE  BatchesInv'
<1> DEFINE new == {[rep |-> Rep, case |-> c, call |-> Call] : c \in Asked}
<1>1. /\ Asking /\ Keep(Answer(Asked, FALSE, TRUE)) /\ answers' = answers \cup new
      /\ Proceed /\ attempt' = 0 /\ failures' = failures
  BY DEF Accept
<1>2. BatchShape /\ CallsInv /\ FatesInv /\ CallsBound /\ Answer(Asked, FALSE, TRUE) \in Response
  BY <1>1, AnswerFits DEF BatchesInv
<1>3. /\ BatchShape'
      /\ \A r \in ToSet(Representations), c \in Cases :
            Past(r, c)' <=> Past(r, c) \/ (r = Rep /\ c \in Asked)
      /\ \A t \in DOMAIN Representations, c \in Cases :
            t < turn \/ (t = turn /\ c <= root) => t < turn' \/ (t = turn' /\ c <= root')
  BY <1>1, <1>2, ProceedMoves
<1>4. /\ Rep \in ToSet(Representations) /\ Asked \subseteq Cases /\ from \in Asked
  BY <1>1, <1>2, AskedIs
<1>5. CallsInv'
  BY <1>1, <1>2, <1>3, CallsStay
<1>6. CallsBound'
  BY <1>1, <1>2, ProceedFits
<1>7. /\ DOMAIN records' = DOMAIN records \cup {Call} /\ Call \in Nat /\ Call \notin DOMAIN records
      /\ \A i \in DOMAIN records : i \in Nat /\ i < Call /\ records'[i] = records[i]
      /\ records'[Call] = [rep |-> Rep, root |-> root, asked |-> Asked,
                           response |-> Answer(Asked, FALSE, TRUE)]
      /\ \A r, c : Cardinality(Alone(r, c)') =
               Cardinality(Alone(r, c)) + IF r = Rep /\ Asked = {c} THEN 1 ELSE 0
      /\ \A r, c : Cardinality(Alone(r, c)) \in Nat
  BY <1>1, <1>2, KeptIs DEF CallsInv
<1>8. FatesInv'
  <2>1. /\ answers' \subseteq [rep : ToSet(Representations), case : Cases, call : Nat]
        /\ failures' \subseteq [rep : ToSet(Representations), case : Cases]
    BY <1>1, <1>2, <1>4, <1>7 DEF FatesInv
  <2>2. ASSUME NEW a \in answers'
        PROVE  /\ Past(a.rep, a.case)'
               /\ a.call \in DOMAIN records'
               /\ records'[a.call].rep = a.rep /\ a.case \in records'[a.call].asked
               /\ records'[a.call].response = Answer(records'[a.call].asked, FALSE, TRUE)
               /\ \A i \in DOMAIN records' :
                     i > a.call /\ records'[i].rep = a.rep => a.case \notin records'[i].asked
    <3>1. CASE a \in answers
      BY <1>1, <1>2, <1>3, <3>1, FatesStay
    <3>2. CASE a \in new
      <4>1. a.rep = Rep /\ a.case \in Asked /\ a.call = Call
        BY <3>2
      <4>2. Past(a.rep, a.case)'
        BY <1>3, <1>4, <4>1
      <4>3. \A i \in DOMAIN records' : ~(i > Call)
        BY <1>7
      <4>4. /\ records'[Call].rep = Rep /\ records'[Call].asked = Asked
            /\ records'[Call].response = Answer(Asked, FALSE, TRUE) /\ Call \in DOMAIN records'
        BY <1>7
      <4> QED BY <4>1, <4>2, <4>3, <4>4
    <3> QED BY <1>1, <3>1, <3>2
  <2>3. ASSUME NEW f \in failures'
        PROVE  /\ Past(f.rep, f.case)' /\ Cardinality(Alone(f.rep, f.case)') = 2
               /\ \A a \in answers' : a.rep = f.rep => a.case # f.case
    <3>1. Past(f.rep, f.case)' /\ Cardinality(Alone(f.rep, f.case)') = 2
      BY <1>1, <1>2, <1>3, FatesStay
    <3>2. Past(f.rep, f.case) /\ \A a \in answers : a.rep = f.rep => a.case # f.case
      BY <1>1, <1>2 DEF FatesInv
    <3>3. ASSUME NEW a \in new, a.rep = f.rep, a.case = f.case PROVE FALSE
      <4>1. f.rep = Rep /\ f.case \in Asked
        BY <3>3
      <4> QED BY <1>1, <1>2, <3>2, <4>1, AskedNotPast
    <3> QED BY <1>1, <3>1, <3>2, <3>3
  <2>4. ASSUME NEW r \in ToSet(Representations), NEW c \in Cases, Past(r, c)'
        PROVE  (\E a \in answers' : a.rep = r /\ a.case = c) \/ [rep |-> r, case |-> c] \in failures'
    <3>1. CASE Past(r, c)
      BY <1>1, <1>2, <3>1 DEF FatesInv
    <3>2. CASE r = Rep /\ c \in Asked
      <4>1. [rep |-> Rep, case |-> c, call |-> Call] \in answers'
        BY <1>1, <3>2
      <4> QED BY <3>2, <4>1
    <3> QED BY <1>3, <2>4, <3>1, <3>2
  <2>5. ASSUME NEW r \in ToSet(Representations), NEW c \in Cases, ~Past(r, c)'
        PROVE  Cardinality(Alone(r, c)') = 0
    <3>1. ~Past(r, c) /\ ~(r = Rep /\ c \in Asked)
      BY <1>3, <2>5
    <3>2. ~(r = Rep /\ Asked = {c})
      BY <3>1
    <3>3. Cardinality(Alone(r, c)) = 0
      BY <1>2, <3>1, <3>2 DEF FatesInv
    <3> QED BY <1>7, <3>2, <3>3
  <2> QED BY <1>1, <2>1, <2>2, <2>3, <2>4, <2>5 DEF FatesInv
<1> QED
  BY <1>3, <1>5, <1>6, <1>8 DEF BatchesInv

\* A first failure changes nothing but the count of attempts.
LEMMA FirstFailureKeeps ==
  ASSUME BatchesInv, NEW response \in Response, ~Parses(response, Asked), Fail(response),
         attempt = 0
  PROVE  BatchesInv'
<1>1. /\ Asking /\ Keep(response) /\ attempt' = 1
      /\ turn' = turn /\ root' = root /\ from' = from /\ ends' = ends
      /\ answers' = answers /\ failures' = failures
  BY DEF Fail
<1>2. BatchShape /\ CallsInv /\ FatesInv /\ CallsBound
  BY DEF BatchesInv
<1>3. Rep' = Rep /\ Asked' = Asked /\ \A r, c : Past(r, c)' <=> Past(r, c)
  BY <1>1 DEF Rep, Asked, Past
<1>4. BatchShape'
  BY <1>1, <1>2, <1>3 DEF BatchShape
<1>5. \A t \in DOMAIN Representations, c \in Cases :
          t < turn \/ (t = turn /\ c <= root) => t < turn' \/ (t = turn' /\ c <= root')
  BY <1>1
<1>6. CallsInv'
  BY <1>1, <1>2, <1>5, CallsStay
<1>7. \A r, c : Cardinality(Alone(r, c)') =
          Cardinality(Alone(r, c)) + IF r = Rep /\ Asked = {c} THEN 1 ELSE 0
  BY <1>1, <1>2, KeptIs DEF CallsInv
<1>8. FatesInv'
  <2>1. /\ answers' \subseteq [rep : ToSet(Representations), case : Cases, call : Nat]
        /\ failures' \subseteq [rep : ToSet(Representations), case : Cases]
    BY <1>1, <1>2 DEF FatesInv
  <2>2. /\ \A a \in answers' :
              /\ Past(a.rep, a.case)'
              /\ a.call \in DOMAIN records'
              /\ records'[a.call].rep = a.rep /\ a.case \in records'[a.call].asked
              /\ records'[a.call].response = Answer(records'[a.call].asked, FALSE, TRUE)
              /\ \A i \in DOMAIN records' :
                    i > a.call /\ records'[i].rep = a.rep => a.case \notin records'[i].asked
        /\ \A f \in failures' :
              /\ Past(f.rep, f.case)'
              /\ Cardinality(Alone(f.rep, f.case)') = 2
    BY <1>1, <1>2, <1>3, FatesStay
  <2>3. \A f \in failures', a \in answers' : a.rep = f.rep => a.case # f.case
    BY <1>1, <1>2 DEF FatesInv
  <2>4. ASSUME NEW r \in ToSet(Representations), NEW c \in Cases
        PROVE  IF Past(r, c)'
               THEN \/ \E a \in answers' : a.rep = r /\ a.case = c
                    \/ [rep |-> r, case |-> c] \in failures'
               ELSE Cardinality(Alone(r, c)') = IF r = Rep' /\ Asked' = {c} THEN attempt' ELSE 0
    <3>1. CASE Past(r, c)
      BY <1>1, <1>2, <1>3, <3>1 DEF FatesInv
    <3>2. CASE ~Past(r, c)
      <4>1. Cardinality(Alone(r, c)) = 0
        BY <1>2, <3>2, attempt = 0 DEF FatesInv
      <4> QED BY <1>1, <1>3, <1>7, <3>2, <4>1
    <3> QED BY <3>1, <3>2
  <2> QED BY <2>1, <2>2, <2>3, <2>4 DEF FatesInv
<1>9. CallsBound'
  <2>1. \A r \in ToSet(Representations), c \in Cases :
              Cardinality(CallsFor(r, c)') <= 2 * (2 * Cardinality(Allowed(r, c)) - 1)
    BY <1>1, <1>2, CallFits
  <2>2. Cardinality(CallsFor(Rep, root))' + 4 * (LastOf(Rep', root') - from' + 1) + 2
              <= 4 * (LastOf(Rep', root') - root' + 1) + 2 * Cardinality(ends') + attempt'
    <3>1. PICK r, c : r = Rep /\ c = root
      OBVIOUS
    <3>2. Cardinality(CallsFor(r, c)') = Cardinality(CallsFor(r, c)) + 1 /\ Cardinality(CallsFor(r, c)) \in Nat
      BY <1>1, <1>2, <3>1, KeptIs DEF CallsInv
    <3>3. CallsFor(Rep, root)' = CallsFor(r, c)'
      BY <1>1, <1>3, <3>1 DEF CallsFor
    <3>4. LastOf(Rep, root) \in Nat /\ root \in Nat /\ from \in Nat /\ Cardinality(ends) \in Nat
      <4>1. LastOf(Rep, root) \in root .. CaseCount /\ root \in 1 .. CaseCount /\ from \in 1 .. CaseCount
        BY <1>1, <1>2, AskedIs DEF BatchShape, Cases
      <4> QED BY <1>1, <1>2, <4>1, AskedIs, BatchAssumption
    <3>5. Cardinality(CallsFor(r, c)) + 4 * (LastOf(Rep, root) - from + 1) + 2
              <= 4 * (LastOf(Rep, root) - root + 1) + 2 * Cardinality(ends) + 0
      BY <1>1, <1>2, <3>1, attempt = 0 DEF CallsBound, Asking
    <3> QED BY <1>1, <1>3, <3>2, <3>3, <3>4, <3>5
  <2> QED BY <2>1, <2>2 DEF CallsBound
<1> QED
  BY <1>4, <1>6, <1>8, <1>9 DEF BatchesInv

\* A case that failed twice alone is given up.
LEMMA GivingUpKeeps ==
  ASSUME BatchesInv, NEW response \in Response, ~Parses(response, Asked), Fail(response),
         attempt = 1, Asked = {from}
  PROVE  BatchesInv'
<1> DEFINE lost == [rep |-> Rep, case |-> from]
<1>1. /\ Asking /\ Keep(response) /\ attempt' = 0
      /\ answers' = answers /\ failures' = failures \cup {lost} /\ Proceed
  BY attempt = 1, Asked = {from} DEF Fail, GiveUp
<1>2. BatchShape /\ CallsInv /\ FatesInv /\ CallsBound
  BY DEF BatchesInv
<1>3. /\ BatchShape'
      /\ \A r \in ToSet(Representations), c \in Cases :
            Past(r, c)' <=> Past(r, c) \/ (r = Rep /\ c \in Asked)
      /\ \A t \in DOMAIN Representations, c \in Cases :
            t < turn \/ (t = turn /\ c <= root) => t < turn' \/ (t = turn' /\ c <= root')
  BY <1>1, <1>2, ProceedMoves
<1>4. Rep \in ToSet(Representations) /\ from \in Cases /\ ~Past(Rep, from)
  BY <1>1, <1>2, AskedIs, AskedNotPast
<1>5. CallsInv'
  BY <1>1, <1>2, <1>3, CallsStay
<1>6. CallsBound'
  BY <1>1, <1>2, ProceedFits
<1>7. /\ \A r, c : Cardinality(Alone(r, c)') =
               Cardinality(Alone(r, c)) + IF r = Rep /\ Asked = {c} THEN 1 ELSE 0
      /\ \A r, c : Cardinality(Alone(r, c)) \in Nat
  BY <1>1, <1>2, KeptIs DEF CallsInv
<1>8. FatesInv'
  <2>1. /\ answers' \subseteq [rep : ToSet(Representations), case : Cases, call : Nat]
        /\ failures' \subseteq [rep : ToSet(Representations), case : Cases]
    BY <1>1, <1>2, <1>4 DEF FatesInv
  <2>2. /\ \A a \in answers' :
              /\ Past(a.rep, a.case)'
              /\ a.call \in DOMAIN records'
              /\ records'[a.call].rep = a.rep /\ a.case \in records'[a.call].asked
              /\ records'[a.call].response = Answer(records'[a.call].asked, FALSE, TRUE)
              /\ \A i \in DOMAIN records' :
                    i > a.call /\ records'[i].rep = a.rep => a.case \notin records'[i].asked
        /\ \A f \in failures :
              /\ Past(f.rep, f.case)'
              /\ Cardinality(Alone(f.rep, f.case)') = 2
    BY <1>1, <1>2, <1>3, FatesStay
  <2>3. ASSUME NEW f \in failures'
        PROVE  /\ Past(f.rep, f.case)' /\ Cardinality(Alone(f.rep, f.case)') = 2
               /\ \A a \in answers' : a.rep = f.rep => a.case # f.case
    <3>1. CASE f \in failures
      BY <1>1, <1>2, <2>2, <3>1 DEF FatesInv
    <3>2. CASE f = lost
      <4>1. f.rep = Rep /\ f.case = from
        BY <3>2
      <4>2. Past(f.rep, f.case)'
        BY <1>3, <1>4, <4>1, Asked = {from}
      <4>3. Cardinality(Alone(f.rep, f.case)) = 1
        BY <1>2, <1>4, <4>1, Asked = {from}, attempt = 1 DEF FatesInv
      <4>4. Cardinality(Alone(f.rep, f.case)') = 2
        BY <1>7, <4>1, <4>3, Asked = {from}
      <4>5. ASSUME NEW a \in answers', a.rep = f.rep, a.case = f.case PROVE FALSE
        <5>1. Past(a.rep, a.case)
          BY <1>1, <1>2, <4>5 DEF FatesInv
        <5> QED BY <1>4, <4>1, <4>5, <5>1
      <4> QED BY <4>2, <4>4, <4>5
    <3> QED BY <1>1, <3>1, <3>2
  <2>4. ASSUME NEW r \in ToSet(Representations), NEW c \in Cases, Past(r, c)'
        PROVE  (\E a \in answers' : a.rep = r /\ a.case = c) \/ [rep |-> r, case |-> c] \in failures'
    <3>1. CASE Past(r, c)
      BY <1>1, <1>2, <3>1 DEF FatesInv
    <3>2. CASE r = Rep /\ c \in Asked
      BY <1>1, <3>2, Asked = {from}
    <3> QED BY <1>3, <2>4, <3>1, <3>2
  <2>5. ASSUME NEW r \in ToSet(Representations), NEW c \in Cases, ~Past(r, c)'
        PROVE  Cardinality(Alone(r, c)') = 0
    <3>1. ~Past(r, c) /\ ~(r = Rep /\ Asked = {c})
      BY <1>3, <2>5
    <3>2. Cardinality(Alone(r, c)) = 0
      BY <1>2, <3>1 DEF FatesInv
    <3> QED BY <1>7, <3>1, <3>2
  <2> QED BY <1>1, <2>1, <2>2, <2>3, <2>4, <2>5 DEF FatesInv
<1> QED
  BY <1>3, <1>5, <1>6, <1>8 DEF BatchesInv

\* A batch that failed twice is split into two parts that are not empty.
LEMMA SplitKeeps ==
  ASSUME BatchesInv, NEW response \in Response, ~Parses(response, Asked), Fail(response),
         attempt = 1, Asked # {from}
  PROVE  BatchesInv'
<1>1. /\ Asking /\ Keep(response) /\ attempt' = 0
      /\ turn' = turn /\ root' = root /\ from' = from /\ ends' = ends \cup {Middle}
      /\ answers' = answers /\ failures' = failures
  BY attempt = 1, Asked # {from} DEF Fail, GiveUp
<1>2. BatchShape /\ CallsInv /\ FatesInv /\ CallsBound
  BY DEF BatchesInv
<1>3. Rep' = Rep /\ \A r, c : Past(r, c)' <=> Past(r, c)
  BY <1>1 DEF Rep, Past
<1>4. /\ turn <= Len(Representations)
      /\ LastOf(Rep, root) \in root .. CaseCount
      /\ Min(ends) \in ends /\ (\A e \in ends : Min(ends) <= e)
      /\ Min(ends) \in from .. LastOf(Rep, root)
      /\ Cardinality(Asked) = Min(ends) - from + 1
      /\ IsFiniteSet(ends) /\ Cardinality(ends) \in Nat
  BY <1>1, <1>2, AskedIs DEF Asking
<1>5. /\ root \in Nat /\ from \in Nat /\ CaseCount \in Nat /\ Min(ends) \in Nat
      /\ LastOf(Rep, root) \in Nat
  BY <1>2, <1>4, BatchAssumption DEF BatchShape, Cases
<1>6. from < Min(ends)
  <2>1. ASSUME Min(ends) = from PROVE FALSE
    <3>1. from .. from = {from}
      BY <1>5
    <3> QED BY <2>1, <3>1, Asked # {from} DEF Asked
  <2> QED BY <1>4, <1>5, <2>1
<1>7. Middle \in from .. LastOf(Rep, root) /\ Middle < Min(ends)
  <2>1. \A n \in Nat : n >= 2 => (n + 1) \div 2 \in 1 .. n - 1
    OBVIOUS
  <2>2. (Min(ends) - from + 1 + 1) \div 2 \in 1 .. Min(ends) - from + 1 - 1
    BY <1>5, <1>6, <2>1
  <2>3. Middle = from + (Min(ends) - from + 1 + 1) \div 2 - 1
    BY <1>4 DEF Middle
  <2> QED BY <1>4, <1>5, <2>2, <2>3
<1>8. Middle \notin ends
  BY <1>2, <1>4, <1>5, <1>7
<1>9. BatchShape'
  BY <1>1, <1>2, <1>3, <1>4, <1>7 DEF BatchShape
<1>10. \A t \in DOMAIN Representations, c \in Cases :
          t < turn \/ (t = turn /\ c <= root) => t < turn' \/ (t = turn' /\ c <= root')
  BY <1>1
<1>11. CallsInv'
  BY <1>1, <1>2, <1>10, CallsStay
<1>12. \A c : Asked # {c}
  BY <1>1, <1>2, AskedIs, Asked # {from}
<1>13. /\ \A r, c : Cardinality(Alone(r, c)') = Cardinality(Alone(r, c)) + 0
       /\ \A r, c : Cardinality(Alone(r, c)) \in Nat
  BY <1>1, <1>2, <1>12, KeptIs DEF CallsInv
<1>14. FatesInv'
  <2>1. /\ answers' \subseteq [rep : ToSet(Representations), case : Cases, call : Nat]
        /\ failures' \subseteq [rep : ToSet(Representations), case : Cases]
    BY <1>1, <1>2 DEF FatesInv
  <2>2. /\ \A a \in answers' :
              /\ Past(a.rep, a.case)'
              /\ a.call \in DOMAIN records'
              /\ records'[a.call].rep = a.rep /\ a.case \in records'[a.call].asked
              /\ records'[a.call].response = Answer(records'[a.call].asked, FALSE, TRUE)
              /\ \A i \in DOMAIN records' :
                    i > a.call /\ records'[i].rep = a.rep => a.case \notin records'[i].asked
        /\ \A f \in failures' :
              /\ Past(f.rep, f.case)'
              /\ Cardinality(Alone(f.rep, f.case)') = 2
    BY <1>1, <1>2, <1>3, FatesStay
  <2>3. \A f \in failures', a \in answers' : a.rep = f.rep => a.case # f.case
    BY <1>1, <1>2 DEF FatesInv
  <2>4. ASSUME NEW r \in ToSet(Representations), NEW c \in Cases, Past(r, c)
        PROVE  (\E a \in answers' : a.rep = r /\ a.case = c) \/ [rep |-> r, case |-> c] \in failures'
    BY <1>1, <1>2, <2>4 DEF FatesInv
  <2>5. ASSUME NEW r \in ToSet(Representations), NEW c \in Cases, ~Past(r, c)
        PROVE  Cardinality(Alone(r, c)') = 0
    <3>1. Cardinality(Alone(r, c)) = 0
      BY <1>2, <1>12, <2>5 DEF FatesInv
    <3> QED BY <1>13, <3>1
  <2> QED BY <1>1, <1>3, <2>1, <2>2, <2>3, <2>4, <2>5 DEF FatesInv
<1>15. CallsBound'
  <2>1. \A r \in ToSet(Representations), c \in Cases :
              Cardinality(CallsFor(r, c)') <= 2 * (2 * Cardinality(Allowed(r, c)) - 1)
    BY <1>1, <1>2, CallFits
  <2>2. Cardinality(CallsFor(Rep, root))' + 4 * (LastOf(Rep', root') - from' + 1) + 2
              <= 4 * (LastOf(Rep', root') - root' + 1) + 2 * Cardinality(ends') + attempt'
    <3>1. PICK r, c : r = Rep /\ c = root
      OBVIOUS
    <3>2. Cardinality(CallsFor(r, c)') = Cardinality(CallsFor(r, c)) + 1 /\ Cardinality(CallsFor(r, c)) \in Nat
      BY <1>1, <1>2, <3>1, KeptIs DEF CallsInv
    <3>3. CallsFor(Rep, root)' = CallsFor(r, c)'
      BY <1>1, <1>3, <3>1 DEF CallsFor
    <3>4. Cardinality(ends') = Cardinality(ends) + 1
      BY <1>1, <1>4, <1>8, FS_AddElement
    <3>5. Cardinality(CallsFor(r, c)) + 4 * (LastOf(Rep, root) - from + 1) + 2
              <= 4 * (LastOf(Rep, root) - root + 1) + 2 * Cardinality(ends) + 1
      BY <1>2, <1>4, <3>1, attempt = 1 DEF CallsBound
    <3>6. Cardinality(CallsFor(r, c)) + 1 + 4 * (LastOf(Rep, root) - from + 1) + 2
              <= 4 * (LastOf(Rep, root) - root + 1) + 2 * (Cardinality(ends) + 1) + 0
      <4>1. \A C, L, F, R, E \in Nat :
              C + 4 * (L - F + 1) + 2 <= 4 * (L - R + 1) + 2 * E + 1
              => C + 1 + 4 * (L - F + 1) + 2 <= 4 * (L - R + 1) + 2 * (E + 1) + 0
        OBVIOUS
      <4> QED BY <1>4, <1>5, <3>2, <3>5, <4>1
    <3> QED BY <1>1, <1>3, <3>2, <3>3, <3>4, <3>6
  <2> QED BY <2>1, <2>2 DEF CallsBound
<1> QED
  BY <1>9, <1>11, <1>14, <1>15 DEF BatchesInv

\* Every call keeps the invariant.
LEMMA BatchesInvStep == BatchesInv /\ [BatchesNext]_batchVars => BatchesInv'
<1> SUFFICES ASSUME BatchesInv, [BatchesNext]_batchVars PROVE BatchesInv'
  OBVIOUS
<1>1. ASSUME NEW response \in Response, ~Parses(response, Asked), Fail(response)
      PROVE  BatchesInv'
  <2>1. attempt \in {0, 1}
    BY DEF BatchesInv, BatchShape
  <2> QED BY <1>1, <2>1, FirstFailureKeeps, GivingUpKeeps, SplitKeeps
<1>2. CASE Accept
  BY <1>2, AcceptKeeps
<1>3. CASE Reject
  <2>1. PICK r \in Unfit : Asking /\ Fail(r)
    BY <1>3 DEF Reject
  <2>2. r \in Response /\ ~Parses(r, Asked)
    BY <2>1, UnfitFails DEF BatchesInv
  <2> QED BY <1>1, <2>1, <2>2
<1>4. CASE Lose
  <2>1. Asking /\ Fail(NoResponse)
    BY <1>4 DEF Lose, Fail
  <2>2. NoResponse \in Response /\ ~Parses(NoResponse, Asked)
    BY <2>1, UnfitFails DEF BatchesInv
  <2> QED BY <1>1, <2>1, <2>2
<1>5. CASE Stop \/ UNCHANGED batchVars
  <2>1. UNCHANGED << turn, root, from, ends, attempt, records, answers, failures >>
    BY <1>5 DEF Stop, batchVars
  <2>2. Rep' = Rep /\ Asked' = Asked /\ \A r, c : /\ Past(r, c)' <=> Past(r, c)
                                                 /\ Alone(r, c)' = Alone(r, c)
                                                 /\ CallsFor(r, c)' = CallsFor(r, c)
    BY <2>1 DEF Rep, Asked, Past, Alone, CallsFor
  <2>3. CallsFor(Rep, root)' = CallsFor(Rep, root)
    BY <2>1, <2>2 DEF CallsFor
  <2>4. BatchShape' /\ CallsInv'
    BY <2>1, <2>2 DEF BatchesInv, BatchShape, CallsInv
  <2>5. FatesInv'
    BY <2>1, <2>2 DEF BatchesInv, FatesInv
  <2>6. CallsBound'
    BY <2>1, <2>2, <2>3 DEF BatchesInv, CallsBound
  <2> QED BY <2>4, <2>5, <2>6 DEF BatchesInv
<1> QED
  BY <1>2, <1>3, <1>4, <1>5 DEF BatchesNext

\* The batches keep to their invariant whatever the model answers.
THEOREM BatchesInvariant == BatchesSpec => []BatchesInv
<1>1. BatchesInit => BatchesInv
  BY BatchesInvInit
<1>2. BatchesInv /\ [BatchesNext]_batchVars => BatchesInv'
  BY BatchesInvStep
<1> QED
  BY <1>1, <1>2, PTL DEF BatchesSpec

\* Two predictions for one key are one.
LEMMA PredictionsAgree ==
  ASSUME BatchesInv, NEW p \in Predictions, NEW q \in Predictions, p.key = q.key
  PROVE  p = q
<1> USE DEF BatchesInv, FatesInv
<1>1. \/ \E a \in answers : p = [key |-> << a.rep, a.case >>, score |-> a.call]
      \/ \E f \in failures : p = [key |-> << f.rep, f.case >>, score |-> Abstained]
  BY DEF Predictions
<1>2. \/ \E a \in answers : q = [key |-> << a.rep, a.case >>, score |-> a.call]
      \/ \E f \in failures : q = [key |-> << f.rep, f.case >>, score |-> Abstained]
  BY DEF Predictions
<1>3. ASSUME NEW a \in answers, NEW b \in answers, a.rep = b.rep, a.case = b.case
      PROVE  a.call = b.call
  <2>1. a.call \in Nat /\ b.call \in Nat
    BY <1>3
  <2>2. ~(a.call < b.call) /\ ~(b.call < a.call)
    BY <1>3, <2>1
  <2> QED BY <2>1, <2>2
<1>4. ASSUME NEW a \in answers, NEW f \in failures PROVE ~(a.rep = f.rep /\ a.case = f.case)
  OBVIOUS
<1>5. CASE \E a \in answers : p = [key |-> << a.rep, a.case >>, score |-> a.call]
  BY <1>2, <1>3, <1>4, <1>5
<1>6. CASE \E f \in failures : p = [key |-> << f.rep, f.case >>, score |-> Abstained]
  BY <1>2, <1>4, <1>6
<1> QED
  BY <1>1, <1>5, <1>6

\* Once every batch was asked, there is a prediction for every key and for no
\* other.
LEMMA PredictionsCover ==
  ASSUME BatchesInv, Finished
  PROVE  {p.key : p \in Predictions} = Keys
<1>1. turn \in Nat /\ Len(Representations) \in Nat /\ turn > Len(Representations)
  BY Places DEF BatchesInv, BatchShape, Finished
<1>2. ASSUME NEW r \in ToSet(Representations), NEW c \in Cases
      PROVE  \E p \in Predictions : p.key = << r, c >>
  <2>1. PICK t \in DOMAIN Representations : Representations[t] = r
    BY Places
  <2>2. t < turn
    BY <1>1, Places
  <2>3. Past(r, c)
    BY <2>1, <2>2 DEF Past
  <2>4. CASE \E a \in answers : a.rep = r /\ a.case = c
    <3>1. PICK a \in answers : a.rep = r /\ a.case = c
      BY <2>4
    <3>2. [key |-> << a.rep, a.case >>, score |-> a.call] \in Predictions
      BY DEF Predictions
    <3> QED BY <3>1, <3>2
  <2>5. CASE [rep |-> r, case |-> c] \in failures
    <3>1. PICK f \in failures : f.rep = r /\ f.case = c
      BY <2>5
    <3>2. [key |-> << f.rep, f.case >>, score |-> Abstained] \in Predictions
      BY DEF Predictions
    <3> QED BY <3>1, <3>2
  <2> QED BY <2>3, <2>4, <2>5 DEF BatchesInv, FatesInv
<1>3. ASSUME NEW p \in Predictions PROVE p.key \in Keys
  BY DEF Predictions, Keys, BatchesInv, FatesInv
<1>4. Keys \subseteq {p.key : p \in Predictions}
  BY <1>2 DEF Keys
<1> QED
  BY <1>3, <1>4

\* What the replay recovers: one row for each case in each text it reads.
LEMMA RecoveredIs ==
  ASSUME NEW p
  PROVE  p \in Recovered <=>
            \E i \in Readable :
               /\ records[i].response.json
               /\ \E c \in records[i].response.cases :
                     p = [key |-> << records[i].rep, c >>, score |-> i]
BY DEF Recovered

\* With nothing but accepted answers to read, the replay recovers them all.
LEMMA AnswersRecovered ==
  ASSUME BatchesInv, NEW a \in answers
  PROVE  /\ a.call \in Readable
         /\ [key |-> << a.rep, a.case >>, score |-> a.call] \in Recovered
<1>1. /\ a.call \in DOMAIN records
      /\ records[a.call].rep = a.rep /\ a.case \in records[a.call].asked
      /\ records[a.call].response = Answer(records[a.call].asked, FALSE, TRUE)
  BY DEF BatchesInv, FatesInv
<1>2. /\ records[a.call].response.json /\ records[a.call].response.cases = records[a.call].asked
      /\ "lost" \notin DOMAIN records[a.call].response
  BY <1>1 DEF Answer
<1>3. a.call \in Readable
  BY <1>1, <1>2 DEF Readable
<1>4. << a.rep, a.case >> = << records[a.call].rep, a.case >>
  BY <1>1
<1>5. [key |-> << records[a.call].rep, a.case >>, score |-> a.call] \in Recovered
  BY <1>1, <1>2, <1>3, RecoveredIs
<1> QED
  BY <1>1, <1>3, <1>5

\* Every response that was rejected and kept stops the replay: it is
\* unreadable, or about a case that has its prediction from elsewhere.
LEMMA ReplayIsSafe ==
  ASSUME BatchesInv, Finished
  PROVE  ReplayNeverLies
<1> DEFINE all == Recovered \cup Given
           Bad(i) == ~Parses(records[i].response, records[i].asked)
<1>1. \A a \in answers :
          [key |-> << a.rep, a.case >>, score |-> a.call] \in Recovered
  BY AnswersRecovered
<1>2. Predictions \subseteq all
  BY <1>1 DEF Predictions, Given
<1>3. ASSUME NEW i \in Readable
      PROVE  /\ i \in DOMAIN records /\ i \in Nat /\ i > 0
             /\ records[i] \in BatchRecord
             /\ records[i].response \in Response /\ records[i].response # NoResponse
             /\ Allowed(records[i].rep, records[i].root) \subseteq Cases
  <2>1. i \in DOMAIN records /\ "lost" \notin DOMAIN records[i].response
    BY DEF Readable
  <2>2. records \in Seq(BatchRecord)
    BY DEF BatchesInv, CallsInv
  <2>3. records[i] \in BatchRecord /\ i \in Nat /\ i > 0
    BY <2>1, <2>2
  <2>4. records[i].response # NoResponse
    BY <2>1 DEF NoResponse
  <2>5. Allowed(records[i].rep, records[i].root) \subseteq Cases
    BY <2>3, AllowedIs DEF BatchRecord
  <2> QED BY <2>1, <2>3, <2>4, <2>5 DEF BatchRecord
<1>4. CASE \E i \in Readable : Bad(i)
  <2>1. PICK i \in Readable : Bad(i)
    BY <1>4
  <2>2. ASSUME Acceptable(records[i])
        PROVE  \E p, q \in all : p.key = q.key /\ p # q
    <3>1. /\ records[i].response.json /\ records[i].response.cases # {}
          /\ records[i].response.cases \subseteq Allowed(records[i].rep, records[i].root)
      BY <2>2 DEF Acceptable
    <3>2. PICK c \in records[i].response.cases : c \in Cases
      BY <1>3, <3>1
    <3>3. records[i].rep \in ToSet(Representations)
      BY <1>3 DEF BatchRecord
    <3>4. PICK p \in Predictions : p.key = << records[i].rep, c >>
      <4>1. << records[i].rep, c >> \in Keys
        BY <3>2, <3>3 DEF Keys
      <4> QED BY <4>1, PredictionsCover
    <3> DEFINE q == [key |-> << records[i].rep, c >>, score |-> i]
    <3>5. q \in all
      BY <3>1, <3>2, RecoveredIs
    <3>6. p.score # i
      <4>1. CASE \E f \in failures : p = [key |-> << f.rep, f.case >>, score |-> Abstained]
        BY <1>3, <4>1 DEF Abstained
      <4>2. ASSUME NEW a \in answers, p = [key |-> << a.rep, a.case >>, score |-> a.call], a.call = i
            PROVE  FALSE
        <5>1. records[i].response = Answer(records[i].asked, FALSE, TRUE)
          BY <4>2 DEF BatchesInv, FatesInv
        <5> QED BY <2>1, <5>1 DEF Answer, Parses
      <4> QED BY <4>1, <4>2 DEF Predictions
    <3> QED BY <1>2, <3>4, <3>5, <3>6
  <2>3. Replay = Raised
    BY <2>2 DEF Replay
  <2> QED BY <2>1, <2>3 DEF ReplayNeverLies
<1>5. CASE \A i \in Readable : ~Bad(i)
  <2>1. ASSUME NEW i \in Readable
        PROVE  /\ records[i].response = Answer(records[i].asked, FALSE, TRUE)
               /\ \A c \in records[i].asked : [rep |-> records[i].rep, case |-> c, call |-> i] \in answers
               /\ records[i].asked # {}
               /\ records[i].asked \subseteq Allowed(records[i].rep, records[i].root)
    BY <1>3, <1>5 DEF BatchesInv, CallsInv, BatchRecord
  <2>2. ASSUME NEW i \in Readable PROVE Acceptable(records[i])
    <3>1. /\ records[i].response.json /\ ~records[i].response.twice
          /\ records[i].response.valid /\ records[i].response.cases = records[i].asked
      <4>1. records[i].response = Answer(records[i].asked, FALSE, TRUE)
        BY <2>1
      <4> QED BY ONLY <4>1 DEF Answer
    <3> QED BY <2>1, <3>1 DEF Acceptable, Parses
  <2>3. ASSUME NEW p \in Recovered PROVE p \in Predictions
    <3>1. PICK i \in Readable : /\ records[i].response.json
                                /\ \E c \in records[i].response.cases :
                                      p = [key |-> << records[i].rep, c >>, score |-> i]
      BY RecoveredIs
    <3>2. PICK c \in records[i].asked : p = [key |-> << records[i].rep, c >>, score |-> i]
      <4>1. records[i].response = Answer(records[i].asked, FALSE, TRUE)
        BY <2>1
      <4>2. records[i].response.cases = records[i].asked
        BY ONLY <4>1 DEF Answer
      <4> QED BY <3>1, <4>2
    <3>3. [rep |-> records[i].rep, case |-> c, call |-> i] \in answers
      BY <2>1, <3>2
    <3>4. PICK a \in answers : a.rep = records[i].rep /\ a.case = c /\ a.call = i
      BY <3>3
    <3>5. [key |-> << a.rep, a.case >>, score |-> a.call] \in Predictions
      BY DEF Predictions
    <3> QED BY <3>2, <3>4, <3>5
  <2>4. all = Predictions
    BY <1>2, <2>3 DEF Predictions, Given
  <2>5. ~ \E p, q \in all : p.key = q.key /\ p # q
    BY <2>4, PredictionsAgree
  <2>6. {p.key : p \in all} = Keys
    BY <2>4, PredictionsCover
  <2>7. Replay = Predictions
    BY <2>2, <2>4, <2>5, <2>6 DEF Replay
  <2> QED BY <2>7 DEF ReplayNeverLies
<1> QED
  BY <1>4, <1>5

\* A score is the last call about its case, an abstention stands for two.
LEMMA ScoresAreLast ==
  ASSUME BatchesInv, NEW p \in Predictions
  PROVE  LET about == {i \in DOMAIN records : records[i].rep = p.key[1] /\ p.key[2] \in records[i].asked}
         IN  IF p.score = Abstained
             THEN Cardinality({i \in about : records[i].asked = {p.key[2]}}) = 2
             ELSE p.score = Max(about)
<1> DEFINE about == {i \in DOMAIN records : records[i].rep = p.key[1] /\ p.key[2] \in records[i].asked}
<1>1. DOMAIN records = 1 .. Len(records)
  BY DEF BatchesInv, CallsInv
<1>2. ASSUME NEW a \in answers, p = [key |-> << a.rep, a.case >>, score |-> a.call]
      PROVE  p.score # Abstained /\ p.score = Max(about)
  <2>1. /\ a.call \in DOMAIN records
        /\ records[a.call].rep = a.rep /\ a.case \in records[a.call].asked
        /\ \A i \in DOMAIN records : i > a.call /\ records[i].rep = a.rep => a.case \notin records[i].asked
    BY DEF BatchesInv, FatesInv
  <2>2. p.key[1] = a.rep /\ p.key[2] = a.case /\ p.score = a.call
    BY <1>2
  <2>3. a.call \in about /\ \A i \in about : ~(i > a.call)
    BY <2>1, <2>2
  <2>4. about \subseteq Nat /\ a.call \in Nat /\ a.call > 0
    BY <1>1, <2>1
  <2> HIDE DEF about
  <2>5. about # {} /\ \A i \in about : i <= a.call
    BY <2>3, <2>4
  <2>6. Max(about) \in about /\ \A i \in about : Max(about) >= i
    BY <2>4, <2>5, GreatestOf
  <2>7. Max(about) <= a.call /\ Max(about) >= a.call /\ Max(about) \in Nat
    BY <2>3, <2>4, <2>5, <2>6
  <2> QED BY <2>2, <2>4, <2>7 DEF Abstained
<1>3. ASSUME NEW f \in failures, p = [key |-> << f.rep, f.case >>, score |-> Abstained]
      PROVE  Cardinality({i \in about : records[i].asked = {p.key[2]}}) = 2
  <2>1. p.key[1] = f.rep /\ p.key[2] = f.case
    BY <1>3
  <2>2. {i \in about : records[i].asked = {p.key[2]}} = Alone(f.rep, f.case)
    BY <2>1 DEF Alone
  <2> QED BY <2>2 DEF BatchesInv, FatesInv
<1>4. \/ \E a \in answers : p = [key |-> << a.rep, a.case >>, score |-> a.call]
      \/ \E f \in failures : p = [key |-> << f.rep, f.case >>, score |-> Abstained]
  BY DEF Predictions
<1> QED
  BY <1>2, <1>3, <1>4

\* There are finitely many predictions to make.
LEMMA KeysAreFinite == IsFiniteSet(Keys)
<1>1. Len(Representations) \in Nat /\ CaseCount \in Nat
  BY Places, BatchAssumption
<1>2. IsFiniteSet(1 .. Len(Representations)) /\ IsFiniteSet(Cases)
  BY <1>1, FS_Interval DEF Cases
<1>3. Representations \in Surjection(1 .. Len(Representations), ToSet(Representations))
  <2>1. Representations \in [1 .. Len(Representations) -> ToSet(Representations)]
    BY Places, BatchAssumption
  <2> QED BY <2>1, Places DEF Surjection
<1>4. IsFiniteSet(ToSet(Representations))
  BY <1>2, <1>3, FS_Surjection
<1> QED
  BY <1>2, <1>4, FS_Product DEF Keys

\* However the calls fail, a run that finishes has exactly one prediction for
\* each case and representation, given by the last call about it or after two
\* that failed; no batch takes more calls than bisection allows; and the replay
\* of what was kept never lies.
THEOREM EveryCaseIsAnsweredOnce == BatchesSpec => []EveryCaseAnsweredOnce
<1>1. BatchesInv => EveryCaseAnsweredOnce
  <2> SUFFICES ASSUME BatchesInv PROVE EveryCaseAnsweredOnce
    OBVIOUS
  <2>1. ReplayNeverLies
    BY ReplayIsSafe DEF ReplayNeverLies
  <2>2. ASSUME Finished
        PROVE  /\ {p.key : p \in Predictions} = Keys
               /\ Cardinality(Predictions) = Cardinality(Keys)
               /\ {h.case : h \in HybridPredictions} = Cases
    <3>1. {p.key : p \in Predictions} = Keys
      BY <2>2, PredictionsCover
    <3>2. Cardinality(Predictions) = Cardinality(Keys)
      <4> DEFINE f == [p \in Predictions |-> p.key]
      <4>1. f \in [Predictions -> Keys]
        BY <3>1
      <4>2. \A p, q \in Predictions : f[p] = f[q] => p = q
        BY PredictionsAgree
      <4>3. \A k \in Keys : \E p \in Predictions : f[p] = k
        BY <3>1
      <4> HIDE DEF f
      <4>4. f \in Injection(Predictions, Keys) /\ f \in Surjection(Predictions, Keys)
        BY <4>1, <4>2, <4>3 DEF Injection, Surjection, IsInjective
      <4> QED BY <4>4, KeysAreFinite, FS_Injection
    <3>3. {h.case : h \in HybridPredictions} = Cases
      <4>1. ASSUME NEW c \in Cases PROVE \E h \in HybridPredictions : h.case = c
        <5>1. << "A2", c >> \in Keys
          BY BatchAssumption DEF Keys
        <5>2. PICK p \in Predictions : p.key = << "A2", c >>
          BY <3>1, <5>1
        <5>3. [case |-> p.key[2], score |-> p.score] \in HybridPredictions
          BY <5>2 DEF HybridPredictions
        <5> QED BY <5>2, <5>3
      <4>2. ASSUME NEW h \in HybridPredictions PROVE h.case \in Cases
        <5>1. PICK p \in Predictions : h = [case |-> p.key[2], score |-> p.score]
          BY DEF HybridPredictions
        <5>2. p.key \in Keys
          BY <3>1
        <5> QED BY <5>1, <5>2 DEF Keys
      <4> QED BY <4>1, <4>2
    <3> QED BY <3>1, <3>2, <3>3
  <2>3. \A p \in Predictions :
          LET about == {i \in DOMAIN records : records[i].rep = p.key[1] /\ p.key[2] \in records[i].asked}
          IN  IF p.score = Abstained
              THEN Cardinality({i \in about : records[i].asked = {p.key[2]}}) = 2
              ELSE p.score = Max(about)
    BY ScoresAreLast
  <2>4. \A r \in ToSet(Representations), c \in Cases :
          Cardinality({i \in DOMAIN records : records[i].rep = r /\ records[i].root = c})
              <= 2 * (2 * Cardinality(Allowed(r, c)) - 1)
    BY DEF BatchesInv, CallsBound, CallsFor
  <2> QED BY <2>1, <2>2, <2>3, <2>4 DEF EveryCaseAnsweredOnce
<1> QED
  BY BatchesInvariant, <1>1, PTL

-----------------------------------------------------------------------------
(* The cohort                                                               *)

\* The candidates whose filings have enough facts.
UsableRows == {earliest[c] : c \in {d \in DOMAIN earliest : Usable(earliest[d])}}

\* Each company's candidate is the earliest of its eligible filings so far.
ScanInv ==
    /\ scanned \subseteq Accessions
    /\ \A c \in DOMAIN earliest :
          /\ earliest[c] \in scanned /\ Company(earliest[c]) = c /\ Eligible(earliest[c])
          /\ \A b \in scanned \ {earliest[c]} :
                Company(b) = c /\ Eligible(b) => Earlier(earliest[c], b)
    /\ \A b \in scanned : Eligible(b) => Company(b) \in DOMAIN earliest

\* What was drawn from them.
DrawInv ==
    /\ phase \in {"scan", "features", "done"}
    /\ DOMAIN cohort = {"plan", "agent", "stability"}
    /\ phase # "scan" => cohort.plan = StratifiedSample(UsableRows)
    /\ phase = "features" => cohort.agent = {} /\ cohort.stability = {}
    /\ phase = "done" =>
          /\ cohort.agent = Foremost(cohort.plan, Ranks.agent, AgentLimit)
          /\ cohort.stability = Foremost(cohort.agent, Ranks.stability, StabilityLimit)

\* The inductive invariant of the selection.
CohortInv ==
    /\ ScanInv /\ DrawInv
    /\ phase = "scan" => cohort = [plan |-> {}, agent |-> {}, stability |-> {}]

\* Of the filings of any companies, no two the same.
OneEachOf(rows) == rows \subseteq Accessions /\ \A a, b \in rows : Company(a) = Company(b) => a = b

\* What the quotient and the remainder of a division are.
LEMMA Division ==
  ASSUME NEW a \in Nat, NEW n \in Nat, n > 0
  PROVE  a \div n \in Nat /\ a % n \in 0 .. n - 1 /\ a = n * (a \div n) + (a % n)
OBVIOUS

\* Products are compared as their factors are.
LEMMA Cancelled ==
  ASSUME NEW n \in Nat, n > 0, NEW a \in Nat, NEW b \in Nat, n * a <= n * b
  PROVE  a <= b
OBVIOUS

LEMMA Multiplied ==
  ASSUME NEW n \in Nat, NEW a \in Nat, NEW b \in Nat, a <= b
  PROVE  n * a <= n * b
OBVIOUS

\* The smaller of two numbers.
LEMMA SmallerIs ==
  ASSUME NEW m \in Nat, NEW n \in Nat
  PROVE  Smaller(m, n) \in Nat /\ \A x \in Nat : x < Smaller(m, n) <=> x < m /\ x < n
BY DEF Smaller

\* The n first in a strict order.
FirstOf(S, R, n) == {a \in S : Cardinality({b \in S : << b, a >> \in R}) < n}

\* In a finite set that is strictly ordered, each element has as many before it
\* as its rank says, and n elements, or all, have fewer than n before them.
LEMMA FirstOnes ==
  ASSUME NEW S, IsFiniteSet(S), NEW R, NEW n \in Nat,
         \A a \in S : << a, a >> \notin R,
         \A a, b \in S : a # b => << a, b >> \in R \/ << b, a >> \in R,
         \A a, b, c \in S : << a, b >> \in R /\ << b, c >> \in R => << a, c >> \in R
  PROVE  Cardinality(FirstOf(S, R, n)) = Smaller(n, Cardinality(S))
<1> DEFINE Ahead0(a) == {b \in S : << b, a >> \in R}
           N == Cardinality(S)
           rank == [a \in S |-> Cardinality(Ahead0(a))]
           first == {a \in S : Cardinality(Ahead0(a)) < n}
           m == Smaller(n, N)
<1>1. N \in Nat
  BY FS_CardinalityType
<1>2. ASSUME NEW a \in S PROVE IsFiniteSet(Ahead0(a)) /\ Cardinality(Ahead0(a)) \in 0 .. N - 1
  <2>1. Ahead0(a) \subseteq S /\ a \notin Ahead0(a)
    OBVIOUS
  <2> HIDE DEF Ahead0
  <2>2. IsFiniteSet(Ahead0(a)) /\ Cardinality(Ahead0(a)) <= N /\ Cardinality(Ahead0(a)) # N
    BY <2>1, FS_Subset
  <2>3. Cardinality(Ahead0(a)) \in Nat
    BY <2>2, FS_CardinalityType
  <2> QED BY <1>1, <2>2, <2>3
<1>3. ASSUME NEW a \in S, NEW b \in S, << a, b >> \in R
      PROVE  Cardinality(Ahead0(a)) < Cardinality(Ahead0(b))
  <2>1. Ahead0(a) \subseteq Ahead0(b) /\ a \in Ahead0(b) /\ a \notin Ahead0(a)
    BY <1>3
  <2> HIDE DEF Ahead0
  <2>2. /\ Cardinality(Ahead0(a)) <= Cardinality(Ahead0(b))
        /\ Cardinality(Ahead0(a)) # Cardinality(Ahead0(b))
    BY <1>2, <2>1, FS_Subset
  <2>3. Cardinality(Ahead0(a)) \in Nat /\ Cardinality(Ahead0(b)) \in Nat
    BY <1>2, <1>1
  <2> QED BY <2>2, <2>3
<1>4. rank \in Injection(S, 0 .. N - 1)
  <2>1. rank \in [S -> 0 .. N - 1]
    BY <1>2
  <2>2. ASSUME NEW a \in S, NEW b \in S, rank[a] = rank[b] PROVE a = b
    <3>1. Cardinality(Ahead0(a)) = Cardinality(Ahead0(b)) /\ Cardinality(Ahead0(a)) \in Int
      BY <1>1, <1>2, <2>2
    <3>2. ~(<< a, b >> \in R) /\ ~(<< b, a >> \in R)
      BY <1>3, <3>1
    <3> QED BY <3>2
  <2> HIDE DEF rank
  <2> QED BY <2>1, <2>2 DEF Injection, IsInjective
<1> HIDE DEF Ahead0
<1>5. IsFiniteSet(0 .. N - 1) /\ Cardinality(0 .. N - 1) = N
  <2>1. N - 1 \in Int /\ 0 \in Int
    BY <1>1
  <2>2. /\ IsFiniteSet(0 .. N - 1)
        /\ Cardinality(0 .. N - 1) = IF 0 > N - 1 THEN 0 ELSE N - 1 - 0 + 1
    BY ONLY <2>1, FS_Interval
  <2> QED BY <1>1, <2>2
<1>6. rank \in Surjection(S, 0 .. N - 1)
  BY <1>4, <1>5, FS_Injection
<1>7. m \in Nat /\ \A x \in Nat : x < m <=> x < n /\ x < N
  BY <1>1, SmallerIs
<1> DEFINE g == [a \in first |-> rank[a]]
<1>8. first \subseteq S /\ \A a \in S : a \in first <=> rank[a] < n
  OBVIOUS
<1>9. \A a \in S : rank[a] \in 0 .. N - 1
  BY <1>4 DEF Injection
<1>10. \A a, b \in S : rank[a] = rank[b] => a = b
  BY <1>4 DEF Injection, IsInjective
<1>11. \A x \in 0 .. N - 1 : \E a \in S : rank[a] = x
  BY <1>6 DEF Surjection
<1> HIDE DEF rank, first, m
<1>12. g \in [first -> 0 .. m - 1]
  <2>1. ASSUME NEW a \in first PROVE rank[a] \in 0 .. m - 1
    <3>1. rank[a] \in 0 .. N - 1 /\ rank[a] < n
      BY <1>8, <1>9
    <3>2. rank[a] \in Nat /\ rank[a] < N
      BY <1>1, <3>1
    <3> QED BY <1>7, <3>1, <3>2
  <2> QED BY <2>1
<1>13. \A x \in 0 .. m - 1 : \E a \in first : g[a] = x
  <2>1. ASSUME NEW x \in 0 .. m - 1 PROVE \E a \in first : g[a] = x
    <3>1. x \in Nat /\ x < n /\ x < N
      BY <1>7
    <3>2. x \in 0 .. N - 1
      BY <1>1, <3>1
    <3>3. PICK a \in S : rank[a] = x
      BY <1>11, <3>2
    <3> QED BY <1>8, <3>1, <3>3
  <2> QED BY <2>1
<1>14. \A a, b \in first : g[a] = g[b] => a = b
  BY <1>8, <1>10
<1> HIDE DEF g
<1>15. g \in Injection(first, 0 .. m - 1) /\ g \in Surjection(first, 0 .. m - 1)
  BY <1>12, <1>13, <1>14 DEF Injection, Surjection, IsInjective
<1>16. IsFiniteSet(0 .. m - 1) /\ Cardinality(0 .. m - 1) = m
  BY <1>7, FS_Interval
<1>17. Cardinality(first) = m
  BY <1>15, <1>16, FS_Injection
<1> QED
  BY <1>17 DEF first, m, Ahead0, FirstOf

\* The filings are finitely many, and so are their sectors.
LEMMA CohortFacts ==
  /\ IsFiniteSet(Accessions) /\ Accessions \subseteq Nat
  /\ \A a \in Accessions : Filings[a].filed \in Nat /\ Sector(a) \in Nat
  /\ \A a, b \in Accessions, o \in {"cohort", "agent", "stability"} :
        /\ Ranks[o][Company(a)] \in Nat
        /\ Company(a) # Company(b) => Ranks[o][Company(a)] # Ranks[o][Company(b)]
  /\ Limit \in Nat /\ AgentLimit \in Nat /\ StabilityLimit \in Nat
<1> DEFINE companies == {Filings[a].company : a \in DOMAIN Filings}
<1>1. \A a \in Accessions : Company(a) \in companies
  BY DEF Accessions, Company
<1>2. \A o \in {"cohort", "agent", "stability"} :
          \A c \in companies : Ranks[o][c] \in Nat /\ \A d \in companies \ {c} : Ranks[o][c] # Ranks[o][d]
  BY CohortAssumption
<1> HIDE DEF companies
<1>3. \A a, b \in Accessions, o \in {"cohort", "agent", "stability"} :
        /\ Ranks[o][Company(a)] \in Nat
        /\ Company(a) # Company(b) => Ranks[o][Company(a)] # Ranks[o][Company(b)]
  BY <1>1, <1>2
<1> QED
  BY <1>3, CohortAssumption DEF Accessions, Sector

\* The foremost of one filing each are as many as asked for, or all.
LEMMA ForemostAre ==
  ASSUME NEW rows, OneEachOf(rows), NEW n \in Nat, NEW o \in {"cohort", "agent", "stability"}
  PROVE  /\ Foremost(rows, Ranks[o], n) \subseteq rows
         /\ IsFiniteSet(rows) /\ Cardinality(rows) \in Nat
         /\ Cardinality(Foremost(rows, Ranks[o], n)) = Smaller(n, Cardinality(rows))
<1> DEFINE R == {p \in rows \X rows : Ranks[o][Company(p[1])] < Ranks[o][Company(p[2])]}
<1>1. IsFiniteSet(rows) /\ Cardinality(rows) \in Nat
  BY CohortFacts, FS_Subset, FS_CardinalityType DEF OneEachOf
<1>2. \A a, b \in rows : << a, b >> \in R <=> Ranks[o][Company(a)] < Ranks[o][Company(b)]
  OBVIOUS
<1>3. \A a \in rows : Ranks[o][Company(a)] \in Nat
  BY CohortFacts DEF OneEachOf
<1>4. \A a, b \in rows : a # b => Ranks[o][Company(a)] # Ranks[o][Company(b)]
  BY CohortFacts DEF OneEachOf
<1> HIDE DEF R
<1>5. /\ \A a \in rows : << a, a >> \notin R
      /\ \A a, b \in rows : a # b => << a, b >> \in R \/ << b, a >> \in R
      /\ \A a, b, c \in rows : << a, b >> \in R /\ << b, c >> \in R => << a, c >> \in R
  BY <1>2, <1>3, <1>4
<1>6. Cardinality(FirstOf(rows, R, n)) = Smaller(n, Cardinality(rows))
  BY <1>1, <1>5, FirstOnes
<1>7. ASSUME NEW a \in rows
      PROVE  {b \in rows : << b, a >> \in R} =
                 {b \in rows : Ranks[o][Company(b)] < Ranks[o][Company(a)]}
  BY <1>2
<1>8. Foremost(rows, Ranks[o], n) = FirstOf(rows, R, n)
  BY <1>7 DEF Foremost, FirstOf
<1> QED
  BY <1>1, <1>6, <1>8 DEF FirstOf

\* What the sampling adds up to, sector by sector: the seats of the floors, the
\* filings, those drawn, and the sectors with one seat more.
SeatsOf(rows, T) == UNION {{s} \X (1 .. Floor(rows, s)) : s \in T}
RowsOf(rows, T) == {a \in rows : Sector(a) \in T}
DrawnOf(rows, T) == UNION {Foremost(InSector(rows, s), Ranks.cohort, Quota(rows, s)) : s \in T}
Ahead1(rows, s) == {t \in Sectors(rows) \ {s} : Before(rows, t, s)}
FavouredOf(rows, T) ==
    {s \in T : Cardinality(Ahead1(rows, s)) < Limit - Cardinality(Seats(rows))}

\* Floors are within one of the shares, and every seat is filled.
Adds(rows, T) ==
    /\ IsFiniteSet(T) /\ IsFiniteSet(SeatsOf(rows, T)) /\ IsFiniteSet(RowsOf(rows, T))
    /\ IsFiniteSet(DrawnOf(rows, T)) /\ IsFiniteSet(FavouredOf(rows, T))
    /\ Cardinality(rows) * Cardinality(SeatsOf(rows, T)) <= Limit * Cardinality(RowsOf(rows, T))
    /\ Limit * Cardinality(RowsOf(rows, T))
          <= Cardinality(rows) * (Cardinality(SeatsOf(rows, T)) + Cardinality(T))
    /\ Cardinality(DrawnOf(rows, T)) = Cardinality(SeatsOf(rows, T)) + Cardinality(FavouredOf(rows, T))

\* A sector's floor, its quota, and who is drawn from it.
LEMMA SectorShare ==
  ASSUME NEW rows, OneEachOf(rows), Limit < Cardinality(rows), NEW s \in Sectors(rows)
  PROVE  /\ IsFiniteSet(InSector(rows, s)) /\ Cardinality(InSector(rows, s)) \in Nat
         /\ Floor(rows, s) \in Nat /\ Fraction(rows, s) \in Nat
         /\ Cardinality(rows) * Floor(rows, s) <= Limit * Cardinality(InSector(rows, s))
         /\ Limit * Cardinality(InSector(rows, s)) <= Cardinality(rows) * (Floor(rows, s) + 1)
         /\ Quota(rows, s) = Floor(rows, s) + IF s \in FavouredOf(rows, {s}) THEN 1 ELSE 0
         /\ Foremost(InSector(rows, s), Ranks.cohort, Quota(rows, s)) \subseteq InSector(rows, s)
         /\ Cardinality(Foremost(InSector(rows, s), Ranks.cohort, Quota(rows, s))) = Quota(rows, s)
<1> DEFINE N == Cardinality(rows)
           n == Cardinality(InSector(rows, s))
           F == Floor(rows, s)
<1>1. IsFiniteSet(rows) /\ N \in Nat /\ Limit \in Nat /\ N > 0
  <2>1. IsFiniteSet(rows) /\ N \in Nat /\ Limit \in Nat
    BY CohortFacts, FS_Subset, FS_CardinalityType DEF OneEachOf
  <2> QED BY <2>1
<1>2. OneEachOf(InSector(rows, s)) /\ InSector(rows, s) \subseteq rows
  BY DEF OneEachOf, InSector
<1>3. IsFiniteSet(InSector(rows, s)) /\ n \in Nat
  BY <1>1, <1>2, FS_Subset, FS_CardinalityType
<1>4. n > 0
  <2>1. InSector(rows, s) # {}
    BY DEF Sectors, InSector
  <2> HIDE DEF n
  <2>2. n # 0
    BY <1>3, <2>1, FS_EmptySet DEF n
  <2> QED BY <1>3, <2>2
<1>5. Limit * n \in Nat
  BY <1>1, <1>3
<1>6. F \in Nat /\ Fraction(rows, s) \in 0 .. N - 1 /\ Limit * n = N * F + Fraction(rows, s)
  BY <1>1, <1>5, Division DEF Floor, Fraction
<1> HIDE DEF N, n, F
<1>7. Fraction(rows, s) \in Nat /\ Fraction(rows, s) <= N
  BY <1>1, <1>6
<1>8. N * F \in Nat /\ N * (F + 1) = N * F + N
  BY <1>1, <1>6
<1>9. N * F <= Limit * n /\ Limit * n <= N * (F + 1)
  BY <1>1, <1>6, <1>7, <1>8
<1>10. F + 1 <= n
  <2>1. SUFFICES ASSUME n <= F PROVE FALSE
    BY <1>3, <1>6
  <2>2. N * n <= N * F
    BY <1>1, <1>3, <1>6, <2>1, Multiplied
  <2>3. N * n <= Limit * n
    BY <1>1, <1>3, <1>5, <1>8, <1>9, <2>2
  <2>4. n * N <= n * Limit
    BY <1>1, <1>3, <2>3
  <2>5. N <= Limit
    BY <1>1, <1>3, <1>4, <2>4, Cancelled
  <2> QED BY <1>1, <2>5 DEF N
<1>11. Quota(rows, s) = F + IF s \in FavouredOf(rows, {s}) THEN 1 ELSE 0
  BY DEF Quota, FavouredOf, Ahead1, F
<1>12. Quota(rows, s) \in Nat /\ Quota(rows, s) <= n
  BY <1>3, <1>6, <1>10, <1>11
<1>13. Smaller(Quota(rows, s), n) = Quota(rows, s)
  BY <1>3, <1>12 DEF Smaller
<1>14. /\ Foremost(InSector(rows, s), Ranks.cohort, Quota(rows, s)) \subseteq InSector(rows, s)
       /\ Cardinality(Foremost(InSector(rows, s), Ranks.cohort, Quota(rows, s)))
             = Smaller(Quota(rows, s), n)
  BY <1>2, <1>12, ForemostAre DEF n
<1> QED
  BY <1>3, <1>6, <1>7, <1>9, <1>11, <1>13, <1>14 DEF N, n, F

\* The sectors of filings are numbers, and finitely many.
LEMMA SectorsAre ==
  ASSUME NEW rows, OneEachOf(rows)
  PROVE  IsFiniteSet(Sectors(rows)) /\ Sectors(rows) \subseteq Nat
<1>1. IsFiniteSet(rows)
  BY CohortFacts, FS_Subset DEF OneEachOf
<1> DEFINE f == [a \in rows |-> Sector(a)]
<1>2. f \in Surjection(rows, Sectors(rows))
  BY DEF Surjection, Sectors
<1>3. IsFiniteSet(Sectors(rows))
  BY <1>1, <1>2, FS_Surjection
<1> QED
  BY <1>3, CohortFacts DEF Sectors, OneEachOf

\* Finite sets that share nothing have as many elements as both together.
LEMMA DisjointUnion ==
  ASSUME NEW S, NEW T, IsFiniteSet(S), IsFiniteSet(T), S \cap T = {}
  PROVE  IsFiniteSet(S \cup T) /\ Cardinality(S \cup T) = Cardinality(S) + Cardinality(T)
<1>1. /\ IsFiniteSet(S \cup T)
      /\ Cardinality(S \cup T) = Cardinality(S) + Cardinality(T) - Cardinality(S \cap T)
  BY FS_Union
<1>2. Cardinality(S \cap T) = 0
  BY FS_EmptySet
<1>3. Cardinality(S) \in Nat /\ Cardinality(T) \in Nat
  BY FS_CardinalityType
<1> QED
  BY <1>1, <1>2, <1>3

\* One sector more.
LEMMA AddsOneMore ==
  ASSUME NEW rows, OneEachOf(rows), Limit < Cardinality(rows),
         NEW T, T \subseteq Sectors(rows), Adds(rows, T), NEW s \in Sectors(rows), s \notin T
  PROVE  Adds(rows, T \cup {s})
<1> DEFINE N == Cardinality(rows)
           F == Floor(rows, s)
           in == InSector(rows, s)
           drawn == Foremost(in, Ranks.cohort, Quota(rows, s))
           seats == {s} \X (1 .. F)
           extra == FavouredOf(rows, {s})
<1>1. /\ IsFiniteSet(in) /\ Cardinality(in) \in Nat /\ F \in Nat
      /\ N * F <= Limit * Cardinality(in) /\ Limit * Cardinality(in) <= N * (F + 1)
      /\ Quota(rows, s) = F + IF s \in extra THEN 1 ELSE 0
      /\ drawn \subseteq in /\ Cardinality(drawn) = Quota(rows, s)
  BY SectorShare
<1>2. N \in Nat /\ Limit \in Nat
  BY CohortFacts, FS_Subset, FS_CardinalityType DEF OneEachOf
<1>3. /\ IsFiniteSet(seats) /\ Cardinality(seats) = F
  <2>1. IsFiniteSet(1 .. F) /\ Cardinality(1 .. F) = F
    BY <1>1, FS_Interval
  <2>2. IsFiniteSet({s}) /\ Cardinality({s}) = 1
    BY FS_Singleton
  <2>3. IsFiniteSet({s} \X (1 .. F)) /\ Cardinality({s} \X (1 .. F)) = Cardinality({s}) * Cardinality(1 .. F)
    BY <2>1, <2>2, FS_Product
  <2> QED BY <1>1, <2>1, <2>2, <2>3
<1>4. /\ extra \subseteq {s} /\ IsFiniteSet(extra)
      /\ Cardinality(extra) = IF s \in extra THEN 1 ELSE 0
  <2>1. extra \subseteq {s}
    BY DEF FavouredOf
  <2>2. extra = {} \/ extra = {s}
    BY <2>1
  <2>3. /\ IsFiniteSet({}) /\ Cardinality({}) = 0
        /\ IsFiniteSet({s}) /\ Cardinality({s}) = 1
    BY FS_EmptySet, FS_Singleton
  <2> HIDE DEF extra
  <2>4. CASE extra = {}
    BY <2>3, <2>4
  <2>5. CASE extra = {s}
    BY <2>3, <2>5
  <2> QED BY <2>2, <2>4, <2>5
<1>5. IsFiniteSet(drawn)
  BY <1>1, FS_Subset
<1>6. /\ SeatsOf(rows, T \cup {s}) = SeatsOf(rows, T) \cup seats
      /\ SeatsOf(rows, T) \cap seats = {}
  BY s \notin T DEF SeatsOf
<1>7. /\ RowsOf(rows, T \cup {s}) = RowsOf(rows, T) \cup in
      /\ RowsOf(rows, T) \cap in = {}
  BY s \notin T DEF RowsOf, InSector
<1>8. /\ DrawnOf(rows, T \cup {s}) = DrawnOf(rows, T) \cup drawn
      /\ DrawnOf(rows, T) \cap drawn = {}
  <2>1. DrawnOf(rows, T \cup {s}) = DrawnOf(rows, T) \cup drawn
    BY DEF DrawnOf
  <2>2. ASSUME NEW a \in DrawnOf(rows, T) PROVE a \notin drawn
    <3>1. PICK t \in T : a \in Foremost(InSector(rows, t), Ranks.cohort, Quota(rows, t))
      BY DEF DrawnOf
    <3>2. Sector(a) = t
      BY <3>1 DEF Foremost, InSector
    <3> QED BY <1>1, <3>2, s \notin T DEF InSector
  <2> QED BY <2>1, <2>2
<1>9. /\ FavouredOf(rows, T \cup {s}) = FavouredOf(rows, T) \cup extra
      /\ FavouredOf(rows, T) \cap extra = {}
  BY s \notin T DEF FavouredOf
<1> HIDE DEF N, F, in, drawn, seats, extra
<1>10. /\ IsFiniteSet(T) /\ IsFiniteSet(SeatsOf(rows, T)) /\ IsFiniteSet(RowsOf(rows, T))
       /\ IsFiniteSet(DrawnOf(rows, T)) /\ IsFiniteSet(FavouredOf(rows, T))
       /\ N * Cardinality(SeatsOf(rows, T)) <= Limit * Cardinality(RowsOf(rows, T))
       /\ Limit * Cardinality(RowsOf(rows, T)) <= N * (Cardinality(SeatsOf(rows, T)) + Cardinality(T))
       /\ Cardinality(DrawnOf(rows, T)) = Cardinality(SeatsOf(rows, T)) + Cardinality(FavouredOf(rows, T))
  BY DEF Adds, N
<1>11. /\ IsFiniteSet(SeatsOf(rows, T \cup {s}))
       /\ Cardinality(SeatsOf(rows, T \cup {s})) = Cardinality(SeatsOf(rows, T)) + F
  BY <1>3, <1>6, <1>10, DisjointUnion
<1>12. /\ IsFiniteSet(RowsOf(rows, T \cup {s}))
       /\ Cardinality(RowsOf(rows, T \cup {s})) = Cardinality(RowsOf(rows, T)) + Cardinality(in)
  BY <1>1, <1>7, <1>10, DisjointUnion
<1>13. /\ IsFiniteSet(DrawnOf(rows, T \cup {s}))
       /\ Cardinality(DrawnOf(rows, T \cup {s})) = Cardinality(DrawnOf(rows, T)) + Cardinality(drawn)
  BY <1>5, <1>8, <1>10, DisjointUnion
<1>14. /\ IsFiniteSet(FavouredOf(rows, T \cup {s}))
       /\ Cardinality(FavouredOf(rows, T \cup {s})) = Cardinality(FavouredOf(rows, T)) + Cardinality(extra)
  BY <1>4, <1>9, <1>10, DisjointUnion
<1>15. IsFiniteSet(T \cup {s}) /\ Cardinality(T \cup {s}) = Cardinality(T) + 1
  BY <1>10, s \notin T, FS_AddElement
<1>16. /\ Cardinality(T) \in Nat /\ Cardinality(SeatsOf(rows, T)) \in Nat
       /\ Cardinality(RowsOf(rows, T)) \in Nat /\ Cardinality(FavouredOf(rows, T)) \in Nat
  BY <1>10, FS_CardinalityType
<1>17. \A x, y, f, r, i, k \in Nat :
          /\ x * y <= r * k /\ x * f <= r * i
          => x * (y + f) <= r * (k + i)
  OBVIOUS
<1>18. \A x, y, f, r, i, k, t \in Nat :
          /\ r * k <= x * (y + t) /\ r * i <= x * (f + 1)
          => r * (k + i) <= x * ((y + f) + (t + 1))
  OBVIOUS
<1>19. N * Cardinality(SeatsOf(rows, T \cup {s})) <= Limit * Cardinality(RowsOf(rows, T \cup {s}))
  BY <1>1, <1>2, <1>10, <1>11, <1>12, <1>16, <1>17
<1>20. Limit * Cardinality(RowsOf(rows, T \cup {s}))
          <= N * (Cardinality(SeatsOf(rows, T \cup {s})) + Cardinality(T \cup {s}))
  BY <1>1, <1>2, <1>10, <1>11, <1>12, <1>15, <1>16, <1>18
<1>21. Cardinality(DrawnOf(rows, T \cup {s}))
          = Cardinality(SeatsOf(rows, T \cup {s})) + Cardinality(FavouredOf(rows, T \cup {s}))
  BY <1>1, <1>4, <1>10, <1>11, <1>13, <1>14, <1>16
<1> QED
  BY <1>11, <1>12, <1>13, <1>14, <1>15, <1>19, <1>20, <1>21 DEF Adds, N

\* So it adds up over any of the sectors: the smallest number of them for which
\* it did not would be one more than a number for which it does.
LEMMA AllAdd ==
  ASSUME NEW rows, OneEachOf(rows), Limit < Cardinality(rows)
  PROVE  Adds(rows, Sectors(rows))
<1>1. IsFiniteSet(Sectors(rows))
  BY SectorsAre
<1>2. Adds(rows, {})
  <2>1. /\ SeatsOf(rows, {}) = {} /\ RowsOf(rows, {}) = {}
        /\ DrawnOf(rows, {}) = {} /\ FavouredOf(rows, {}) = {}
    BY DEF SeatsOf, RowsOf, DrawnOf, FavouredOf
  <2>2. IsFiniteSet({}) /\ Cardinality({}) = 0
    BY FS_EmptySet
  <2>3. Cardinality(rows) \in Nat /\ Limit \in Nat
    BY CohortFacts, FS_Subset, FS_CardinalityType DEF OneEachOf
  <2>4. /\ Cardinality(rows) * 0 = 0 /\ Limit * 0 = 0
        /\ Cardinality(rows) * (0 + 0) = 0 /\ 0 <= 0 /\ 0 + 0 = 0
    BY <2>3
  <2>5. /\ Cardinality(SeatsOf(rows, {})) = 0 /\ Cardinality(RowsOf(rows, {})) = 0
        /\ Cardinality(DrawnOf(rows, {})) = 0 /\ Cardinality(FavouredOf(rows, {})) = 0
    BY <2>1, <2>2
  <2> QED BY <2>1, <2>2, <2>4, <2>5, Zenon DEF Adds
<1> DEFINE wrong == {Cardinality(T) : T \in {U \in SUBSET Sectors(rows) : ~Adds(rows, U)}}
<1>3. ASSUME NEW T \in SUBSET Sectors(rows) PROVE IsFiniteSet(T) /\ Cardinality(T) \in Nat
  BY <1>1, FS_Subset, FS_CardinalityType
<1>4. wrong \subseteq Nat
  BY <1>3
<1>5. SUFFICES ASSUME wrong # {} PROVE FALSE
  <2>1. ASSUME ~Adds(rows, Sectors(rows)) PROVE Cardinality(Sectors(rows)) \in wrong
    BY <2>1
  <2> QED BY <2>1
<1>6. Min(wrong) \in wrong /\ \A y \in wrong : Min(wrong) <= y
  BY <1>4, <1>5, LeastOf
<1>7. PICK T \in SUBSET Sectors(rows) : ~Adds(rows, T) /\ Cardinality(T) = Min(wrong)
  BY <1>6
<1>8. PICK s \in T : TRUE
  BY <1>2, <1>7
<1>9. Cardinality(T \ {s}) = Cardinality(T) - 1 /\ T \ {s} \in SUBSET Sectors(rows)
  BY <1>3, <1>8, FS_RemoveElement
<1>10. Cardinality(T) \in Nat
  BY <1>3
<1>11. Cardinality(T \ {s}) \notin wrong
  <2>1. ~(Min(wrong) <= Cardinality(T \ {s}))
    BY <1>7, <1>9, <1>10
  <2> QED BY <1>6, <2>1
<1>12. Adds(rows, T \ {s})
  BY <1>9, <1>11
<1>13. Adds(rows, (T \ {s}) \cup {s})
  BY <1>8, <1>9, <1>12, AddsOneMore
<1>14. (T \ {s}) \cup {s} = T
  BY <1>8
<1> QED
  BY <1>7, <1>13, <1>14

\* The sample: as many as the limit allows, no sector more than one from its
\* share.
LEMMA SampleIs ==
  ASSUME NEW rows, OneEachOf(rows)
  PROVE  /\ StratifiedSample(rows) \subseteq rows
         /\ Cardinality(StratifiedSample(rows)) = Smaller(Limit, Cardinality(rows))
         /\ Cardinality(rows) > Limit =>
              \A s \in Sectors(rows) :
                 Cardinality(InSector(StratifiedSample(rows), s)) - Floor(rows, s) \in 0 .. 1
<1>1. Cardinality(rows) \in Nat /\ Limit \in Nat /\ IsFiniteSet(rows)
  BY CohortFacts, FS_Subset, FS_CardinalityType DEF OneEachOf
<1>2. CASE Cardinality(rows) <= Limit
  <2>1. StratifiedSample(rows) = rows
    BY <1>2 DEF StratifiedSample
  <2> QED BY <1>1, <1>2, <2>1 DEF Smaller
<1>3. CASE Limit < Cardinality(rows)
  <2> DEFINE all == Sectors(rows)
             N == Cardinality(rows)
             taken == Cardinality(Seats(rows))
             K == Cardinality(all)
  <2>1. StratifiedSample(rows) = DrawnOf(rows, all)
    BY <1>1, <1>3 DEF StratifiedSample, DrawnOf
  <2>2. SeatsOf(rows, all) = Seats(rows) /\ RowsOf(rows, all) = rows
    BY DEF SeatsOf, Seats, RowsOf, Sectors
  <2>3. /\ IsFiniteSet(all) /\ IsFiniteSet(Seats(rows)) /\ IsFiniteSet(FavouredOf(rows, all))
        /\ N * taken <= Limit * N
        /\ Limit * N <= N * (taken + K)
        /\ Cardinality(DrawnOf(rows, all)) = taken + Cardinality(FavouredOf(rows, all))
    BY <1>3, <2>2, AllAdd DEF Adds
  <2>4. K \in Nat /\ taken \in Nat
    BY <2>3, FS_CardinalityType
  <2>5. taken <= Limit /\ Limit <= taken + K
    <3>1. N > 0 /\ N \in Nat
      BY <1>1, <1>3
    <3> HIDE DEF N, taken, K
    <3>2. N * taken <= N * Limit /\ N * Limit <= N * (taken + K) /\ taken + K \in Nat
      BY <1>1, <2>3, <2>4, <3>1
    <3> QED BY <1>1, <2>4, <3>1, <3>2, Cancelled
  <2>6. Cardinality(FavouredOf(rows, all)) = Limit - taken
    <3> DEFINE R == {p \in all \X all : Before(rows, p[1], p[2])}
    <3>1. ASSUME NEW s \in all PROVE Fraction(rows, s) \in Nat /\ s \in Nat
      BY <1>3, SectorShare, SectorsAre
    <3>2. \A s, t \in all : << s, t >> \in R <=> Before(rows, s, t)
      OBVIOUS
    <3> HIDE DEF R
    <3>3. /\ \A s \in all : << s, s >> \notin R
          /\ \A s, t \in all : s # t => << s, t >> \in R \/ << t, s >> \in R
          /\ \A s, t, u \in all : << s, t >> \in R /\ << t, u >> \in R => << s, u >> \in R
      BY <3>1, <3>2 DEF Before
    <3>4. ASSUME NEW s \in all PROVE {t \in all : << t, s >> \in R} = Ahead1(rows, s)
      BY <3>2, <3>3 DEF Ahead1
    <3>5. Limit - taken \in Nat
      BY <1>1, <2>4, <2>5
    <3>6. FavouredOf(rows, all) = FirstOf(all, R, Limit - taken)
      BY <3>4 DEF FavouredOf, FirstOf
    <3>7. Cardinality(FirstOf(all, R, Limit - taken)) = Smaller(Limit - taken, K)
      BY <2>3, <3>3, <3>5, FirstOnes
    <3>8. Smaller(Limit - taken, K) = Limit - taken
      <4>1. Limit - taken <= K
        BY <1>1, <2>4, <2>5
      <4> QED BY <2>4, <3>5, <4>1 DEF Smaller
    <3> QED BY <3>6, <3>7, <3>8
  <2>7. Cardinality(DrawnOf(rows, all)) = Limit
    BY <1>1, <2>3, <2>4, <2>5, <2>6
  <2>8. DrawnOf(rows, all) \subseteq rows
    <3>1. \A s \in all : Foremost(InSector(rows, s), Ranks.cohort, Quota(rows, s)) \subseteq rows
      BY DEF Foremost, InSector
    <3> QED BY <3>1 DEF DrawnOf
  <2>9. ASSUME NEW s \in all
        PROVE  Cardinality(InSector(DrawnOf(rows, all), s)) - Floor(rows, s) \in 0 .. 1
    <3>1. InSector(DrawnOf(rows, all), s) = Foremost(InSector(rows, s), Ranks.cohort, Quota(rows, s))
      <4>1. ASSUME NEW t \in all, NEW a \in Foremost(InSector(rows, t), Ranks.cohort, Quota(rows, t))
            PROVE  Sector(a) = t
        BY DEF Foremost, InSector
      <4> QED BY <4>1 DEF InSector, DrawnOf
    <3>2. /\ Cardinality(Foremost(InSector(rows, s), Ranks.cohort, Quota(rows, s))) = Quota(rows, s)
          /\ Quota(rows, s) = Floor(rows, s) + IF s \in FavouredOf(rows, {s}) THEN 1 ELSE 0
          /\ Floor(rows, s) \in Nat
      BY <1>3, SectorShare
    <3> QED BY <3>1, <3>2
  <2>10. Smaller(Limit, N) = Limit
    BY <1>1, <1>3 DEF Smaller
  <2> QED BY <2>1, <2>7, <2>8, <2>9, <2>10
<1> QED
  BY <1>1, <1>2, <1>3

\* The candidates are one filing of each company.
LEMMA CandidatesAre ==
  ASSUME ScanInv
  PROVE  /\ OneEachOf(UsableRows)
         /\ \A a \in UsableRows :
               /\ Eligible(a) /\ Usable(a)
               /\ \A b \in scanned \ {a} :
                     Company(b) = Company(a) => b \notin UsableRows /\ (Eligible(b) => Earlier(a, b))
<1>1. ASSUME NEW a \in UsableRows
      PROVE  /\ Company(a) \in DOMAIN earliest /\ a = earliest[Company(a)] /\ Usable(a)
             /\ a \in Accessions /\ Eligible(a)
             /\ \A b \in scanned \ {a} :
                   Company(b) = Company(a) /\ Eligible(b) => Earlier(a, b)
  <2>1. PICK c \in DOMAIN earliest : a = earliest[c] /\ Usable(earliest[c])
    BY DEF UsableRows
  <2> QED BY <2>1 DEF ScanInv
<1>2. OneEachOf(UsableRows)
  BY <1>1 DEF OneEachOf
<1> QED
  BY <1>1, <1>2 DEF OneEachOf

\* Before anything is read there are no candidates.
LEMMA CohortInvInit == CohortInit => CohortInv
<1> SUFFICES ASSUME CohortInit PROVE CohortInv
  OBVIOUS
<1>1. DOMAIN earliest = {}
  BY DEF CohortInit
<1>2. ScanInv
  BY <1>1 DEF CohortInit, ScanInv
<1>3. DrawInv
  BY DEF CohortInit, DrawInv
<1> QED
  BY <1>2, <1>3 DEF CohortInit, CohortInv

\* An accession that is read takes the place of a later one.
LEMMA DiscoverKeeps ==
  ASSUME CohortInv, NEW a \in Accessions, Discover(a)
  PROVE  CohortInv'
<1>1. /\ phase = "scan" /\ a \notin scanned /\ scanned' = scanned \cup {a}
      /\ cohort' = cohort /\ phase' = phase
  BY DEF Discover
<1>2. ScanInv /\ DrawInv
  BY DEF CohortInv
<1>3. a \in Nat /\ Filings[a].filed \in Nat
  BY CohortFacts
<1>4. ScanInv'
  <2>1. CASE Eligible(a) /\ (Company(a) \in DOMAIN earliest => Earlier(a, earliest[Company(a)]))
    <3>1. earliest' = [c \in DOMAIN earliest \cup {Company(a)} |->
                         IF c = Company(a) THEN a ELSE earliest[c]]
      BY <2>1 DEF Discover
    <3>2. ASSUME NEW c \in DOMAIN earliest'
          PROVE  /\ earliest'[c] \in scanned' /\ Company(earliest'[c]) = c /\ Eligible(earliest'[c])
                 /\ \A b \in scanned' \ {earliest'[c]} :
                       Company(b) = c /\ Eligible(b) => Earlier(earliest'[c], b)
      <4>1. CASE c = Company(a)
        <5>1. earliest'[c] = a
          BY <3>1, <4>1
        <5>2. ASSUME NEW b \in scanned, Company(b) = c, Eligible(b) PROVE Earlier(a, b)
          <6>1. /\ Company(a) \in DOMAIN earliest /\ Earlier(a, earliest[Company(a)])
                /\ b # earliest[Company(a)] => Earlier(earliest[Company(a)], b)
            BY <1>2, <2>1, <4>1, <5>2 DEF ScanInv
          <6>2. /\ b \in Nat /\ Filings[b].filed \in Nat
                /\ earliest[Company(a)] \in Nat /\ Filings[earliest[Company(a)]].filed \in Nat
            BY <1>2, <6>1, CohortFacts DEF ScanInv
          <6> QED BY <1>3, <6>1, <6>2 DEF Earlier
        <5> QED BY <1>1, <2>1, <4>1, <5>1, <5>2
      <4>2. CASE c # Company(a)
        <5>1. c \in DOMAIN earliest /\ earliest'[c] = earliest[c]
          BY <3>1, <4>2
        <5> QED BY <1>1, <1>2, <4>2, <5>1 DEF ScanInv
      <4> QED BY <4>1, <4>2
    <3>3. \A b \in scanned' : Eligible(b) => Company(b) \in DOMAIN earliest'
      BY <1>1, <1>2, <3>1 DEF ScanInv
    <3> QED BY <1>1, <1>2, <3>2, <3>3 DEF ScanInv
  <2>2. CASE ~(Eligible(a) /\ (Company(a) \in DOMAIN earliest => Earlier(a, earliest[Company(a)])))
    <3>1. earliest' = earliest
      BY <2>2 DEF Discover
    <3>2. ASSUME NEW c \in DOMAIN earliest, Company(a) = c, Eligible(a)
          PROVE  Earlier(earliest[c], a)
      <4>1. ~Earlier(a, earliest[c])
        BY <2>2, <3>2
      <4>2. /\ earliest[c] \in scanned /\ earliest[c] # a
            /\ earliest[c] \in Nat /\ Filings[earliest[c]].filed \in Nat
        BY <1>1, <1>2, CohortFacts DEF ScanInv
      <4> QED BY <1>3, <4>1, <4>2 DEF Earlier
    <3> QED BY <1>1, <1>2, <2>2, <3>1, <3>2 DEF ScanInv
  <2> QED BY <2>1, <2>2
<1> QED
  BY <1>1, <1>2, <1>4 DEF CohortInv, DrawInv

\* Reading a filing keeps the candidates the earliest; drawing is what it says.
LEMMA CohortInvStep == CohortInv /\ [CohortNext]_cohortVars => CohortInv'
<1> SUFFICES ASSUME CohortInv, [CohortNext]_cohortVars PROVE CohortInv'
  OBVIOUS
<1>1. CASE \E a \in Accessions : Discover(a)
  BY <1>1, DiscoverKeeps
<1>2. CASE Sample
  <2>1. /\ phase = "scan" /\ phase' = "features" /\ scanned' = scanned /\ earliest' = earliest
        /\ cohort' = [cohort EXCEPT !.plan = StratifiedSample(UsableRows)]
        /\ cohort = [plan |-> {}, agent |-> {}, stability |-> {}]
    BY <1>2 DEF Sample, UsableRows, CohortInv
  <2>2. UsableRows' = UsableRows
    BY <2>1 DEF UsableRows
  <2>3. ScanInv'
    BY <2>1 DEF CohortInv, ScanInv
  <2>4. DrawInv'
    BY <2>1, <2>2 DEF DrawInv
  <2> QED BY <2>1, <2>3, <2>4 DEF CohortInv
<1>3. CASE DrawAgentPart
  <2> DEFINE part == Foremost(cohort.plan, Ranks.agent, AgentLimit)
  <2>1. /\ phase = "features" /\ phase' = "done" /\ scanned' = scanned /\ earliest' = earliest
        /\ cohort' = [cohort EXCEPT !.agent = part,
                         !.stability = Foremost(part, Ranks.stability, StabilityLimit)]
    BY <1>3 DEF DrawAgentPart
  <2>2. UsableRows' = UsableRows
    BY <2>1 DEF UsableRows
  <2>3. ScanInv'
    BY <2>1 DEF CohortInv, ScanInv
  <2>4. DOMAIN cohort = {"plan", "agent", "stability"} /\ cohort.plan = StratifiedSample(UsableRows)
    BY <2>1 DEF CohortInv, DrawInv
  <2> HIDE DEF part
  <2>5. /\ DOMAIN cohort' = {"plan", "agent", "stability"}
        /\ cohort'.plan = cohort.plan /\ cohort'.agent = part
        /\ cohort'.stability = Foremost(part, Ranks.stability, StabilityLimit)
    BY <2>1, <2>4
  <2>6. DrawInv'
    BY <2>1, <2>2, <2>4, <2>5 DEF DrawInv, part
  <2> QED BY <2>1, <2>3, <2>6 DEF CohortInv
<1>4. CASE UNCHANGED cohortVars
  BY <1>4 DEF cohortVars, CohortInv, ScanInv, DrawInv, UsableRows
<1> QED
  BY <1>1, <1>2, <1>3, <1>4 DEF CohortNext

\* The selection keeps to its invariant in whatever order the archives come.
THEOREM CohortInvariant == CohortSpec => []CohortInv
<1>1. CohortInit => CohortInv
  BY CohortInvInit
<1>2. CohortInv /\ [CohortNext]_cohortVars => CohortInv'
  BY CohortInvStep
<1> QED
  BY <1>1, <1>2, PTL DEF CohortSpec

\* Whatever the archives hold and in whatever order they are read: one filing of
\* a company, its earliest eligible one; as many companies as the limit allows,
\* in each sector its share rounded down or up; and the model's part within it.
THEOREM CohortIsAlwaysFair == CohortSpec => []CohortIsFair
<1>1. CohortInv => CohortIsFair
  <2> SUFFICES ASSUME CohortInv, phase # "scan" PROVE CohortIsFair
    BY DEF CohortIsFair
  <2>1. ScanInv /\ cohort.plan = StratifiedSample(UsableRows)
    BY DEF CohortInv, DrawInv
  <2>2. OneEachOf(UsableRows)
    BY <2>1, CandidatesAre
  <2>3. /\ cohort.plan \subseteq UsableRows
        /\ Cardinality(cohort.plan) = Smaller(Limit, Cardinality(UsableRows))
        /\ Cardinality(UsableRows) > Limit =>
             \A s \in Sectors(UsableRows) :
                Cardinality(InSector(cohort.plan, s)) - Floor(UsableRows, s) \in 0 .. 1
    BY <2>1, <2>2, SampleIs
  <2>4. OneEachOf(cohort.plan)
    BY <2>2, <2>3 DEF OneEachOf
  <2>5. \A a \in cohort.plan :
            /\ Eligible(a) /\ Usable(a)
            /\ \A b \in scanned \ {a} :
                  Company(b) = Company(a) => b \notin cohort.plan /\ (Eligible(b) => Earlier(a, b))
    BY <2>1, <2>3, CandidatesAre
  <2>6. /\ cohort.stability \subseteq cohort.agent /\ cohort.agent \subseteq cohort.plan
        /\ phase = "done" => Cardinality(cohort.agent) = Smaller(AgentLimit, Cardinality(cohort.plan))
    <3>1. CASE phase = "features"
      BY <3>1 DEF CohortInv, DrawInv
    <3>2. CASE phase = "done"
      <4>1. /\ cohort.agent = Foremost(cohort.plan, Ranks.agent, AgentLimit)
            /\ cohort.stability = Foremost(cohort.agent, Ranks.stability, StabilityLimit)
        BY <3>2 DEF CohortInv, DrawInv
      <4>2. cohort.stability \subseteq cohort.agent /\ cohort.agent \subseteq cohort.plan
        BY <4>1 DEF Foremost
      <4>3. Cardinality(Foremost(cohort.plan, Ranks["agent"], AgentLimit))
               = Smaller(AgentLimit, Cardinality(cohort.plan))
        BY <2>4, CohortFacts, ForemostAre
      <4> QED BY <4>1, <4>2, <4>3
    <3> QED BY <3>1, <3>2 DEF CohortInv, DrawInv
  <2> QED BY <2>3, <2>5, <2>6 DEF CohortIsFair, UsableRows
<1> QED
  BY CohortInvariant, <1>1, PTL

-----------------------------------------------------------------------------
(* The nested loop                                                          *)

\* The fold an observation is tested in: that of its company.
FoldOf(o) == folds[data[o].company]

\* Every fold before the current one has been scored, each observation of it alike
\* and, if at all, with a model that saw the other folds; an audit has passed.
FoldsInv ==
    /\ data \in Datasets
    /\ current \in 0 .. Outer + 1
    /\ \A o \in Observations : FoldOf(o) \in 1 .. Outer
    /\ audited => ~Confirmed
    /\ DOMAIN scores = {o \in Observations : FoldOf(o) < current}
    /\ \A o \in DOMAIN scores :
          scores[o] # NoScore =>
             scores[o].saw = [columns |-> TrainRows(FoldOf(o)), tuning |-> TrainRows(FoldOf(o)),
                              fit |-> TrainRows(FoldOf(o))]
    /\ \A o, p \in DOMAIN scores : FoldOf(o) = FoldOf(p) => scores[o] = scores[p]

\* As many values as there are observations: no two of these share one.
LEMMA OneEach ==
    ASSUME NEW S, IsFiniteSet(S), NEW T, NEW f \in [S -> T], T = {f[o] : o \in S},
           Cardinality(S) = Cardinality(T), NEW o \in S, NEW p \in S, f[o] = f[p]
    PROVE  o = p
<1>1. f \in Surjection(S, T)
  BY DEF Surjection
<1>2. f \in Injection(S, T)
  BY <1>1, FS_SurjSameCardinalityImpliesInj
<1> QED BY <1>2 DEF Injection, IsInjective

\* In a study that passed the audit nobody is there twice.
LEMMA NobodyTwice ==
    ASSUME data \in Datasets, ~Confirmed, NEW o \in Observations, NEW p \in Observations,
           data[o].cik = data[p].cik
    PROVE  o = p
<1> DEFINE f == [x \in Observations |-> data[x].cik]
           T == {data[x].cik : x \in Observations}
<1>1. IsFiniteSet(Observations)
  BY CVAssumption DEF Observations
<1>2. Cardinality(T) = Cardinality(Observations)
  BY DEF Confirmed, Overlap
<1>3. f \in [Observations -> T] /\ T = {f[x] : x \in Observations} /\ f[o] = f[p]
  OBVIOUS
<1> HIDE DEF f, T
<1> QED BY <1>1, <1>2, <1>3, OneEach

\* Nothing is scored before the audit.
LEMMA FoldsInvInit == CVInit => FoldsInv
BY CVAssumption DEF CVInit, FoldsInv, FoldOf, Observations

\* A fold is scored as one, by a model that has not seen it.
LEMMA ScoreFoldKeeps ==
    ASSUME FoldsInv, ScoreFold
    PROVE  FoldsInv'
<1>1. PICK s : /\ \A o \in TestRows(current) :
                     s # NoScore =>
                        s.saw = [columns |-> TrainRows(current), tuning |-> TrainRows(current),
                                 fit |-> TrainRows(current)]
               /\ scores' = [o \in DOMAIN scores \cup TestRows(current) |->
                               IF o \notin TestRows(current) THEN scores[o] ELSE s]
  <2>1. PICK fits \in BOOLEAN :
          scores' = [o \in DOMAIN scores \cup TestRows(current) |->
                      IF o \notin TestRows(current) THEN scores[o]
                      ELSE IF Survived /\ fits THEN Model(current) ELSE NoScore]
    BY DEF ScoreFold
  <2>2. Model(current).saw = [columns |-> TrainRows(current), tuning |-> TrainRows(current),
                              fit |-> TrainRows(current)]
    BY DEF Model, ColumnsFrom
  <2>3. CASE Survived /\ fits
    BY <2>1, <2>2, <2>3
  <2>4. CASE ~(Survived /\ fits)
    BY <2>1, <2>4
  <2> QED BY <2>3, <2>4
<1>2. /\ current \in 1 .. Outer /\ current' = current + 1
      /\ data' = data /\ folds' = folds /\ audited' = audited
  BY DEF ScoreFold
<1>3. /\ Observations' = Observations /\ (Confirmed' <=> Confirmed)
      /\ \A o : FoldOf(o)' = FoldOf(o)
      /\ \A f : TrainRows(f)' = TrainRows(f)
  BY <1>2 DEF Observations, Confirmed, Overlap, LateFeatures, EarlyOutcome, TellingNames,
              FoldOf, TrainRows, TestRows
<1>4. TestRows(current) = {o \in Observations : FoldOf(o) = current}
  BY DEF TestRows, FoldOf
<1>5. DOMAIN scores = {o \in Observations : FoldOf(o) < current}
  BY DEF FoldsInv
<1>6. DOMAIN scores' = {o \in Observations : FoldOf(o) < current + 1}
  <2>1. DOMAIN scores' = DOMAIN scores \cup TestRows(current)
    BY <1>1
  <2>2. \A o \in Observations : FoldOf(o) \in 1 .. Outer
    BY DEF FoldsInv
  <2>3. \A o \in Observations : FoldOf(o) < current + 1 <=> FoldOf(o) < current \/ FoldOf(o) = current
    BY <1>2, <2>2, CVAssumption
  <2> QED BY <1>4, <1>5, <2>1, <2>3
<1>7. \A o \in DOMAIN scores' :
        \/ o \in DOMAIN scores /\ FoldOf(o) # current /\ scores'[o] = scores[o]
        \/ o \in TestRows(current) /\ FoldOf(o) = current /\ scores'[o] = s
  <2>1. \A o \in DOMAIN scores : FoldOf(o) # current
    BY <1>2, <1>5 DEF FoldsInv
  <2> QED BY <1>1, <1>4, <1>6, <2>1
<1>8. \A o \in DOMAIN scores' :
        scores'[o] # NoScore =>
           scores'[o].saw = [columns |-> TrainRows(FoldOf(o)), tuning |-> TrainRows(FoldOf(o)),
                             fit |-> TrainRows(FoldOf(o))]
  BY <1>1, <1>7 DEF FoldsInv
<1>9. \A o, p \in DOMAIN scores' : FoldOf(o) = FoldOf(p) => scores'[o] = scores'[p]
  BY <1>7 DEF FoldsInv
<1>10. current' \in 0 .. Outer + 1
  BY <1>2, CVAssumption
<1> QED
  BY <1>2, <1>3, <1>6, <1>8, <1>9, <1>10 DEF FoldsInv, NoScore

\* Every step keeps what is scored blind.
LEMMA FoldsInvStep == FoldsInv /\ [CVNext]_cvVars => FoldsInv'
<1> SUFFICES ASSUME FoldsInv, [CVNext]_cvVars PROVE FoldsInv'
  OBVIOUS
<1>1. CASE ScoreFold
  BY <1>1, ScoreFoldKeeps
<1>2. ASSUME UNCHANGED << data, folds, scores >>, current' \in 0 .. Outer + 1,
             audited' => ~Confirmed, current = current' \/ (current = 0 /\ current' = 1)
      PROVE  FoldsInv'
  <2>1. /\ Observations' = Observations /\ (Confirmed' <=> Confirmed)
        /\ \A o : FoldOf(o)' = FoldOf(o)
        /\ \A f : TrainRows(f)' = TrainRows(f)
    BY <1>2 DEF Observations, Confirmed, Overlap, LateFeatures, EarlyOutcome, TellingNames,
                FoldOf, TrainRows, TestRows
  <2>2. DOMAIN scores = {o \in Observations : FoldOf(o) < current'}
    BY <1>2, CVAssumption DEF FoldsInv
  <2> QED BY <1>2, <2>1, <2>2 DEF FoldsInv, NoScore
<1>3. CASE PassAudit \/ SkipAudit
  <2>1. audited' => ~Confirmed
    BY <1>3 DEF PassAudit, SkipAudit, FoldsInv
  <2> QED BY <1>2, <1>3, <2>1, CVAssumption DEF PassAudit, SkipAudit
<1>4. CASE TryCandidate \/ UNCHANGED cvVars
  <2>1. UNCHANGED << data, folds, audited, scores, current >>
    BY <1>4 DEF TryCandidate, cvVars
  <2> QED BY <1>2, <2>1 DEF FoldsInv
<1> QED BY <1>1, <1>3, <1>4 DEF CVNext

\* The invariant of the nested loop.
THEOREM FoldsInvariant == CVSpec => []FoldsInv
BY FoldsInvInit, FoldsInvStep, PTL DEF CVSpec

\* No score comes from a model that saw the observation or its company, in choosing
\* columns, in tuning or in fitting; in a run that audits, nor its CIK, nor from facts
\* of the outcome's day or later (ScoresAreBlind), for any packet, grid and failures.
THEOREM ScoresAreAlwaysBlind == CVSpec => []ScoresAreBlind
<1>1. ASSUME FoldsInv PROVE ScoresAreBlind
  <2>1. ASSUME current = Outer + 1
        PROVE  /\ DOMAIN scores = Observations
               /\ \A o, p \in Observations :
                     folds[data[o].company] = folds[data[p].company] => scores[o] = scores[p]
    <3>1. \A o \in Observations : FoldOf(o) < current
      BY <1>1, <2>1, CVAssumption DEF FoldsInv
    <3>2. DOMAIN scores = Observations
      BY <1>1, <3>1 DEF FoldsInv
    <3> QED BY <1>1, <3>2 DEF FoldsInv, FoldOf
  <2>2. ASSUME NEW o \in DOMAIN scores, scores[o] # NoScore
        PROVE  /\ \A rows \in {scores[o].saw.columns, scores[o].saw.tuning, scores[o].saw.fit} :
                     \A p \in rows :
                        /\ data[p].company # data[o].company
                        /\ audited => data[p].cik # data[o].cik
               /\ audited /\ data[o].outcome # 0 => \A f \in data[o].facts : f < data[o].outcome
    <3>1. /\ o \in Observations /\ FoldOf(o) \in 1 .. Outer /\ FoldOf(o) < current
          /\ data \in Datasets
      BY <1>1, <2>2 DEF FoldsInv
    <3>2. audited => ~Confirmed
      BY <1>1 DEF FoldsInv
    <3>3. scores[o].saw = [columns |-> TrainRows(FoldOf(o)), tuning |-> TrainRows(FoldOf(o)),
                           fit |-> TrainRows(FoldOf(o))]
      BY <1>1, <2>2 DEF FoldsInv
    <3>4. ASSUME NEW p \in TrainRows(FoldOf(o))
          PROVE  data[p].company # data[o].company /\ (audited => data[p].cik # data[o].cik)
      <4>1. p \in Observations /\ FoldOf(p) # FoldOf(o)
        BY DEF TrainRows, TestRows, FoldOf
      <4> QED BY <3>1, <3>2, <4>1, NobodyTwice DEF FoldOf
    <3>5. ASSUME audited, data[o].outcome # 0, NEW f \in data[o].facts
          PROVE  f < data[o].outcome
      <4>1. ~LateFeatures(o) /\ ~EarlyOutcome(o)
        BY <3>1, <3>2, <3>5 DEF Confirmed
      <4>2. {data[o].period, data[o].cutoff, data[o].outcome} \cup data[o].facts \subseteq Nat
        BY <3>1, CVAssumption DEF Observations
      <4> QED BY <3>5, <4>1, <4>2 DEF LateFeatures, EarlyOutcome
    <3> QED BY <3>3, <3>4, <3>5
  <2> QED BY <2>1, <2>2 DEF ScoresAreBlind
<1>2. FoldsInv => ScoresAreBlind
  BY <1>1
<1> QED BY <1>2, FoldsInvariant, PTL

-----------------------------------------------------------------------------
(* The robustness study                                                     *)

\* The four extensions that are one file each; the fifth is the shuffle.
Late == {"missingness_ablation", "boosting_temporal_increment", "sector_heterogeneity",
         "model_stability"}

\* Every step there is, and the part of a plan that it belongs to.
StepNames == ToSet(Primary) \cup ToSet(Extensions) \cup ToSet(Finish)

Phase(s) ==
    CASE s = "leakage_audit" -> 1
      [] s \in {"temporal_ablation", "temporal_contribution_summary"} -> 2
      [] s = "scores" -> 3
      [] s \in {"oof_predictions.csv", "oof_predictions"} -> 4
      [] s \in {"missingness_ablation", "boosting_temporal_increment", "temporal_shuffle",
                "sector_heterogeneity", "model_stability"} -> 6
      [] s \in {"figures", "manifest", "FINAL_REPORT"} -> 7
      [] OTHER -> 5

\* A plan never goes back to an earlier part.
Ordered(s) == \A i, j \in DOMAIN s : i < j => Phase(s[i]) <= Phase(s[j])

\* What the run under way still has to do.
Ahead(x) == x \in ToSet(run.steps)

\* The controls tell about the shuffle; a file stems from one packet and one
\* configuration.
FoldsKnown(c) == "folds" \in DOMAIN c
Stems(c, packet, config) == "torn" \notin DOMAIN c /\ c.data = packet /\ c.config = config

\* What is left of a plan is in its order.
RobustTypes ==
    /\ DOMAIN files = Results
    /\ run # NoRun =>
         /\ DOMAIN run = {"steps", "fit", "packet", "config", "ledger", "results"}
         /\ run.steps \in Seq(StepNames)
         /\ run.fit \in BOOLEAN
         /\ Ordered(run.steps)

\* The scores on disk passed the audit.
LedgerInv == Whole("oof_predictions") => Ledger.scores \notin Leaking

\* Outputs of which the extensions and the scores are of one run.
OneRun(out, packet, config) ==
    /\ out["negative_controls"].shuffled = packet
    /\ \A f \in Late : Stems(out[f], packet, config)
    /\ out["missingness_ablation"].scores = out["oof_predictions"].scores

\* A manifest whose controls tell about the shuffle lists outputs of one run.
ManifestInv ==
    LET m == files["manifest"] IN
    Whole("manifest") /\ FoldsKnown(m.outputs["negative_controls"])
        => \E p : OneRun(m.outputs, p, m.config)

\* The run under way computes the extensions: its shuffle is still to come, or its
\* controls are written and tell about one.
Extended ==
    \/ Ahead("temporal_shuffle")
    \/ ~Ahead("negative_controls") /\ FoldsKnown(files["negative_controls"])

\* A run that gets to its manifest has audited its packet, or taken its scores
\* from the ledger on disk, and written every extension itself: an extension that
\* is not ahead any more is its own.
RunInv ==
    run # NoRun =>
      /\ run.fit => /\ run.ledger = run.packet
                    /\ ~Ahead("leakage_audit") => run.packet \notin Leaking
                    /\ Ahead("scores") => Ahead("oof_predictions")
      /\ ~run.fit /\ ~Ahead("scores") => run.ledger \notin Leaking
      /\ ~Ahead("scores") /\ ~Ahead("oof_predictions")
            => Whole("oof_predictions") /\ Ledger.scores = run.ledger
      /\ Ahead("scores") => \/ Ahead("missingness_ablation")
                            \/ Ahead("negative_controls") /\ ~Ahead("temporal_shuffle")
      /\ Extended =>
            /\ \A f \in Late : Ahead(f) \/ Stems(files[f], run.packet, run.config)
            /\ \/ Ahead("missingness_ablation")
               \/ files["missingness_ablation"].scores = run.ledger
            /\ \/ Ahead("temporal_shuffle")
               \/ files["negative_controls"].shuffled = run.packet

\* The inductive invariant of the robustness study.
RobustInv == RobustTypes /\ LedgerInv /\ ManifestInv /\ RunInv

\* The steps of two parts of a plan, one after the other.
LEMMA JoinedSets ==
    ASSUME NEW s \in Seq(StepNames), NEW t \in Seq(StepNames)
    PROVE  ToSet(s \o t) = ToSet(s) \cup ToSet(t)
<1>1. /\ DOMAIN s = 1 .. Len(s) /\ DOMAIN t = 1 .. Len(t) /\ Len(s) \in Nat /\ Len(t) \in Nat
      /\ DOMAIN (s \o t) = 1 .. Len(s) + Len(t)
      /\ \A i \in 1 .. Len(s) + Len(t) :
            (s \o t)[i] = IF i <= Len(s) THEN s[i] ELSE t[i - Len(s)]
  BY ConcatProperties, LenProperties
<1>2. ASSUME NEW x \in ToSet(s \o t) PROVE x \in ToSet(s) \cup ToSet(t)
  <2>1. PICK i \in 1 .. Len(s) + Len(t) : x = (s \o t)[i]
    BY <1>1 DEF ToSet
  <2>2. CASE i <= Len(s)
    BY <1>1, <2>1, <2>2 DEF ToSet
  <2>3. CASE ~(i <= Len(s))
    <3>1. i - Len(s) \in 1 .. Len(t)
      BY <1>1, <2>1, <2>3
    <3> QED BY <1>1, <2>1, <2>3, <3>1 DEF ToSet
  <2> QED BY <2>2, <2>3
<1>3. ASSUME NEW i \in 1 .. Len(s) PROVE s[i] \in ToSet(s \o t)
  BY <1>1 DEF ToSet
<1>4. ASSUME NEW i \in 1 .. Len(t) PROVE t[i] \in ToSet(s \o t)
  <2>1. i + Len(s) \in 1 .. Len(s) + Len(t) /\ ~(i + Len(s) <= Len(s)) /\ i + Len(s) - Len(s) = i
    BY <1>1
  <2>2. (s \o t)[i + Len(s)] = t[i]
    BY <1>1, <2>1
  <2> QED BY <1>1, <2>1, <2>2 DEF ToSet
<1> QED BY <1>1, <1>2, <1>3, <1>4 DEF ToSet

\* Parts in order, joined in order, are in order.
LEMMA Joined ==
    ASSUME NEW s \in Seq(StepNames), NEW t \in Seq(StepNames), Ordered(s), Ordered(t),
           \A x \in ToSet(s), y \in ToSet(t) : Phase(x) <= Phase(y)
    PROVE  s \o t \in Seq(StepNames) /\ Ordered(s \o t)
<1>1. /\ DOMAIN s = 1 .. Len(s) /\ DOMAIN t = 1 .. Len(t) /\ Len(s) \in Nat /\ Len(t) \in Nat
      /\ DOMAIN (s \o t) = 1 .. Len(s) + Len(t)
      /\ \A i \in 1 .. Len(s) + Len(t) :
            (s \o t)[i] = IF i <= Len(s) THEN s[i] ELSE t[i - Len(s)]
  BY ConcatProperties, LenProperties
<1>2. ASSUME NEW i \in 1 .. Len(s) + Len(t), NEW j \in 1 .. Len(s) + Len(t), i < j
      PROVE  Phase((s \o t)[i]) <= Phase((s \o t)[j])
  <2>1. CASE j <= Len(s)
    <3>1. i \in DOMAIN s /\ j \in DOMAIN s
      BY <1>1, <1>2, <2>1
    <3> QED BY <1>1, <1>2, <2>1, <3>1 DEF Ordered
  <2>2. CASE ~(j <= Len(s)) /\ i <= Len(s)
    <3>1. i \in DOMAIN s /\ j - Len(s) \in DOMAIN t
      BY <1>1, <1>2, <2>2
    <3>2. s[i] \in ToSet(s) /\ t[j - Len(s)] \in ToSet(t)
      BY <3>1 DEF ToSet
    <3> QED BY <1>1, <1>2, <2>2, <3>2
  <2>3. CASE ~(j <= Len(s)) /\ ~(i <= Len(s))
    <3>1. i - Len(s) \in DOMAIN t /\ j - Len(s) \in DOMAIN t /\ i - Len(s) < j - Len(s)
      BY <1>1, <1>2, <2>3
    <3> QED BY <1>1, <1>2, <2>3, <3>1 DEF Ordered
  <2> QED BY <2>1, <2>2, <2>3
<1> QED BY <1>1, <1>2 DEF Ordered

\* The steps of each part.
LEMMA Sets ==
    /\ ToSet(Primary) = {"leakage_audit", "temporal_ablation", "temporal_contribution_summary",
         "scores", "oof_predictions.csv", "oof_predictions", "model_results",
         "statistical_tests", "temporal_incremental_test", "subgroup_results",
         "influence_analysis", "negative_controls", "calibration_diagnostics",
         "threshold_robustness", "complexity_comparison"}
    /\ ToSet(Extensions) = {"missingness_ablation", "boosting_temporal_increment",
         "temporal_shuffle", "sector_heterogeneity", "model_stability"}
    /\ ToSet(Finish) = {"figures", "manifest", "FINAL_REPORT"}
    /\ Primary \in Seq(StepNames) /\ Extensions \in Seq(StepNames) /\ Finish \in Seq(StepNames)
    /\ ToSet(<< "scores" >>) = {"scores"} /\ << "scores" >> \in Seq(StepNames)
<1>1. ToSet(Primary) = {"leakage_audit", "temporal_ablation", "temporal_contribution_summary",
         "scores", "oof_predictions.csv", "oof_predictions", "model_results",
         "statistical_tests", "temporal_incremental_test", "subgroup_results",
         "influence_analysis", "negative_controls", "calibration_diagnostics",
         "threshold_robustness", "complexity_comparison"}
  BY DEF ToSet, Primary
<1>2. /\ ToSet(Extensions) = {"missingness_ablation", "boosting_temporal_increment",
            "temporal_shuffle", "sector_heterogeneity", "model_stability"}
      /\ ToSet(Finish) = {"figures", "manifest", "FINAL_REPORT"}
  BY DEF ToSet, Extensions, Finish
<1>3. ToSet(<< "scores" >>) = {"scores"}
  BY DEF ToSet
<1>4. Primary \in Seq(StepNames)
  BY <1>1 DEF Primary, StepNames
<1>5. Extensions \in Seq(StepNames) /\ Finish \in Seq(StepNames)
  BY <1>2 DEF Extensions, Finish, StepNames
<1>6. << "scores" >> \in Seq(StepNames)
  BY <1>1 DEF StepNames
<1> QED BY <1>1, <1>2, <1>3, <1>4, <1>5, <1>6

\* The phases of these steps.
LEMMA Phases ==
    /\ Phase("leakage_audit") = 1 /\ Phase("scores") = 3
    /\ \A s \in {"temporal_ablation", "temporal_contribution_summary"} : Phase(s) = 2
    /\ \A s \in {"oof_predictions.csv", "oof_predictions"} : Phase(s) = 4
    /\ \A s \in {"model_results", "statistical_tests", "temporal_incremental_test",
                 "subgroup_results", "influence_analysis", "negative_controls",
                 "calibration_diagnostics", "threshold_robustness",
                 "complexity_comparison"} : Phase(s) = 5
    /\ \A s \in ToSet(Extensions) : Phase(s) = 6
    /\ \A s \in ToSet(Finish) : Phase(s) = 7
BY Sets DEF Phase

\* The audit comes first, then the packet alone, the scores, what uses them.
LEMMA PrimaryIsOrdered == Ordered(Primary)
<1>1. /\ DOMAIN Primary = 1 .. 15
      /\ Primary[1] = "leakage_audit" /\ Primary[2] = "temporal_ablation"
      /\ Primary[3] = "temporal_contribution_summary" /\ Primary[4] = "scores"
      /\ Primary[5] = "oof_predictions.csv" /\ Primary[6] = "oof_predictions"
      /\ \A i \in 7 .. 15 :
            Primary[i] \in {"model_results", "statistical_tests", "temporal_incremental_test",
                            "subgroup_results", "influence_analysis", "negative_controls",
                            "calibration_diagnostics", "threshold_robustness",
                            "complexity_comparison"}
  BY DEF Primary
<1>2. \A i \in 1 .. 15 : i \in {1, 2, 3, 4, 5, 6} \/ i \in 7 .. 15
  OBVIOUS
<1>3. \A i \in 1 .. 15 :
        Phase(Primary[i]) = IF i = 1 THEN 1 ELSE IF i <= 3 THEN 2
                            ELSE IF i = 4 THEN 3 ELSE IF i <= 6 THEN 4 ELSE 5
  BY <1>1, <1>2, Phases
<1> HIDE DEF Primary
<1> QED BY <1>1, <1>3 DEF Ordered

\* Every plan is ordered and has scores; one without --extensions audits first
\* and rewrites the controls; one with a shuffle has every extension.
LEMMA Plans ==
    ASSUME NEW flags
    PROVE  LET s == Plan(flags) IN
           /\ s \in Seq(StepNames) /\ s # << >> /\ Ordered(s)
           /\ "scores" \in ToSet(s)
           /\ "--extensions" \notin flags
                 => {"leakage_audit", "oof_predictions", "negative_controls"} \subseteq ToSet(s)
           /\ "temporal_shuffle" \in ToSet(s) => Late \subseteq ToSet(s)
           /\ "temporal_shuffle" \notin ToSet(s) => "negative_controls" \in ToSet(s)
<1> DEFINE P == Primary
           E == Extensions
           F == Finish
           S == << "scores" >>
<1>1. Ordered(P) /\ Ordered(E) /\ Ordered(F) /\ Ordered(S)
  <2>1. Ordered(E)
    BY Sets, Phases DEF Ordered, Extensions
  <2>2. Ordered(F)
    BY Sets, Phases DEF Ordered, Finish
  <2>3. Ordered(S)
    BY DEF Ordered
  <2> QED BY <2>1, <2>2, <2>3, PrimaryIsOrdered
<1>2. /\ P \in Seq(StepNames) /\ E \in Seq(StepNames) /\ F \in Seq(StepNames)
      /\ S \in Seq(StepNames)
  BY Sets
<1>3. /\ \A x \in ToSet(P) : Phase(x) <= 5
      /\ \A x \in ToSet(E) : Phase(x) = 6
      /\ \A x \in ToSet(F) : Phase(x) = 7
      /\ \A x \in ToSet(S) : Phase(x) = 3
      /\ \A x \in ToSet(P) : Phase(x) \in Nat
  BY Sets, Phases
<1> HIDE DEF P, E, F, S
<1>4. /\ P \o F \in Seq(StepNames) /\ Ordered(P \o F) /\ ToSet(P \o F) = ToSet(P) \cup ToSet(F)
  BY <1>1, <1>2, <1>3, Joined, JoinedSets
<1>5. /\ P \o E \in Seq(StepNames) /\ Ordered(P \o E) /\ ToSet(P \o E) = ToSet(P) \cup ToSet(E)
  BY <1>1, <1>2, <1>3, Joined, JoinedSets
<1>6. /\ S \o E \in Seq(StepNames) /\ Ordered(S \o E) /\ ToSet(S \o E) = ToSet(S) \cup ToSet(E)
  BY <1>1, <1>2, <1>3, Joined, JoinedSets
<1>7. /\ (P \o E) \o F \in Seq(StepNames) /\ Ordered((P \o E) \o F)
      /\ ToSet((P \o E) \o F) = ToSet(P) \cup ToSet(E) \cup ToSet(F)
  <2>1. \A x \in ToSet(P \o E), y \in ToSet(F) : Phase(x) <= Phase(y)
    BY <1>3, <1>5
  <2>2. ToSet((P \o E) \o F) = ToSet(P \o E) \cup ToSet(F)
    BY <1>2, <1>5, JoinedSets
  <2> QED BY <1>1, <1>2, <1>5, <2>1, <2>2, Joined
<1>8. /\ (S \o E) \o F \in Seq(StepNames) /\ Ordered((S \o E) \o F)
      /\ ToSet((S \o E) \o F) = ToSet(S) \cup ToSet(E) \cup ToSet(F)
  <2>1. \A x \in ToSet(S \o E), y \in ToSet(F) : Phase(x) <= Phase(y)
    BY <1>3, <1>6
  <2>2. ToSet((S \o E) \o F) = ToSet(S \o E) \cup ToSet(F)
    BY <1>2, <1>6, JoinedSets
  <2> QED BY <1>1, <1>2, <1>6, <2>1, <2>2, Joined
<1>9. Plan(flags) = CASE "--extensions" \in flags -> (S \o E) \o F
                      [] "--extensions" \notin flags /\ "--skip-extensions" \in flags -> P \o F
                      [] OTHER -> (P \o E) \o F
  BY DEF Plan, P, E, F, S
<1>10. "--extensions" \in flags => Plan(flags) = (S \o E) \o F
  BY <1>9
<1>11. "--extensions" \notin flags => Plan(flags) \in {P \o F, (P \o E) \o F}
  BY <1>9
<1>12. ToSet(<< >>) = {}
  BY DEF ToSet
<1>13. Plan(flags) \in {(S \o E) \o F, P \o F, (P \o E) \o F}
  BY <1>10, <1>11
<1> QED
  BY <1>4, <1>7, <1>8, <1>10, <1>11, <1>12, <1>13, Sets DEF P, E, F, S, Late

\* The step a run is at is none of a later part than what is left.
LEMMA NextStep ==
    ASSUME RobustTypes, Running
    PROVE  /\ Step \in StepNames /\ Tail(run.steps) \in Seq(StepNames)
           /\ Ordered(Tail(run.steps))
           /\ \A x : Ahead(x) <=> x = Step \/ x \in ToSet(Tail(run.steps))
           /\ \A x : Ahead(x) => Phase(Step) <= Phase(x)
<1> DEFINE s == run.steps
<1>1. s \in Seq(StepNames) /\ s # << >> /\ Ordered(s)
  BY DEF RobustTypes, Running
<1> HIDE DEF s
<1>2. /\ Step = s[1] /\ Tail(s) \in Seq(StepNames) /\ Len(Tail(s)) = Len(s) - 1
      /\ \A i \in 1 .. Len(Tail(s)) : Tail(s)[i] = s[i + 1]
      /\ Len(s) \in Nat \ {0} /\ DOMAIN s = 1 .. Len(s)
      /\ DOMAIN Tail(s) = 1 .. Len(Tail(s))
  <2>1. Step = Head(s)
    BY DEF Step, s
  <2> QED BY <1>1, <2>1
<1>3. Step \in StepNames
  BY <1>1, <1>2
<1>4. Ordered(Tail(s))
  <2>1. \A i \in DOMAIN Tail(s) : i + 1 \in DOMAIN s
    BY <1>2
  <2>2. \A i, j \in DOMAIN Tail(s) : i < j => i + 1 < j + 1
    BY <1>2
  <2> QED BY <1>1, <1>2, <2>1, <2>2 DEF Ordered
<1>5. ASSUME NEW x
      PROVE  x \in ToSet(s) <=> x = Step \/ x \in ToSet(Tail(s))
  <2>1. ASSUME x \in ToSet(s), x # Step PROVE x \in ToSet(Tail(s))
    <3>1. PICK i \in 1 .. Len(s) : x = s[i]
      BY <1>2, <2>1 DEF ToSet
    <3>2. i - 1 \in 1 .. Len(Tail(s)) /\ (i - 1) + 1 = i
      BY <1>2, <2>1, <3>1
    <3> QED BY <1>2, <3>1, <3>2 DEF ToSet
  <2>2. ASSUME x = Step PROVE x \in ToSet(s)
    BY <1>2, <2>2 DEF ToSet
  <2>3. ASSUME x \in ToSet(Tail(s)) PROVE x \in ToSet(s)
    <3>1. PICK i \in 1 .. Len(Tail(s)) : x = s[i + 1]
      BY <1>2, <2>3 DEF ToSet
    <3>2. i + 1 \in DOMAIN s
      BY <1>2, <3>1
    <3> QED BY <3>1, <3>2 DEF ToSet
  <2> QED BY <2>1, <2>2, <2>3
<1>6. ASSUME NEW x, x \in ToSet(s)
      PROVE  Phase(Step) <= Phase(x)
  <2>1. PICK i \in 1 .. Len(s) : x = s[i]
    BY <1>2, <1>6 DEF ToSet
  <2>2. CASE i = 1
    <3>1. \A y \in StepNames : Phase(y) \in Nat
      BY Sets, Phases DEF StepNames
    <3> QED BY <1>2, <1>3, <2>1, <2>2, <3>1
  <2>3. CASE i # 1
    <3>1. 1 \in DOMAIN s /\ i \in DOMAIN s /\ 1 < i
      BY <1>2, <2>1, <2>3
    <3> QED BY <1>1, <1>2, <2>1, <3>1 DEF Ordered
  <2> QED BY <2>2, <2>3
<1> QED BY <1>2, <1>3, <1>4, <1>5, <1>6 DEF s, Ahead

\* A step writes one file, and the files the invariant is about are written by the
\* steps named after them and by the shuffle.
LEMMA Targets ==
    /\ \A s \in StepNames \ {"scores"} : Target(s) \in Results
    /\ \A s \in StepNames :
          /\ Target(s) = "oof_predictions" <=> s = "oof_predictions"
          /\ Target(s) = "manifest" <=> s = "manifest"
          /\ Target(s) = "negative_controls" <=> s \in {"negative_controls", "temporal_shuffle"}
          /\ \A f \in Late : Target(s) = f <=> s = f
    /\ {"oof_predictions", "manifest", "negative_controls"} \cup Late \subseteq Results
    /\ {"oof_predictions", "negative_controls"} \cup Late \subseteq Listed
<1>1. ToSet(Primary \o Extensions \o Finish) = StepNames
  <2>1. /\ Primary \o Extensions \in Seq(StepNames)
        /\ ToSet(Primary \o Extensions) = ToSet(Primary) \cup ToSet(Extensions)
    <3>1. Primary \in Seq(StepNames) /\ Extensions \in Seq(StepNames)
      BY Sets
    <3> QED BY <3>1, JoinedSets, ConcatProperties
  <2>2. ToSet(Primary \o Extensions \o Finish)
          = ToSet(Primary \o Extensions) \cup ToSet(Finish)
    <3>1. Finish \in Seq(StepNames)
      BY Sets
    <3> QED BY <2>1, <3>1, JoinedSets
  <2> QED BY <2>1, <2>2 DEF StepNames
<1>2. Results = {Target(s) : s \in StepNames} \ {"scores"}
  BY <1>1 DEF Results
<1>3. \A s \in StepNames \ {"scores"} : Target(s) # "scores"
  BY DEF Target
<1>4. {"oof_predictions", "manifest", "negative_controls"} \cup Late \subseteq StepNames
  BY Sets DEF StepNames, Late
<1>5. \A s \in {"oof_predictions", "manifest", "negative_controls"} \cup Late :
         Target(s) = s /\ s # "scores"
  BY DEF Target, Late
<1>6. {"oof_predictions", "manifest", "negative_controls"} \cup Late \subseteq Results
  BY <1>2, <1>4, <1>5
<1>7. \A s \in StepNames :
          /\ Target(s) = "oof_predictions" <=> s = "oof_predictions"
          /\ Target(s) = "manifest" <=> s = "manifest"
          /\ Target(s) = "negative_controls" <=> s \in {"negative_controls", "temporal_shuffle"}
          /\ \A f \in Late : Target(s) = f <=> s = f
  BY DEF Target, Late
<1>8. \A s \in StepNames \ {"scores"} : Target(s) \in Results
  BY <1>2, <1>3
<1>9. {"oof_predictions", "negative_controls"} \cup Late \subseteq Listed
  BY <1>6 DEF Listed, Late
<1> QED BY <1>6, <1>7, <1>8, <1>9

\* What they write.
LEMMA Written ==
    /\ ContentOf("oof_predictions") = IF run.fit THEN Computed ELSE File(run.ledger, run.ledger)
    /\ ContentOf("manifest") = ManifestFile
    /\ ContentOf("negative_controls") = Scored
    /\ ContentOf("temporal_shuffle") = ShuffleFile
    /\ ContentOf("missingness_ablation") = Scored
    /\ \A f \in Late : ContentOf(f) \in {Scored, Computed}
<1>1. ContentOf("oof_predictions") = LedgerFile
  BY DEF ContentOf
<1>2. ContentOf("manifest") = ManifestFile
  BY DEF ContentOf
<1>3. ContentOf("negative_controls") = ControlsFile /\ ContentOf("temporal_shuffle") = ShuffleFile
  BY DEF ContentOf
<1>4. /\ ContentOf("missingness_ablation") = MissingnessFile
      /\ ContentOf("boosting_temporal_increment") = BoostingFile
      /\ ContentOf("sector_heterogeneity") = HeterogeneityFile
      /\ ContentOf("model_stability") = StabilityFile
  BY DEF ContentOf
<1> QED
  BY <1>1, <1>2, <1>3, <1>4
     DEF LedgerFile, ControlsFile, MissingnessFile, BoostingFile, HeterogeneityFile,
         StabilityFile, Late

\* The study as it was published.
LEMMA RobustInvInit == RobustInit => RobustInv
<1> SUFFICES ASSUME RobustInit PROVE RobustInv
  OBVIOUS
<1>1. run = NoRun /\ DOMAIN files = Results
  BY DEF RobustInit
<1>2. /\ \A f \in {"oof_predictions"} \cup Late : FirstFile(f) = [data |-> 1, scores |-> 1, config |-> 1]
      /\ FirstFile("negative_controls")
           = [data |-> 1, scores |-> 1, config |-> 1, shuffled |-> 1, folds |-> TRUE]
  BY DEF FirstFile, Late
<1>3. files["oof_predictions"] = FirstFile("oof_predictions")
  BY Targets DEF RobustInit
<1>4. LedgerInv
  BY <1>2, <1>3, FirstPacketAssumption DEF LedgerInv, Ledger
<1>5. ManifestInv
  <2>1. files["manifest"] = [outputs |-> [g \in Listed |-> FirstFile(g)],
                             onDisk |-> [config |-> 1, extension |-> 1], config |-> 1]
    BY Targets DEF RobustInit
  <2>2. \A g \in {"oof_predictions", "negative_controls"} \cup Late :
           files["manifest"].outputs[g] = FirstFile(g)
    BY <2>1, Targets
  <2>3. OneRun(files["manifest"].outputs, 1, 1)
    BY <1>2, <2>2 DEF OneRun, Stems, Late
  <2>4. files["manifest"].config = 1
    BY <2>1
  <2> QED BY <2>3, <2>4 DEF ManifestInv
<1> QED BY <1>1, <1>4, <1>5 DEF RobustInv, RobustTypes, RunInv

\* A run starts before everything its plan has.
LEMMA StartRunKeeps ==
    ASSUME RobustInv, NEW flags, StartRun(flags)
    PROVE  RobustInv'
<1>1. RobustTypes /\ LedgerInv /\ ManifestInv /\ files' = files
  BY DEF RobustInv, StartRun
<1>2. /\ DOMAIN run' = {"steps", "fit", "packet", "config", "ledger", "results"}
      /\ run'.steps = Plan(flags) /\ run'.ledger = run'.packet
      /\ run'.fit = (flags \cap {"--reuse-oof", "--extensions"} = {})
  BY DEF StartRun
<1>3. /\ run'.steps \in Seq(StepNames) /\ Ordered(run'.steps)
      /\ Ahead("scores")'
      /\ run'.fit => Ahead("leakage_audit")' /\ Ahead("oof_predictions")'
      /\ Ahead("temporal_shuffle")' => \A f \in Late : Ahead(f)'
      /\ ~Ahead("temporal_shuffle")' => Ahead("negative_controls")'
  BY <1>2, Plans DEF Ahead
<1>4. Ahead("temporal_shuffle")' => Ahead("missingness_ablation")'
  BY <1>3 DEF Late
<1>5. RobustTypes'
  BY <1>1, <1>2, <1>3 DEF RobustTypes
<1>6. LedgerInv' /\ ManifestInv'
  BY <1>1 DEF LedgerInv, ManifestInv, Ledger, Whole
<1>7. RunInv'
  BY <1>2, <1>3, <1>4 DEF RunInv, Extended
<1> QED BY <1>5, <1>6, <1>7 DEF RobustInv

\* A run is over: the files alone have to be in order.
LEMMA OverKeeps ==
    ASSUME RobustInv, run' = NoRun, DOMAIN files' = Results, LedgerInv', ManifestInv'
    PROVE  RobustInv'
BY DEF RobustInv, RobustTypes, RunInv

\* The scores are taken.
LEMMA TakeScoresKeeps ==
    ASSUME RobustInv, TakeScores
    PROVE  RobustInv'
<1>1. /\ RobustTypes /\ LedgerInv /\ ManifestInv /\ RunInv
      /\ Running /\ Step = "scores" /\ files' = files
  BY DEF RobustInv, TakeScores
<1>2. LedgerInv' /\ ManifestInv' /\ DOMAIN files' = Results
  BY <1>1 DEF LedgerInv, ManifestInv, Ledger, Whole, RobustTypes
<1>3. run # NoRun /\ DOMAIN run = {"steps", "fit", "packet", "config", "ledger", "results"}
  BY <1>1 DEF RobustTypes, Running
<1>4. CASE run' = NoRun
  BY <1>2, <1>4, OverKeeps
<1>5. ASSUME DOMAIN run' = {"steps", "fit", "packet", "config", "ledger", "results"},
             run'.steps = Tail(run.steps), run'.fit = run.fit, run'.packet = run.packet,
             run'.config = run.config,
             IF run.fit THEN run'.ledger = run.ledger
             ELSE Whole("oof_predictions") /\ run'.ledger = Ledger.scores
      PROVE  RobustInv'
  <2>1. \A x : Ahead(x) <=> x = "scores" \/ Ahead(x)'
    BY <1>1, <1>5, NextStep DEF Ahead
  <2>2. RobustTypes'
    BY <1>1, <1>2, <1>3, <1>5, NextStep DEF RobustTypes
  <2>3. \A f \in Late \cup {"leakage_audit", "oof_predictions", "negative_controls", "temporal_shuffle"} :
           Ahead(f)' <=> Ahead(f)
    BY <2>1 DEF Late
  <2>4. Ahead("scores")
    BY <2>1
  <2>5. Extended' <=> Extended
    BY <1>1, <2>3 DEF Extended
  <2>6. Extended => Ahead("missingness_ablation")
    BY <1>1, <1>3, <2>4 DEF RunInv, Extended
  <2>7. ASSUME run.fit PROVE RunInv'
    <3>1. /\ run.ledger = run.packet
          /\ ~Ahead("leakage_audit") => run.packet \notin Leaking
          /\ Ahead("oof_predictions")
      BY <1>1, <1>3, <2>4, <2>7 DEF RunInv
    <3>2. Extended =>
            /\ \A f \in Late : Ahead(f) \/ Stems(files[f], run.packet, run.config)
            /\ Ahead("temporal_shuffle") \/ files["negative_controls"].shuffled = run.packet
      BY <1>1, <1>3 DEF RunInv
    <3>3. Ahead("missingness_ablation") \/ (Ahead("negative_controls") /\ ~Ahead("temporal_shuffle"))
      BY <1>1, <1>3, <2>4 DEF RunInv
    <3>4. Ahead("missingness_ablation")' <=> Ahead("missingness_ablation")
      BY <2>3 DEF Late
    <3>5. run'.ledger = run.ledger
      BY <1>5, <2>7
    <3> QED
      BY <1>1, <1>5, <2>3, <2>5, <2>6, <2>7, <3>1, <3>2, <3>3, <3>4, <3>5 DEF RunInv
  <2>8. ASSUME ~run.fit PROVE RunInv'
    <3>1. Whole("oof_predictions") /\ run'.ledger = Ledger.scores /\ Ledger.scores \notin Leaking
      BY <1>1, <1>5, <2>8 DEF LedgerInv
    <3>2. Extended =>
            /\ \A f \in Late : Ahead(f) \/ Stems(files[f], run.packet, run.config)
            /\ Ahead("temporal_shuffle") \/ files["negative_controls"].shuffled = run.packet
      BY <1>1, <1>3 DEF RunInv
    <3>3. Ahead("missingness_ablation") \/ (Ahead("negative_controls") /\ ~Ahead("temporal_shuffle"))
      BY <1>1, <1>3, <2>4 DEF RunInv
    <3>4. Ahead("missingness_ablation")' <=> Ahead("missingness_ablation")
      BY <2>3 DEF Late
    <3>5. Whole("oof_predictions")' /\ Ledger'.scores = run'.ledger
      BY <1>1, <3>1 DEF Whole, Ledger
    <3> QED
      BY <1>1, <1>5, <2>3, <2>5, <2>6, <2>8, <3>1, <3>2, <3>3, <3>4, <3>5 DEF RunInv
  <2>9. run.fit \in BOOLEAN
    BY <1>1, <1>3 DEF RobustTypes
  <2> QED BY <1>2, <2>2, <2>7, <2>8, <2>9 DEF RobustInv
<1>6. CASE run.fit /\ run' = Continue
  BY <1>3, <1>5, <1>6 DEF Continue
<1>7. CASE /\ ~run.fit /\ Whole("oof_predictions")
           /\ run' = [Continue EXCEPT !.ledger = files["oof_predictions"].scores,
                                      !.results = IF ReadsResults THEN files["model_results"].data
                                                  ELSE @]
  BY <1>3, <1>5, <1>7 DEF Continue, Ledger
<1> QED BY <1>4, <1>6, <1>7 DEF TakeScores

\* A file is written, and the run goes on or is over.
LEMMA WriteResultKeeps ==
    ASSUME RobustInv, WriteResult
    PROVE  RobustInv'
<1> DEFINE s == Step
           f == Target(Step)
<1>1. /\ RobustTypes /\ LedgerInv /\ ManifestInv /\ RunInv
      /\ Running /\ s # "scores"
  BY DEF RobustInv, WriteResult
<1>2. /\ run # NoRun /\ DOMAIN run = {"steps", "fit", "packet", "config", "ledger", "results"}
      /\ run.fit \in BOOLEAN /\ DOMAIN files = Results
  BY <1>1 DEF RobustTypes, Running
<1>3. CASE run' = NoRun /\ files' = files
  BY <1>1, <1>2, <1>3, OverKeeps DEF LedgerInv, ManifestInv, Ledger, Whole
<1>4. CASE /\ files' = [files EXCEPT ![f] = ContentOf(s)]
           /\ \/ run' = NoRun
              \/ run' = Continue /\ ~(s = "leakage_audit" /\ run.packet \in Leaking)
  <2>1. /\ s \in StepNames /\ f \in Results /\ Ahead(s)
        /\ f = "oof_predictions" <=> s = "oof_predictions"
        /\ f = "manifest" <=> s = "manifest"
        /\ f = "negative_controls" <=> s \in {"negative_controls", "temporal_shuffle"}
        /\ \A g \in Late : f = g <=> s = g
    BY <1>1, NextStep, Targets
  <2>2. \A x : Ahead(x) => Phase(s) <= Phase(x)
    BY <1>1, NextStep
  <2> HIDE DEF s, f
  <2>3. /\ DOMAIN files' = Results /\ files'[f] = ContentOf(s)
        /\ \A g \in Results : g # f => files'[g] = files[g]
    BY <1>2, <1>4, <2>1
  <2>4. \A g \in {"oof_predictions", "manifest", "negative_controls"} \cup Late : g \in Results
    BY Targets
  <2>5. s = "oof_predictions" => ~Ahead("scores") /\ ~Ahead("leakage_audit")
    BY <2>2, Phases
  <2>6. LedgerInv'
    <3>1. CASE s # "oof_predictions"
      BY <1>1, <2>1, <2>3, <2>4, <3>1 DEF LedgerInv, Ledger, Whole
    <3>2. CASE s = "oof_predictions"
      <4>1. files'["oof_predictions"] = IF run.fit THEN Computed ELSE File(run.ledger, run.ledger)
        BY <2>1, <2>3, <3>2, Written
      <4>2. run.fit => run.packet \notin Leaking
        BY <1>1, <1>2, <2>5, <3>2 DEF RunInv
      <4>3. ~run.fit => run.ledger \notin Leaking
        BY <1>1, <1>2, <2>5, <3>2 DEF RunInv
      <4> QED BY <4>1, <4>2, <4>3 DEF LedgerInv, Ledger, Computed, File
    <3> QED BY <3>1, <3>2
  <2>7. ManifestInv'
    <3>1. CASE s # "manifest"
      BY <1>1, <2>1, <2>3, <2>4, <3>1 DEF ManifestInv, Whole
    <3>2. CASE s = "manifest"
      <4>1. files'["manifest"] = ManifestFile
        BY <2>1, <2>3, <3>2, Written
      <4>2. /\ \A g \in {"oof_predictions", "negative_controls"} \cup Late :
                   files'["manifest"].outputs[g] = files[g]
            /\ files'["manifest"].config = run.config
        BY <4>1, Targets DEF ManifestFile
      <4>3. Phase(s) = 7
        BY <3>2, Phases, Sets
      <4>4. /\ ~Ahead("scores") /\ ~Ahead("oof_predictions") /\ ~Ahead("negative_controls")
            /\ ~Ahead("temporal_shuffle") /\ \A g \in Late : ~Ahead(g)
        BY <2>2, <4>3, Phases, Sets DEF Late
      <4>5. Ledger.scores = run.ledger
        BY <1>1, <1>2, <4>4 DEF RunInv
      <4>6. ASSUME FoldsKnown(files["negative_controls"])
            PROVE  OneRun(files'["manifest"].outputs, run.packet, run.config)
        <5>1. Extended
          BY <4>4, <4>6 DEF Extended
        <5>2. /\ \A g \in Late : Ahead(g) \/ Stems(files[g], run.packet, run.config)
              /\ Ahead("missingness_ablation") \/ files["missingness_ablation"].scores = run.ledger
              /\ Ahead("temporal_shuffle") \/ files["negative_controls"].shuffled = run.packet
          BY <1>1, <1>2, <5>1 DEF RunInv
        <5>3. "missingness_ablation" \in Late
          BY DEF Late
        <5> QED BY <4>2, <4>4, <4>5, <5>2, <5>3 DEF OneRun, Ledger
      <4> QED BY <4>2, <4>6 DEF ManifestInv
    <3> QED BY <3>1, <3>2
  <2>8. CASE run' = NoRun
    BY <2>3, <2>6, <2>7, <2>8, OverKeeps
  <2>9. CASE run' = Continue /\ ~(s = "leakage_audit" /\ run.packet \in Leaking)
    <3>1. /\ DOMAIN run' = {"steps", "fit", "packet", "config", "ledger", "results"}
          /\ run'.steps = Tail(run.steps) /\ run'.fit = run.fit /\ run'.packet = run.packet
          /\ run'.config = run.config /\ run'.ledger = run.ledger
      BY <1>2, <2>9 DEF Continue
    <3>2. \A x : Ahead(x) <=> x = s \/ Ahead(x)'
      BY <1>1, <3>1, NextStep DEF Ahead, s
    <3>3. RobustTypes'
      BY <1>1, <1>2, <2>3, <3>1, NextStep DEF RobustTypes
    <3>4. run.fit => /\ run.ledger = run.packet
                     /\ ~Ahead("leakage_audit")' => run.packet \notin Leaking
                     /\ Ahead("scores")' => Ahead("oof_predictions")'
      <4>1. run.fit => /\ run.ledger = run.packet
                       /\ ~Ahead("leakage_audit") => run.packet \notin Leaking
                       /\ Ahead("scores") => Ahead("oof_predictions")
        BY <1>1, <1>2 DEF RunInv
      <4> QED BY <2>5, <2>9, <3>2, <4>1
    <3>5. ~run.fit /\ ~Ahead("scores")' => run.ledger \notin Leaking
      BY <1>1, <1>2, <3>2 DEF RunInv
    <3>6. ~Ahead("scores")' /\ ~Ahead("oof_predictions")'
            => Whole("oof_predictions")' /\ Ledger'.scores = run.ledger
      <4>1. CASE s # "oof_predictions"
        <5>1. ~Ahead("scores") /\ ~Ahead("oof_predictions")
                => Whole("oof_predictions") /\ Ledger.scores = run.ledger
          BY <1>1, <1>2 DEF RunInv
        <5>2. files'["oof_predictions"] = files["oof_predictions"]
          BY <2>1, <2>3, <2>4, <4>1
        <5> QED BY <1>1, <3>2, <4>1, <5>1, <5>2 DEF Whole, Ledger
      <4>2. CASE s = "oof_predictions"
        <5>1. files'["oof_predictions"] = IF run.fit THEN Computed ELSE File(run.ledger, run.ledger)
          BY <2>1, <2>3, <4>2, Written
        <5> QED BY <3>4, <5>1 DEF Computed, File, Whole, Ledger
      <4> QED BY <4>1, <4>2
    <3>7. Ahead("scores")' => \/ Ahead("missingness_ablation")'
                              \/ Ahead("negative_controls")' /\ ~Ahead("temporal_shuffle")'
      <4>1. Ahead("scores")' => s # "missingness_ablation" /\ s # "negative_controls"
        BY <2>2, <3>2, Phases, Sets
      <4>2. Ahead("scores") => \/ Ahead("missingness_ablation")
                               \/ Ahead("negative_controls") /\ ~Ahead("temporal_shuffle")
        BY <1>1, <1>2 DEF RunInv
      <4> QED BY <3>2, <4>1, <4>2
    <3>8. Extended' => Extended
      <4>1. CASE s \notin {"negative_controls", "temporal_shuffle"}
        <5>1. files'["negative_controls"] = files["negative_controls"]
          BY <2>1, <2>3, <2>4, <4>1
        <5> QED BY <3>2, <4>1, <5>1 DEF Extended
      <4>2. CASE s = "temporal_shuffle"
        BY <2>1, <4>2 DEF Extended
      <4>3. CASE s = "negative_controls"
        <5>1. files'["negative_controls"] = Scored
          BY <2>1, <2>3, <4>3, Written
        <5>2. ~FoldsKnown(files'["negative_controls"])
          BY <5>1 DEF FoldsKnown, Scored, File
        <5> QED BY <3>2, <4>3, <5>2 DEF Extended
      <4> QED BY <4>1, <4>2, <4>3
    <3>9. ASSUME Extended'
          PROVE  /\ \A g \in Late : Ahead(g)' \/ Stems(files'[g], run.packet, run.config)
                 /\ Ahead("missingness_ablation")' \/ files'["missingness_ablation"].scores = run.ledger
                 /\ Ahead("temporal_shuffle")' \/ files'["negative_controls"].shuffled = run.packet
      <4>1. /\ \A g \in Late : Ahead(g) \/ Stems(files[g], run.packet, run.config)
            /\ Ahead("missingness_ablation") \/ files["missingness_ablation"].scores = run.ledger
            /\ Ahead("temporal_shuffle") \/ files["negative_controls"].shuffled = run.packet
        BY <1>1, <1>2, <3>8, <3>9 DEF RunInv
      <4>2. ASSUME NEW g \in Late
            PROVE  Ahead(g)' \/ Stems(files'[g], run.packet, run.config)
        <5>1. CASE s = g
          <6>1. files'[g] \in {Scored, Computed}
            BY <2>1, <2>3, <5>1, Written
          <6> QED BY <6>1 DEF Stems, Scored, Computed, File
        <5>2. CASE s # g
          <6>1. files'[g] = files[g]
            BY <2>1, <2>3, <2>4, <5>2
          <6> QED BY <3>2, <4>1, <5>2, <6>1
        <5> QED BY <5>1, <5>2
      <4>3. Ahead("missingness_ablation")' \/ files'["missingness_ablation"].scores = run.ledger
        <5>0. "missingness_ablation" \in Late
          BY DEF Late
        <5>1. CASE s = "missingness_ablation"
          <6>1. files'["missingness_ablation"] = Scored
            BY <2>1, <2>3, <5>0, <5>1, Written
          <6> QED BY <6>1 DEF Scored, File
        <5>2. CASE s # "missingness_ablation"
          <6>1. files'["missingness_ablation"] = files["missingness_ablation"]
            BY <2>1, <2>3, <2>4, <5>0, <5>2
          <6> QED BY <3>2, <4>1, <5>2, <6>1
        <5> QED BY <5>1, <5>2
      <4>4. Ahead("temporal_shuffle")' \/ files'["negative_controls"].shuffled = run.packet
        <5>1. CASE s = "temporal_shuffle"
          <6>1. files'["negative_controls"] = ShuffleFile
            BY <2>1, <2>3, <5>1, Written
          <6> QED BY <6>1 DEF ShuffleFile
        <5>2. CASE s = "negative_controls"
          <6>1. files'["negative_controls"] = Scored
            BY <2>1, <2>3, <5>2, Written
          <6>2. ~FoldsKnown(files'["negative_controls"])
            BY <6>1 DEF FoldsKnown, Scored, File
          <6> QED BY <3>9, <6>2 DEF Extended
        <5>3. CASE s \notin {"negative_controls", "temporal_shuffle"}
          <6>1. files'["negative_controls"] = files["negative_controls"]
            BY <2>1, <2>3, <2>4, <5>3
          <6> QED BY <3>2, <4>1, <5>3, <6>1
        <5> QED BY <5>1, <5>2, <5>3
      <4> QED BY <4>2, <4>3, <4>4
    <3>10. RunInv'
      BY <3>1, <3>4, <3>5, <3>6, <3>7, <3>9 DEF RunInv
    <3> QED BY <2>6, <2>7, <3>3, <3>10 DEF RobustInv
  <2> QED BY <1>4, <2>8, <2>9
<1> QED BY <1>1, <1>3, <1>4 DEF WriteResult

\* A run is killed; a file may be torn.
LEMMA KillRunKeeps ==
    ASSUME RobustInv, KillRun
    PROVE  RobustInv'
<1>1. /\ RobustTypes /\ LedgerInv /\ ManifestInv /\ Running /\ run' = NoRun
      /\ DOMAIN files = Results
  BY DEF RobustInv, KillRun, RobustTypes
<1>2. CASE files' = files
  BY <1>1, <1>2, OverKeeps DEF LedgerInv, ManifestInv, Ledger, Whole
<1>3. CASE Step # "scores" /\ files' = [files EXCEPT ![Target(Step)] = Torn]
  <2>1. Target(Step) \in Results
    BY <1>1, <1>3, NextStep, Targets
  <2>2. \A g \in Results : files'[g] = files[g] \/ "torn" \in DOMAIN files'[g]
    BY <1>1, <1>3, <2>1 DEF Torn
  <2>3. LedgerInv' /\ ManifestInv'
    BY <1>1, <2>2, Targets DEF LedgerInv, ManifestInv, Ledger, Whole
  <2>4. DOMAIN files' = Results
    BY <1>1, <1>3
  <2> QED BY <1>1, <2>3, <2>4, OverKeeps
<1> QED BY <1>2, <1>3 DEF KillRun

\* Every step keeps the invariant.
LEMMA RobustInvStep == RobustInv /\ [RobustNext]_robustVars => RobustInv'
<1> SUFFICES ASSUME RobustInv, [RobustNext]_robustVars PROVE RobustInv'
  OBVIOUS
<1>1. ASSUME NEW flags, StartRun(flags) PROVE RobustInv'
  BY <1>1, StartRunKeeps
<1>2. CASE TakeScores
  BY <1>2, TakeScoresKeeps
<1>3. CASE WriteResult
  BY <1>3, WriteResultKeeps
<1>4. CASE KillRun
  BY <1>4, KillRunKeeps
<1>5. ASSUME UNCHANGED << files, run >> PROVE RobustInv'
  BY <1>5 DEF RobustInv, RobustTypes, LedgerInv, ManifestInv, RunInv, Extended, Ahead, Ledger,
              Whole
<1>6. CASE ChangePacket \/ ChangeConfig \/ UNCHANGED robustVars
  BY <1>5, <1>6 DEF ChangePacket, ChangeConfig, robustVars
<1> QED BY <1>1, <1>2, <1>3, <1>4, <1>6 DEF RobustNext

\* The invariant of the robustness study.
THEOREM RobustInvariant == RobustSpec => []RobustInv
BY RobustInvInit, RobustInvStep, PTL DEF RobustSpec

\* A study that verifies publishes scores of a packet that passed its audit, and
\* extensions of one packet and one configuration (VerifiedHeadlinesAgree), however
\* many runs, in whatever modes, were killed and mixed.
THEOREM VerifiedHeadlinesAlwaysAgree == RobustSpec => []VerifiedHeadlinesAgree
<1>1. ASSUME RobustInv, StudyVerifies PROVE VerifiedHeadlinesAgree
  <2> DEFINE m == files["manifest"]
  <2>1. /\ Whole("manifest") /\ Whole("oof_predictions")
        /\ ConfigHolds /\ OutputsHold /\ StatisticsHold /\ HeterogeneityHolds
        /\ FoldsKnown(files["negative_controls"])
    BY <1>1 DEF StudyVerifies, Opened, ControlsHold, FoldsKnown
  <2>2. Ledger.scores \notin Leaking
    BY <1>1, <2>1 DEF RobustInv, LedgerInv
  <2>3. \A f \in {"oof_predictions", "negative_controls"} \cup Late : m.outputs[f] = files[f]
    BY <2>1, Targets DEF OutputsHold
  <2>4. PICK p : OneRun(m.outputs, p, m.config)
    BY <1>1, <2>1, <2>3 DEF RobustInv, ManifestInv
  <2>5. m.config = input.config
    BY <2>1 DEF ConfigHolds
  <2>6. /\ \A f \in Late : files[f].data = p /\ files[f].config = input.config
        /\ files["negative_controls"].shuffled = p
        /\ files["missingness_ablation"].scores = Ledger.scores
    <3>1. \A f \in Late : m.outputs[f].data = p /\ m.outputs[f].config = m.config
      BY <2>4 DEF OneRun, Stems
    <3>2. /\ m.outputs["negative_controls"].shuffled = p
          /\ m.outputs["missingness_ablation"].scores = m.outputs["oof_predictions"].scores
      BY <2>4 DEF OneRun
    <3>3. "missingness_ablation" \in Late
      BY DEF Late
    <3> QED BY <2>3, <2>5, <3>1, <3>2, <3>3 DEF Ledger
  <2>7. /\ SameLabels(files["sector_heterogeneity"].data, Ledger.data)
        /\ SameLabels(files["sector_heterogeneity"].data, input.packet)
        /\ SameLabels(files["statistical_tests"].data, Ledger.data)
        /\ files["statistical_tests"].scores = Ledger.scores
    BY <2>1 DEF StatisticsHold, HeterogeneityHolds
  <2>8. \A f \in Late : SameLabels(files[f].data, input.packet)
    BY <2>6, <2>7 DEF Late
  <2>9. /\ SameLabels(files["oof_predictions"].data, input.packet)
        /\ SameLabels(files["statistical_tests"].data, input.packet)
    BY <2>7 DEF SameLabels, Ledger
  <2> QED BY <2>2, <2>6, <2>7, <2>8, <2>9 DEF VerifiedHeadlinesAgree, Late
<1>2. RobustInv => VerifiedHeadlinesAgree
  BY <1>1 DEF VerifiedHeadlinesAgree
<1> QED BY <1>2, RobustInvariant, PTL
=============================================================================

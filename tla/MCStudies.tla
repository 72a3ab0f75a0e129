----------------------------- MODULE MCStudies -----------------------------
(* The studies on the frozen cohort: E4 with its cohort, its batches for a *)
(* local model and its commands, and its robustness study E4-R with the    *)
(* audit, the nested loop and the runs.  A behaviour runs one of the parts.*)
EXTENDS StagedStudy, AgentBatches, CohortSelection, RobustnessStudy, NestedCV

\* Agent batches: two representations and three cases; the second            
\* representation is dearer, so that its cases fill two batches.
MCRepresentations == << "A0", "A2" >>
MCTokens(r, cases) == Cardinality(cases) + IF r = "A2" THEN Cardinality(cases) + Cardinality(cases \cap {1}) ELSE 0

\* Filings by accession.  Company 1 filed three times: an amendment first, then
\* two originals of which the earlier one lacks comparatives only in part.
Row(company, sector, filed, original, now, before) ==
    [company |-> company, sector |-> sector, filed |-> filed, original |-> original,
     inWindow |-> TRUE, financial |-> FALSE, current |-> now, before |-> before]
Good == << [near |-> TRUE, gap |-> 1, fields |-> {"revenue"}],
           [near |-> TRUE, gap |-> 0, fields |-> {"cash", "short_debt", "long_debt"}] >>
Stale == << [near |-> FALSE, gap |-> 0, fields |-> {"revenue"}] >>
Full == {"ratio", "revenue", "short_debt", "long_debt"}
MCFilings ==
    << Row(1, 1, 1, FALSE, Full, Good), Row(1, 1, 3, TRUE, Full, Good),
       Row(1, 1, 2, TRUE, Full, Good), Row(2, 1, 1, TRUE, Full, Good),
       Row(3, 1, 2, TRUE, Full, Good), Row(4, 2, 2, TRUE, Full, Good),
       Row(4, 2, 1, TRUE, Full, Stale), Row(5, 2, 1, TRUE, Full, Good),
       Row(6, 3, 1, TRUE, Full, Good), Row(7, 3, 1, TRUE, Full, Good) >>
MCBarred == {7}
MCRanks == [cohort |-> << 4, 2, 7, 1, 3, 5, 6 >>, agent |-> << 1, 5, 2, 7, 6, 4, 3 >>,
            stability |-> << 7, 6, 5, 4, 3, 2, 1 >>]

\* Packets: the second has other labels, the third the same and a leak.
MCLabels == << 1, 2, 1 >>

\* Four observations that pass the audit, and ten ways for the last to fail it
\* or to look as if.
Observed(c) ==
    [company |-> c, cik |-> c, accession |-> c, facts |-> {1, 2}, period |-> 2,
     previous |-> 1, cutoff |-> 3, outcome |-> 4, window |-> 5, named |-> FALSE,
     columns |-> IF c = 1 THEN {1} ELSE {1, 2}]
Sound == [c \in 1 .. 4 |-> Observed(c)]
MCDatasets ==
    {Sound} \cup
    {[Sound EXCEPT ![4] = o] : o \in
        {[Observed(4) EXCEPT !.company = 1], [Observed(4) EXCEPT !.cik = 1],
         [Observed(4) EXCEPT !.accession = 1], [Observed(4) EXCEPT !.facts = {3}],
         [Observed(4) EXCEPT !.period = 4], [Observed(4) EXCEPT !.previous = 2],
         [Observed(4) EXCEPT !.outcome = 0], [Observed(4) EXCEPT !.outcome = 6],
         [Observed(4) EXCEPT !.outcome = 3], [Observed(4) EXCEPT !.named = TRUE]}}

MCGrid == << "a", "b" >>

VARIABLE part

vars == << part, stagedVars, batchVars, cohortVars, robustVars, cvVars >>

StudiesInit ==
    /\ part \in {"stages", "batches", "cohort", "robustness", "folds"}
    /\ StagedInit /\ BatchesInit /\ CohortInit
    /\ RobustInit
    /\ CVInit
    /\ part # "folds" => data = Sound /\ folds = [c \in 1 .. 4 |-> IF c = 4 THEN 3 ELSE c]

Stages(A) ==
    /\ part = "stages" /\ A
    /\ UNCHANGED << part, batchVars, cohortVars, robustVars, cvVars >>
InBatches ==
    /\ part = "batches" /\ BatchesNext
    /\ UNCHANGED << part, stagedVars, cohortVars, robustVars, cvVars >>
InCohort ==
    /\ part = "cohort" /\ CohortNext
    /\ UNCHANGED << part, stagedVars, batchVars, robustVars, cvVars >>
InRobustness ==
    /\ part = "robustness" /\ RobustNext
    /\ UNCHANGED << part, stagedVars, batchVars, cohortVars, cvVars >>
InFolds ==
    /\ part = "folds" /\ CVNext
    /\ UNCHANGED << part, stagedVars, batchVars, cohortVars, robustVars >>

StudiesNext == Stages(StagedNext) \/ InBatches \/ InCohort \/ InRobustness \/ InFolds

\* `all` is started again and again, in either container, and somebody clears up
\* after a killed command and verifies the replay.
StudiesSpec ==
    /\ StudiesInit /\ [][StudiesNext]_vars
    /\ WF_vars(Stages(WriteFile)) /\ WF_vars(Stages(Advance)) /\ WF_vars(Stages(Remount))
    /\ SF_vars(Stages(StartAll))
    /\ SF_vars(Stages(StartOver)) /\ SF_vars(Stages(Start(VerifyAgentReplay)))

\* StudyFinishesUnlessDoomed, of the part that runs the stages.
StudyFinishes == (part = "stages") ~> (stage = Stage("README_RENDERED") \/ Doomed)
=============================================================================

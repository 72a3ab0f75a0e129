---------------------------- MODULE MCResearch ----------------------------
(* The parts of the research programme that keep files for years, side by  *)
(* side: a small study (two contents per input, two families of two blocks *)
(* with ties and a failed fit, two machines), a freeze chain of four       *)
(* stages, protocol, cohort, prediction and unlock, and the two ways data  *)
(* get into the corpora.  A behaviour runs one of them.                    *)
EXTENDS StudyArtifacts, FreezeChain, SecAcquisition, SecCorpus, Integers, Sequences, FiniteSets, SequencesExt

VARIABLE part

\* The first config leaves the raw agent unresolved.
MCIdentity(v) == IF v = 1 THEN Null ELSE "selected"

MCVersions == {1, 2}
MCFamilies == {"logistic", "boosting"}
MCBlocks == {"V", "VO"}
MCFamilyRank == [f \in MCFamilies |-> IF f = "logistic" THEN 0 ELSE 1]
MCBlockRank == [b \in MCBlocks |-> IF b = "V" THEN 0 ELSE 1]
MCFailed == [auroc |-> 0, prauc |-> 0, failed |-> TRUE]

\* The second configuration lists one more logistic parameter.
MCGrid(v, f) == IF f = "logistic" /\ v = 2 THEN {1, 2, 3} ELSE {1, 2}

\* Parameters 1 and 2 tie for boosting; the second seed fails one fit.
MCInner(b, c, p) ==
    IF c[1] = "logistic" /\ p = 1 /\ b["run_config"] = 2 THEN MCFailed
    ELSE [auroc |-> IF c[1] = "boosting" THEN 5 ELSE p,
          prauc |-> 3, failed |-> FALSE]

\* The two boosting candidates tie on AUROC under the first seed, and the
\* logistic ones on both metrics under the second.
MCOuter(b, c) ==
    [auroc |-> IF c[1] = "boosting" /\ b["run_config"] = 1 THEN 8 ELSE 6,
     prauc |-> IF c[2] = "VO" /\ b["run_config"] = 1 THEN 5 ELSE 4,
     failed |-> FALSE]

MCMachines == {"windows", "linux"}
MCWindows == {"windows"}
MCGenerationLock == {"windows"}
MCLibraries(m) == "pinned"

-----------------------------------------------------------------------------
(* Documents fetched one by one, by two processes over one cache, and five  *)
(* quarters of bulk archives of one company.                                *)

\* The first process acquires three observations, two of one company; the other
\* fetches the same documents.
Job(key, observation) == [key |-> key, observation |-> observation]
SomeJobs == << << Job(1, 1), Job(2, 2), Job(2, 3) >>, << Job(2, 0), Job(1, 0) >> >>

\* A year has 40 days; the fiscal year 0 ends at day 39 and is filed at day 52.
DayYear(day) == day \div 40

Row(field, ddate, val) ==
    [field |-> field, tag |-> 1, plain |-> TRUE, ddate |-> ddate, qtrs |-> 4, val |-> val]
Instant(field, ddate, val) == [Row(field, ddate, val) EXCEPT !.qtrs = 0]

AnnualReport(accn, fy, filed, income, assets) ==
    LET end == 40 * fy + 39 IN
    [accn |-> accn, company |-> 1, fy |-> fy, form |-> "10-K", period |-> end,
     filed |-> filed, accepted |-> filed,
     rows |-> << Instant("total_assets", end, assets),
                 Instant("short_term_debt", end, 20), Instant("long_term_debt", end, 20),
                 [Row("net_income", end, -9) EXCEPT !.plain = FALSE],
                 [Row("net_income", end, 1) EXCEPT !.tag = 2],
                 Row("net_income", end, income) >>]

\* In the first year everything is reported but, perhaps, the debt.
FirstYear ==
    LET report == AnnualReport(1, 0, 52, 5, 100)
        more == << Row("revenue", 39, 100), Row("operating_cash_flow", 39, 8) >>
    IN {<< [report EXCEPT !.rows = @ \o more] >>,
        << [report EXCEPT !.rows = SubSeq(@, 4, 6) \o more] >>}

\* In the second year an item is well, is not, or is not there; the assets have
\* shrunk where revenue is not reported.
SecondYear(accn, filed) ==
    {<< [AnnualReport(accn, 1, filed, income, IF revenue = << >> THEN 60 ELSE 100) EXCEPT
           !.rows = @ \o revenue \o flow \o << Row("capital_expenditure", 79, 7) >>] >> :
        income \in {5, -1},
        revenue \in {<< >>, << Row("revenue", 79, 100) >>, << Row("revenue", 79, 90) >>},
        flow \in {<< >>, << Row("operating_cash_flow", 79, 8) >>,
                  << Row("operating_cash_flow", 79, 6) >>}}

\* A quarter's flows for a quarter and for the year so far, or not at all.
Quarter(accn, day, filed) ==
    {<< >>} \cup
    {<< [accn |-> accn, company |-> 1, fy |-> 1, form |-> "10-Q", period |-> day,
         filed |-> filed, accepted |-> filed - 1,
         rows |-> flows \o << Row("capital_expenditure", day, 2) >>] >> :
        flows \in {<< >>} \cup
            {<< [Row("operating_cash_flow", day, 9) EXCEPT !.qtrs = 1],
                [Row("operating_cash_flow", day, flow) EXCEPT !.qtrs = 2] >> : flow \in {1, 3}}}

\* The third quarter's report may come after that of the year.
SomeArchives ==
    << FirstYear, Quarter(2, 49, 60), Quarter(3, 59, 70), {<< >>} \cup SecondYear(5, 84),
       {<< AnnualReport(7, 1, 95, -1, 60) >>} \cup Quarter(8, 69, 91) >>

\* A company's facts as the SEC lists them: the years before come first.
FactEntry(field, end, val) ==
    [company |-> 1, field |-> field, tag |-> 1, fy |-> 1, end |-> end, filed |-> 84,
     accn |-> 5, plain |-> TRUE, val |-> val]
SomeFactArchives ==
    {<< FactEntry("revenue", 79, 90), FactEntry("net_income", 79, 5) >>,
     << FactEntry("revenue", 39, 100), FactEntry("revenue", 79, 90),
        FactEntry("net_income", 39, 4), FactEntry("net_income", 79, 5) >>}

SomePlan == {[company |-> 1, fy |-> 0], [company |-> 1, fy |-> 1]}

-----------------------------------------------------------------------------
ResearchInit ==
    /\ part \in {"study", "freeze", "fetching", "bulk"}
    /\ StudyInit /\ FreezeInit
    /\ part # "freeze" => tree["config"] = 1
    /\ SecInit /\ CorpusInit

StudyPart ==
    /\ part = "study" /\ StudyNext
    /\ UNCHANGED << freezeVars, secVars, corpusVars, part >>
FreezePart ==
    /\ part = "freeze" /\ FreezeNext
    /\ UNCHANGED << studyVars, secVars, corpusVars, part >>
FetchingPart ==
    /\ part = "fetching" /\ SecNext
    /\ UNCHANGED << studyVars, freezeVars, corpusVars, part >>
BulkPart ==
    /\ part = "bulk" /\ CorpusNext
    /\ UNCHANGED << studyVars, freezeVars, secVars, part >>

ResearchNext == StudyPart \/ FreezePart \/ FetchingPart \/ BulkPart
ResearchSpec ==
    ResearchInit
      /\ [][ResearchNext]_<< studyVars, freezeVars, secVars, corpusVars, part >>
=============================================================================

-------------------------- MODULE MCAssuranceRuntime --------------------------
(***************************************************************************)
(* The checked instance: two risk dimensions, up to two rules and one      *)
(* disclosure tension, three pieces of evidence, the checked-in decision   *)
(* policy, and four assurance policies that differ where the code          *)
(* branches.  A score of each band is drawn: 30 passes, 55 is elevated     *)
(* (two reach the flag score by the uplift), 85 flags; 30 and 85 disagree. *)
(*                                                                         *)
(* A behaviour runs the assurance, or one of the parts of MCFilings, which *)
(* come before it.                                                         *)
(***************************************************************************)
EXTENDS AssuranceRuntime, MCFilings

MCDecisionPolicy ==
    [ minimumCoverage |-> 40, maximumDisagreement |-> 45, flag |-> 60,
      review |-> 40, elevated |-> 50, uplift |-> 5, upliftCap |-> 15 ]

\* config/assurance_policy.json
Default ==
    [ maturity |-> "HEURISTIC_POLICY", minimumCoverage |-> 40,
      maximumDisagreement |-> 45, sensitiveDelta |-> 10, fragileDelta |-> 20,
      maximumExact |-> 12, requireReference |-> TRUE,
      requireCalibration |-> TRUE, reviewUnknownDistribution |-> TRUE,
      reviewNotEstimable |-> TRUE ]

Stricter == [Default EXCEPT !.fragileDelta = 5, !.sensitiveDelta = 5]

Mature == [Default EXCEPT !.maturity = "VALIDATED_EXTERNAL",
                          !.requireCalibration = FALSE,
                          !.reviewUnknownDistribution = FALSE]

Permissive == [Default EXCEPT !.maturity = "CALIBRATED_INTERNAL",
                              !.maximumExact = 2, !.requireReference = FALSE,
                              !.reviewNotEstimable = FALSE]

MCPolicies == {Default, Stricter, Mature, Permissive}

(***************************************************************************)
(* Paths: a reason code is absent, cites unverified evidence, or cites     *)
(* verified evidence.  The first rule is in the first dimension: the       *)
(* dimensions are interchangeable.                                         *)
(***************************************************************************)
Path(reason, kind, dim, ids) ==
    [reason |-> reason, kind |-> kind, dim |-> dim, ids |-> ids, verified |-> ids # {}]

PathChoices(reason, kind, dims, cited) ==
    {{}} \cup {{Path(reason, kind, dim, ids)} : dim \in dims, ids \in cited}

Scored(paths, first, second) ==
    { [reason |-> p.reason, kind |-> p.kind, dim |-> p.dim, ids |-> p.ids,
       verified |-> p.verified, score |-> IF p.dim = 1 THEN first ELSE second] : p \in paths }

PathSets(cited1, cited2, citedT, points) ==
    { Scored(a \cup b \cup t, first, second) :
        a \in PathChoices("rule1", "rule", {1}, cited1),
        b \in PathChoices("rule2", "rule", {1, 2}, cited2),
        t \in PathChoices("tension", "tension", {2}, citedT),
        first \in points, second \in points }

AssessmentsOf(pathSets, references, narratives) ==
    { a \in [ route : Routes, paths : pathSets, covered : BOOLEAN,
              narrative : narratives, reference : references ] : IsAssessment(a) }

\* reference observations, one for each way through the distribution check
Inside == [ evaluated |-> 4, outside |-> 0, tolerated |-> 25, sectorOutside |-> FALSE,
            availabilityOutside |-> FALSE, missingRequired |-> FALSE, bounded |-> TRUE ]

References ==
    { None, Inside,
      [Inside EXCEPT !.outside = 1], [Inside EXCEPT !.outside = 2],
      [Inside EXCEPT !.sectorOutside = TRUE],
      [Inside EXCEPT !.availabilityOutside = TRUE],
      [Inside EXCEPT !.missingRequired = TRUE],
      [Inside EXCEPT !.evaluated = 0],
      [Inside EXCEPT !.evaluated = 0, !.bounded = FALSE] }

\* the mature policy sees every way evidence can support a decision; every
\* policy sees every reference, and evidence for both dimensions
Wide == AssessmentsOf(PathSets({{}, {1}, {1, 2}}, {{}, {1}, {2, 3}}, {{}, {3}}, {30, 55, 85}),
                      {Inside}, {"usable"})

Narrow == AssessmentsOf(PathSets({{1}}, {{}, {2}}, {}, {30, 85}), References, {"usable"})

\* without a usable narrative there are no tensions
Unread == AssessmentsOf(PathSets({{}, {1}, {1, 2}}, {{}, {1}, {2}}, {}, {30, 85}),
                        {Inside}, Narratives \ {"usable"})

MCAssessments ==
    [p \in MCPolicies |-> IF p = Mature THEN Wide \cup Narrow \cup Unread ELSE Narrow]

AnalysisInit ==
    \/ part = "assurance" /\ Init /\ payload = << >> /\ NoTable /\ NoCalculation
    \/ FilingsInit /\ Init /\ policy = Default

InAssurance == part = "assurance" /\ Next /\ UNCHANGED filingsVars
InFilings == FilingsNext /\ UNCHANGED vars

AnalysisSpec == AnalysisInit /\ [][InAssurance \/ InFilings]_<< vars, filingsVars >>
=============================================================================

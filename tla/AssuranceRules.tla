--------------------------- MODULE AssuranceRules ---------------------------
(***************************************************************************)
(* The two halves of the assurance runtime, written separately in the code *)
(* and here: the engine, which issues a result for a proposal, and the     *)
(* verifier, which decides from a recorded result alone whether it could   *)
(* have been issued.                                                       *)
(*                                                                         *)
(* A path is one material decision path after exact duplicates have been   *)
(* dropped: its reason code, risk dimension, dimension score, the evidence *)
(* identifiers it cites, and whether its provenance is verified.  Evidence *)
(* identifiers are numbers, in the order the code sorts them.  Hashes are  *)
(* what they identify: a policy hash is the policy.                        *)
(***************************************************************************)
EXTENDS DispositionRules, Sequences

CONSTANTS
    MaxEvidence, \* evidence identifiers are 1..MaxEvidence
    NoPolicy     \* verification without an expected policy

Evidence == 1..MaxEvidence

ASSUME EvidenceAssumption == MaxEvidence \in Nat \ {0}

Maturities == {"HEURISTIC_POLICY", "CALIBRATED_INTERNAL", "VALIDATED_EXTERNAL"}

Calibrations == {"UNCALIBRATED", "CALIBRATED_INTERNAL", "VALIDATED_EXTERNAL"}

AssurancePolicy ==
    [ maturity : Maturities, minimumCoverage : 0..100,
      maximumDisagreement : 0..100, sensitiveDelta : Nat, fragileDelta : Nat,
      maximumExact : Nat, requireReference : BOOLEAN,
      requireCalibration : BOOLEAN, reviewUnknownDistribution : BOOLEAN,
      reviewNotEstimable : BOOLEAN ]

(***************************************************************************)
(* Evidence assurance.                                                     *)
(***************************************************************************)
\* mutant: a path that lost its evidence leaves the denominator too
Without_Drops(paths, removed) ==
    {p \in paths : p.ids \cap removed = {}}

\* The material paths once the evidence in removed is gone.  What a path that is
\* not verified cites is never read, and left out.
Without(paths, removed) ==
    { IF p.ids \cap removed = {} THEN p ELSE [p EXCEPT !.ids = {}, !.verified = FALSE] :
      p \in paths }

Verified(paths) == {p \in paths : p.verified}

\* the identifiers cited by verified paths, the nodes of the ablation
Nodes(paths) == UNION {p.ids : p \in Verified(paths)}

Covers(part, whole, percent) == whole > 0 /\ part * 100 >= percent * whole

AssessEvidence(paths, minimum) ==
    LET material == Cardinality(paths)
        verified == Cardinality(Verified(paths))
    IN  [ state |-> IF material = 0 THEN "UNKNOWN"
                    ELSE IF verified = 0 THEN "INSUFFICIENT"
                    ELSE IF ~Covers(verified, material, minimum) \/ verified < material
                    THEN "PARTIAL" ELSE "VERIFIED",
          material |-> material,
          verified |-> verified,
          ids |-> Nodes(paths) ]

(***************************************************************************)
(* Fragility: remove one piece of evidence at a time and fuse again.       *)
(***************************************************************************)
DimensionScores(paths) ==
    [ d \in {p.dim : p \in paths} |-> Max({p.score : p \in {q \in paths : q.dim = d}}) ]

\* _recompute over the paths whose evidence is all in retained
Retained(paths, retained) == {p \in Verified(paths) : p.ids \subseteq retained}

RecomputedScore(paths, retained) ==
    AggregateScore(DimensionScores(Retained(paths, retained)))

RecomputedDecision(paths, retained) ==
    FusedDecision(DimensionScores(Retained(paths, retained)),
                  Covers(Cardinality(Retained(paths, retained)), Cardinality(paths),
                         DecisionPolicy.minimumCoverage))

Distance(a, b) == IF a >= b THEN a - b ELSE b - a

Ablations(paths, score) ==
    [ e \in Nodes(paths) |->
        LET rest == Nodes(paths) \ {e}
            after == RecomputedScore(paths, rest)
        IN  [ decision |-> RecomputedDecision(paths, rest),
              impact |-> IF score = None \/ after = None
                         THEN None ELSE Distance(after, score) ] ]

\* mutant: only ablations that end in ABSTAIN count as flips
Flips_Abstentions(ablations, proposed) ==
    Cardinality({e \in DOMAIN ablations :
        ablations[e].decision = "ABSTAIN" /\ proposed # "ABSTAIN"})

Flips(ablations, proposed) ==
    Cardinality({e \in DOMAIN ablations : ablations[e].decision # proposed})

LargestImpact(ablations) ==
    LET impacts == {ablations[e].impact : e \in DOMAIN ablations} \ {None}
    IN  IF impacts = {} THEN None ELSE Max(impacts)

Exceeds(impact, delta) == impact # None /\ impact >= delta

AnalyzeFragility(paths, score, proposed, policy) ==
    LET ablations == Ablations(paths, score)
        flips == Flips(ablations, proposed)
        largest == LargestImpact(ablations)
    IN  [ state |-> IF Nodes(paths) = {} THEN "NOT_ESTIMABLE"
                    ELSE IF flips > 0 \/ Exceeds(largest, policy.fragileDelta)
                    THEN "FRAGILE"
                    ELSE IF Exceeds(largest, policy.sensitiveDelta)
                    THEN "SENSITIVE" ELSE "STABLE",
          ablations |-> ablations, flips |-> flips, largest |-> largest ]

(***************************************************************************)
(* Decision-sufficient evidence: the exact search tries the subsets of the *)
(* nodes by size, then in the order of itertools.combinations; above the   *)
(* policy's ceiling one greedy pass drops what the decision can spare.     *)
(***************************************************************************)
\* S comes before T in the exact search
Precedes(S, T) ==
    \/ Cardinality(S) < Cardinality(T)
    \/ /\ Cardinality(S) = Cardinality(T)
       /\ S # T
       /\ Min(SymDiff(S, T)) \in S

Preserving(paths, proposed) ==
    { S \in (SUBSET Nodes(paths)) \ {{}} : RecomputedDecision(paths, S) = proposed }

ExactSufficient(paths, proposed) ==
    LET nodes == Nodes(paths)
        preserving == Preserving(paths, proposed)
        first == CHOOSE S \in preserving : \A T \in preserving \ {S} : Precedes(S, T)
    IN  IF preserving = {}
        THEN [ method |-> "EXACT", ids |-> nodes, preserves |-> FALSE,
               evaluated |-> Cardinality(SUBSET nodes) ]
        ELSE [ method |-> "EXACT", ids |-> first, preserves |-> TRUE,
               evaluated |-> 1 + Cardinality({ S \in (SUBSET nodes) \ {{}} : Precedes(S, first) }) ]

GreedySufficient(paths, proposed) ==
    LET Trial(kept, e) == IF e \in kept /\ kept # {e} THEN kept \ {e} ELSE kept
        kept[i \in 0..MaxEvidence] ==
          IF i = 0 THEN Nodes(paths)
          ELSE IF RecomputedDecision(paths, Trial(kept[i-1], i)) = proposed
               THEN Trial(kept[i-1], i) ELSE kept[i-1]
        tried == {i \in Nodes(paths) : Trial(kept[i-1], i) # kept[i-1]}
    IN  [ method |-> "GREEDY_APPROXIMATION", ids |-> kept[MaxEvidence],
          preserves |-> RecomputedDecision(paths, kept[MaxEvidence]) = proposed,
          evaluated |-> Cardinality(tried) + 1 ]

\* mutant: the ceiling of the exact search is exclusive
SufficientEvidence_Exclusive(paths, proposed, policy) ==
    IF Nodes(paths) = {}
    THEN [ method |-> "NOT_ESTIMABLE", ids |-> {}, preserves |-> FALSE, evaluated |-> 0 ]
    ELSE IF Cardinality(Nodes(paths)) < policy.maximumExact
    THEN ExactSufficient(paths, proposed)
    ELSE GreedySufficient(paths, proposed)

SufficientEvidence(paths, proposed, policy) ==
    IF Nodes(paths) = {}
    THEN [ method |-> "NOT_ESTIMABLE", ids |-> {}, preserves |-> FALSE, evaluated |-> 0 ]
    ELSE IF Cardinality(Nodes(paths)) <= policy.maximumExact
    THEN ExactSufficient(paths, proposed)
    ELSE GreedySufficient(paths, proposed)

(***************************************************************************)
(* Distribution validity of an observation against a reference profile:    *)
(* how many bounded features could be evaluated and how many lie outside,  *)
(* the fraction the profile tolerates, and what else is out of scope.      *)
(***************************************************************************)
AssessDistribution(reference) ==
    IF reference = None
    THEN [ state |-> "UNKNOWN", named |-> FALSE, evaluated |-> 0, outside |-> 0 ]
    ELSE [ state |->
             IF \/ reference.sectorOutside
                \/ reference.outside * 100 > reference.tolerated * reference.evaluated
             THEN "OUTSIDE_REFERENCE"
             ELSE IF \/ reference.availabilityOutside
                     \/ reference.outside > 0
                     \/ reference.missingRequired
             THEN "WARNING"
             ELSE IF reference.evaluated = 0 /\ reference.bounded
             THEN "UNKNOWN" ELSE "IN_REFERENCE",
           named |-> TRUE,
           evaluated |-> reference.evaluated,
           outside |-> reference.outside ]

=============================================================================

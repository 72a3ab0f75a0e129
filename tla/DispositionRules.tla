-------------------------- MODULE DispositionRules --------------------------
(***************************************************************************)
(* How the calculation layer arrives at a proposal: fusion of the          *)
(* dimension scores, the failure-aware escalation and the critic.  Scores  *)
(* and thresholds are whole points out of 100, ratios whole percentages.   *)
(***************************************************************************)
EXTENDS Integers, FiniteSets, FiniteSetsExt

CONSTANTS
    DecisionPolicy, \* config/decision_policy.json
    None            \* Python's None

Decisions == {"PASS", "FLAG", "REVIEW", "ABSTAIN"}

ASSUME DecisionPolicyAssumption ==
    /\ DecisionPolicy \in [ minimumCoverage : 0..100,
                            maximumDisagreement : 0..100,
                            flag : Nat, review : Nat, elevated : Nat,
                            uplift : Nat, upliftCap : Nat ]
    /\ None \notin Int
    /\ None \notin Decisions

\* Scores below s, none of them below 0, deviate by s / 2 at most and disagree by
\* s / 100: those that all pass agree (review_score 40, maximum_disagreement 0.45).
ASSUME PassingScoresAgree == DecisionPolicy.review <= DecisionPolicy.maximumDisagreement

DispositionRank ==
    [ PASS |-> 0, FLAG |-> 1, REVIEW |-> 2, ABSTAIN |-> 3 ]

\* a is at least as cautious a disposition as b
AtLeast(a, b) == DispositionRank[a] >= DispositionRank[b]

(***************************************************************************)
(* min(1, pstdev(values) / 50) >= maximum, for the values of the function  *)
(* scores and a maximum in percent, without the square root:               *)
(* pstdev^2 = (n * sum of squares - square of sum) / n^2.                  *)
(***************************************************************************)
Disagrees(scores, maximum) ==
    LET n == Cardinality(DOMAIN scores)
        Sum == MapThenSumSet(LAMBDA d : scores[d], DOMAIN scores)
        Squares == MapThenSumSet(LAMBDA d : scores[d] * scores[d], DOMAIN scores)
    IN  IF n > 1
        THEN /\ maximum <= 100
             /\ 4 * (n * Squares - Sum * Sum) >= maximum * maximum * n * n
        ELSE maximum = 0

(***************************************************************************)
(* hierarchical_escalation: the highest dimension is the floor, and every  *)
(* further elevated dimension lifts it, up to a cap.                       *)
(***************************************************************************)
Elevated(scores) == {d \in DOMAIN scores : scores[d] >= DecisionPolicy.elevated}

Uplift(scores) ==
    Min({ DecisionPolicy.upliftCap,
          DecisionPolicy.uplift * Max({0, Cardinality(Elevated(scores)) - 1}) })

\* mutant: the aggregate is an average
AggregateScore_Mean(scores) ==
    IF DOMAIN scores = {}
    THEN None
    ELSE MapThenSumSet(LAMBDA d : scores[d], DOMAIN scores) \div Cardinality(DOMAIN scores)

AggregateScore(scores) ==
    IF DOMAIN scores = {}
    THEN None
    ELSE Min({100, Max({scores[d] : d \in DOMAIN scores}) + Uplift(scores)})

\* _final; covered: the evidence coverage reaches the policy's minimum
FusedDecision(scores, covered) ==
    LET score == AggregateScore(scores)
    IN  IF score = None \/ ~covered THEN "ABSTAIN"
        ELSE IF Disagrees(scores, DecisionPolicy.maximumDisagreement) THEN "REVIEW"
        ELSE IF score >= DecisionPolicy.flag THEN "FLAG"
        ELSE IF score >= DecisionPolicy.review THEN "REVIEW"
        ELSE "PASS"

(***************************************************************************)
(* failure_aware_proposal: failures may only move a decision up.           *)
(***************************************************************************)
BlockingFailures == {"parser_failure", "stale_data", "missing_evidence"}

ReviewFailures ==
    {"conflicting_evidence", "llm_unavailable", "rule_model_contradiction"}

\* mutant: a failure replaces the decision instead of raising it
FailureAwareProposal_Overwrites(decision, failures) ==
    IF failures \cap BlockingFailures # {} THEN "ABSTAIN"
    ELSE IF failures # {} THEN "REVIEW" ELSE decision

FailureAwareProposal(decision, failures) ==
    LET fromFailures == IF failures \cap BlockingFailures # {} THEN "ABSTAIN"
                        ELSE IF failures # {} THEN "REVIEW" ELSE decision
    IN  IF AtLeast(fromFailures, decision) THEN fromFailures ELSE decision

\* the critic recommends REVIEW, and never softens what is already stronger
ReviewedProposal(decision, rejected) ==
    IF rejected /\ ~AtLeast(decision, "REVIEW") THEN "REVIEW" ELSE decision

=============================================================================

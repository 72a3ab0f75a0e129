--------------------------- MODULE AssuranceEngine ---------------------------
(***************************************************************************)
(* AssuranceEngine.evaluate and the verifier of the results it issues      *)
(* (verify_assurance_payload with verify_structures and                    *)
(* verify_transition).  The engine sees the paths and the scores; the      *)
(* verifier sees only the recorded result, and rebuilds from it what the   *)
(* engine must have concluded.                                             *)
(***************************************************************************)
EXTENDS AssuranceRules

\* what a finding, when it is made, adds: the reason given, and what it blocks
Finding(made, reason, blockers) ==
    IF made THEN [reasons |-> <<reason>>, blockers |-> blockers]
    ELSE [reasons |-> <<>>, blockers |-> <<>>]

\* one finding after the other, appended to both lists
f ++ g == [ reasons |-> f.reasons \o g.reasons, blockers |-> f.blockers \o g.blockers ]

Listed(x, sequence) == \E i \in DOMAIN sequence : sequence[i] = x

(***************************************************************************)
(* The engine.  value: the proposal, its score and dimension scores, the   *)
(* paths, the reference, the calibration status and the runtime failures.  *)
(***************************************************************************)
EngineFindings(value, evidence, fragility, distribution, policy) ==
       Finding(evidence.state # "VERIFIED", "INSUFFICIENT_VERIFIED_EVIDENCE", <<"evidence">>)
    ++ Finding(fragility.state = "FRAGILE", "EVIDENCE_FRAGILITY_HIGH", <<"fragility">>)
    ++ Finding(fragility.state = "NOT_ESTIMABLE" /\ policy.reviewNotEstimable,
               "EVIDENCE_FRAGILITY_NOT_ESTIMABLE", <<"fragility_unknown">>)
    ++ Finding(distribution.state = "OUTSIDE_REFERENCE",
               "OUTSIDE_VALIDATED_DISTRIBUTION", <<"distribution">>)
    ++ Finding(distribution.state = "UNKNOWN" /\ policy.requireReference,
               "DISTRIBUTION_VALIDITY_UNKNOWN",
               IF policy.reviewUnknownDistribution THEN <<"distribution_unknown">> ELSE <<>>)
    ++ Finding(distribution.state = "WARNING",
               "REPORTING_OBSERVABILITY_ANOMALY", <<"distribution_warning">>)
    ++ Finding(Disagrees(value.scores, policy.maximumDisagreement),
               "HIGH_MODEL_DISAGREEMENT", <<"disagreement">>)
    ++ Finding(value.failures # {}, "RUNTIME_FAILURE_REQUIRES_REVIEW", <<"runtime_failure">>)
    ++ Finding(value.calibration = "UNCALIBRATED", "ASSURANCE_POLICY_UNCALIBRATED", <<>>)
    ++ Finding(value.calibration # "UNCALIBRATED" /\ policy.maturity = "HEURISTIC_POLICY",
               "CALIBRATION_SCOPE_MISMATCH", <<>>)
    ++ Finding(value.proposed = "ABSTAIN", "PROPOSED_DECISION_WITHHELD", <<>>)

FinalDecision(proposed, mustAbstain, blocked) ==
    IF proposed = "ABSTAIN" \/ mustAbstain THEN "ABSTAIN"
    ELSE IF blocked THEN "REVIEW" ELSE proposed

Status(proposed, final, automation) ==
    IF final # proposed THEN "FAILED"
    ELSE IF automation THEN "PASSED" ELSE "RESTRICTED"

Evaluate(value, policy) ==
    LET evidence == AssessEvidence(value.paths, policy.minimumCoverage)
        fragility == AnalyzeFragility(value.paths, value.score, value.proposed, policy)
        distribution == AssessDistribution(value.reference)
        findings == EngineFindings(value, evidence, fragility, distribution, policy)
        blockers == findings.blockers
        final == FinalDecision(value.proposed,
                               \/ evidence.verified = 0
                               \/ value.failures \cap BlockingFailures # {},
                               blockers # <<>>)
        automation == /\ blockers = <<>>
                      /\ final \in {"PASS", "FLAG"}
                      /\ policy.maturity # "HEURISTIC_POLICY"
                      /\ \/ value.calibration # "UNCALIBRATED"
                         \/ ~policy.requireCalibration
    IN  [ proposed |-> value.proposed, final |-> final, automation |-> automation,
          status |-> Status(value.proposed, final, automation),
          evidence |-> evidence, fragility |-> fragility,
          distribution |-> distribution,
          sufficient |-> SufficientEvidence(value.paths, value.proposed, policy),
          maturity |-> policy.maturity, calibration |-> value.calibration,
          reasons |-> findings.reasons, blockers |-> blockers,
          failures |-> value.failures, policy |-> policy ]

(***************************************************************************)
(* The verifier: the parts of a record agree with each other ...           *)
(***************************************************************************)
Expects(policy, condition) == policy # NoPolicy /\ condition

EvidenceIsConsistent(r, policy) ==
    LET e == r.evidence
    IN  /\ e.verified <= e.material
        /\ (e.verified = 0) = (e.ids = {})
        /\ e.state = IF e.material = 0 THEN "UNKNOWN"
                     ELSE IF e.verified = 0 THEN "INSUFFICIENT"
                     ELSE IF \/ e.verified < e.material
                             \/ Expects(policy, ~Covers(e.verified, e.material,
                                                        policy.minimumCoverage))
                     THEN "PARTIAL" ELSE "VERIFIED"

FragilityIsConsistent(r, policy) ==
    LET f == r.fragility
        nodes == r.evidence.ids
    IN  /\ DOMAIN f.ablations = nodes
        /\ \A e \in nodes : nodes = {e} =>
              f.ablations[e].decision = "ABSTAIN" /\ f.ablations[e].impact = None
        /\ f.flips = Flips(f.ablations, r.proposed)
        /\ f.largest = LargestImpact(f.ablations)
        /\ IF nodes = {} THEN f.state = "NOT_ESTIMABLE"
           ELSE IF policy = NoPolicy
           THEN f.state # "NOT_ESTIMABLE" /\ (f.flips > 0 => f.state = "FRAGILE")
           ELSE f.state = IF f.flips > 0 \/ Exceeds(f.largest, policy.fragileDelta)
                          THEN "FRAGILE"
                          ELSE IF Exceeds(f.largest, policy.sensitiveDelta)
                          THEN "SENSITIVE" ELSE "STABLE"

SufficientIsConsistent(r, policy) ==
    LET s == r.sufficient
        nodes == r.evidence.ids
        subsets == Cardinality(SUBSET nodes)
    IN  /\ s.ids \subseteq nodes
        /\ IF nodes = {}
           THEN s = [method |-> "NOT_ESTIMABLE", ids |-> {}, preserves |-> FALSE, evaluated |-> 0]
           ELSE /\ s.method # "NOT_ESTIMABLE" /\ s.ids # {} /\ s.evaluated > 0
                /\ policy # NoPolicy =>
                     ((s.method = "EXACT") = (Cardinality(nodes) <= policy.maximumExact))
                /\ IF s.method # "EXACT" THEN s.evaluated <= Cardinality(nodes) + 1
                   ELSE IF s.preserves THEN s.evaluated <= subsets - 1
                   ELSE s.evaluated = subsets /\ s.ids = nodes

DistributionIsConsistent(r) ==
    LET d == r.distribution
    IN  /\ d.outside <= d.evaluated
        /\ ~d.named => d.state = "UNKNOWN" /\ d.evaluated = 0 /\ d.outside = 0
        /\ ~(d.state = "IN_REFERENCE" /\ d.outside > 0)

(***************************************************************************)
(* ... the decision is one its evidence permits ...                        *)
(***************************************************************************)
DecisionIsPermitted(r, policy) ==
    LET actionable == r.final \in {"PASS", "FLAG"}
        fragile == \/ r.fragility.state = "FRAGILE"
                   \/ r.fragility.state = "NOT_ESTIMABLE"
                      /\ Expects(policy, policy.reviewNotEstimable)
    IN  /\ actionable =>
             /\ r.evidence.state = "VERIFIED"
             /\ r.blockers = <<>> /\ r.failures = {}
             /\ r.distribution.state \notin {"WARNING", "OUTSIDE_REFERENCE"}
             /\ ~(r.distribution.state = "UNKNOWN"
                  /\ Expects(policy, policy.requireReference /\ policy.reviewUnknownDistribution))
        /\ r.evidence.verified = 0 \/ r.proposed = "ABSTAIN" => r.final = "ABSTAIN"
        /\ fragile => ~r.automation /\ ~actionable
        /\ r.automation =>
             /\ actionable
             /\ r.maturity # "HEURISTIC_POLICY"
             /\ ~(r.calibration = "UNCALIBRATED" /\ Expects(policy, policy.requireCalibration))
        /\ r.status = Status(r.proposed, r.final, r.automation)
        /\ r.final # r.proposed => r.final \in {"REVIEW", "ABSTAIN"} /\ ~r.automation
        /\ r.calibration = "UNCALIBRATED" => Listed("ASSURANCE_POLICY_UNCALIBRATED", r.reasons)

(***************************************************************************)
(* ... and the recorded blockers, reasons and decision are those the       *)
(* engine derives.  The disagreement itself is not recorded, so its        *)
(* blocker is believed; without a policy, so are the optional ones.        *)
(***************************************************************************)
VerifierFindings(r, policy) ==
       Finding(r.evidence.state # "VERIFIED", "INSUFFICIENT_VERIFIED_EVIDENCE", <<"evidence">>)
    ++ Finding(r.fragility.state = "FRAGILE", "EVIDENCE_FRAGILITY_HIGH", <<"fragility">>)
    ++ Finding(/\ r.fragility.state = "NOT_ESTIMABLE"
               /\ IF policy = NoPolicy THEN Listed("fragility_unknown", r.blockers)
                  ELSE policy.reviewNotEstimable,
               "EVIDENCE_FRAGILITY_NOT_ESTIMABLE", <<"fragility_unknown">>)
    ++ Finding(r.distribution.state = "OUTSIDE_REFERENCE",
               "OUTSIDE_VALIDATED_DISTRIBUTION", <<"distribution">>)
    ++ Finding(r.distribution.state = "WARNING",
               "REPORTING_OBSERVABILITY_ANOMALY", <<"distribution_warning">>)
    ++ Finding(/\ r.distribution.state = "UNKNOWN"
               /\ IF policy = NoPolicy THEN Listed("DISTRIBUTION_VALIDITY_UNKNOWN", r.reasons)
                  ELSE policy.requireReference,
               "DISTRIBUTION_VALIDITY_UNKNOWN",
               IF IF policy = NoPolicy THEN Listed("distribution_unknown", r.blockers)
                  ELSE policy.reviewUnknownDistribution
               THEN <<"distribution_unknown">> ELSE <<>>)
    ++ Finding(Listed("disagreement", r.blockers), "HIGH_MODEL_DISAGREEMENT", <<"disagreement">>)
    ++ Finding(r.failures # {}, "RUNTIME_FAILURE_REQUIRES_REVIEW", <<"runtime_failure">>)
    ++ Finding(r.calibration = "UNCALIBRATED", "ASSURANCE_POLICY_UNCALIBRATED", <<>>)
    ++ Finding(r.calibration # "UNCALIBRATED" /\ r.maturity = "HEURISTIC_POLICY",
               "CALIBRATION_SCOPE_MISMATCH", <<>>)
    ++ Finding(r.proposed = "ABSTAIN", "PROPOSED_DECISION_WITHHELD", <<>>)

\* mutant: the recorded decision is believed
TransitionIsDerived_Believed(r, policy) ==
    LET findings == VerifierFindings(r, policy)
    IN  r.blockers = findings.blockers /\ r.reasons = findings.reasons

TransitionIsDerived(r, policy) ==
    LET findings == VerifierFindings(r, policy)
    IN  /\ r.blockers = findings.blockers
        /\ r.reasons = findings.reasons
        /\ r.final = FinalDecision(r.proposed,
                                   \/ r.evidence.verified = 0
                                   \/ r.failures \cap BlockingFailures # {},
                                   r.blockers # <<>>)
        /\ policy # NoPolicy =>
             r.automation = (/\ r.blockers = <<>>
                             /\ r.final \in {"PASS", "FLAG"}
                             /\ r.maturity # "HEURISTIC_POLICY"
                             /\ \/ r.calibration # "UNCALIBRATED"
                                \/ ~policy.requireCalibration)

PolicyMatches(r, policy) ==
    policy # NoPolicy => r.policy = policy /\ r.maturity = policy.maturity

VerifyAssurance(r, policy) ==
    /\ PolicyMatches(r, policy)
    /\ EvidenceIsConsistent(r, policy)
    /\ FragilityIsConsistent(r, policy)
    /\ SufficientIsConsistent(r, policy)
    /\ DistributionIsConsistent(r)
    /\ DecisionIsPermitted(r, policy)
    /\ TransitionIsDerived(r, policy)

=============================================================================

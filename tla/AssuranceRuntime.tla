-------------------------- MODULE AssuranceRuntime --------------------------
(***************************************************************************)
(* One analysis from its assessment to its stored certificate, along the   *)
(* agent route (agent/orchestrator.py) or the deterministic route          *)
(* (pipeline.decide), and the certificate's life under later policies.     *)
(*                                                                         *)
(* An assessment is what the calculation layer hands over: the material    *)
(* paths of its decision trace, whether evidence covers enough inputs, how *)
(* narrative extraction went, and what the reference profile says of the   *)
(* observation.                                                            *)
(***************************************************************************)
EXTENDS AssuranceEngine

CONSTANTS
    Policies,   \* assurance policies that are ever deployed
    Assessments \* Assessments[p]: the assessments considered under policy p

Routes == {"agent", "deterministic"}

(***************************************************************************)
(* How narrative extraction went.  Of a document with risk language:       *)
(* nothing was extracted (silent), or none of the claims extracted could   *)
(* be verified (rejected); of any document: the provider failed            *)
(* (unavailable), which is an error response on the deterministic route.   *)
(***************************************************************************)
Narratives == {"usable", "silent", "rejected", "unavailable"}

\* the agent looks at what was extracted, assess at what was accepted
SemanticFailures ==
    [ agent |-> {"silent", "unavailable"}, deterministic |-> {"silent", "rejected"} ]

\* what FinRiskPipeline.assess and build_decision_trace can produce
IsAssessment(a) ==
    LET rules == {p \in a.paths : p.kind = "rule"}
    IN  /\ DOMAIN a = {"route", "paths", "covered", "narrative", "reference"}
        /\ IsFiniteSet(a.paths)
        /\ a.narrative \in Narratives
        /\ a.route = "deterministic" => a.narrative # "unavailable"
        /\ \A p \in a.paths : p.ids \subseteq Evidence /\ p.verified = (p.ids # {})
        /\ \A p \in a.paths : /\ DOMAIN p = {"reason", "kind", "dim", "ids", "verified", "score"}
                              /\ p.score \in 0..100
        /\ \A p, q \in a.paths : p.dim = q.dim => p.score = q.score
        /\ a.narrative # "usable" => rules = a.paths
        /\ rules = {} => ~a.covered
        /\ rules # {} /\ rules = Verified(rules) => a.covered
        /\ a.reference # None =>
              a.reference.evaluated \in Nat /\ a.reference.outside \in 0..a.reference.evaluated

ASSUME PolicyAssumption ==
    /\ Policies \subseteq AssurancePolicy
    /\ NoPolicy \notin AssurancePolicy

ASSUME AssessmentAssumption ==
    \A p \in Policies : \A a \in Assessments[p] : IsAssessment(a) /\ a.route \in Routes

VARIABLES
    policy,      \* the policy the process was started with
    stage,       \* how far the analysis has come
    assessment,
    proposal,    \* the disposition proposed so far
    failures,    \* the failures the proposal was escalated for
    humanReview, \* assessment["human_review_required"]
    result,      \* the AssuranceResult
    decision,    \* the authorized final decision
    certificate  \* the DecisionBundle stored for the entity

vars == <<policy, stage, assessment, proposal, failures, humanReview,
          result, decision, certificate>>

Stages == {"idle", "fused", "proposed", "reviewed", "evaluated", "authorized",
           "published", "completed", "review_required", "insufficient_evidence",
           "stored", "failed"}

\* the agent statuses from which an analysis is persisted
Terminal == {"completed", "review_required", "insufficient_evidence"}

(***************************************************************************)
(* What each step computes, as functions of the assessment.                *)
(***************************************************************************)
Fused(a) ==
    FusedDecision(DimensionScores(a.paths), a.covered)

HasTension(a) == \E p \in a.paths : p.kind = "tension"

\* only the agent looks for missing and conflicting evidence
FailuresOf(a) ==
    (IF a.narrative \in SemanticFailures[a.route] THEN {"llm_unavailable"} ELSE {})
    \cup (IF a.route = "agent" /\ a.paths # {} /\ Verified(a.paths) = {}
          THEN {"missing_evidence"} ELSE {})
    \cup (IF a.route = "agent" /\ HasTension(a)
          THEN {"conflicting_evidence"} ELSE {})

\* three_role_review: a judgement rests on the path of each triggered rule
CriticRejects(a) == \E p \in a.paths : p.kind = "rule" /\ ~p.verified

Proposed(a) ==
    ReviewedProposal(FailureAwareProposal(Fused(a), FailuresOf(a)),
                     a.route = "agent" /\ CriticRejects(a))

AssuranceInput(a, proposed, failed) ==
    [ proposed |-> proposed,
      score |-> AggregateScore(DimensionScores(a.paths)),
      scores |-> DimensionScores(a.paths),
      paths |-> a.paths,
      reference |-> a.reference,
      calibration |-> "UNCALIBRATED",
      failures |-> failed ]

\* where an assessment ends under policy p
Outcome(a, p) == Evaluate(AssuranceInput(a, Proposed(a), FailuresOf(a)), p)

(***************************************************************************)
(* Actions.                                                                *)
(***************************************************************************)
Init ==
    /\ policy \in Policies
    /\ stage = "idle"
    /\ assessment = None
    /\ proposal = "ABSTAIN"
    /\ failures = {}
    /\ humanReview = FALSE
    /\ result = None
    /\ decision = "ABSTAIN"
    /\ certificate = None

Assess(a) ==
    /\ stage = "idle"
    /\ stage' = "fused"
    /\ assessment' = a
    /\ proposal' = Fused(a)
    /\ UNCHANGED <<policy, failures, humanReview, result, decision, certificate>>

Degrade ==
    /\ stage = "fused"
    /\ stage' = "proposed"
    /\ failures' = FailuresOf(assessment)
    /\ proposal' = FailureAwareProposal(proposal, FailuresOf(assessment))
    /\ humanReview' = /\ assessment.route = "agent"
                      /\ FailuresOf(assessment) \cap ReviewFailures # {}
    /\ UNCHANGED <<policy, assessment, result, decision, certificate>>

Review ==
    /\ stage = "proposed"
    /\ assessment.route = "agent"
    /\ stage' = "reviewed"
    /\ proposal' = ReviewedProposal(proposal, CriticRejects(assessment))
    /\ humanReview' = (humanReview \/ CriticRejects(assessment))
    /\ UNCHANGED <<policy, assessment, failures, result, decision, certificate>>

EvaluateProposal ==
    /\ assessment # None
    /\ stage = IF assessment.route = "agent" THEN "reviewed" ELSE "proposed"
    /\ stage' = "evaluated"
    /\ result' = Evaluate(AssuranceInput(assessment, proposal, failures), policy)
    /\ UNCHANGED <<policy, assessment, proposal, failures, humanReview,
                   decision, certificate>>

\* authorized_final_decision; a refusal raises and the analysis fails
Authorize ==
    /\ stage = "evaluated"
    /\ IF VerifyAssurance(result, policy)
       THEN stage' = "authorized" /\ decision' = result.final
       ELSE stage' = "failed" /\ UNCHANGED decision
    /\ UNCHANGED <<policy, assessment, proposal, failures, humanReview,
                   result, certificate>>

(***************************************************************************)
(* A DecisionBundle, as far as its checks look at it: the assurance result *)
(* and the paths it claims to have verified.                               *)
(***************************************************************************)
MayBuild(r, proposed, final, p) ==
    VerifyAssurance(r, p) /\ r.proposed = proposed /\ r.final = final

\* verify_decision_bundle: the recorded evidence is that of the recorded paths
VerifyBundle(bundle, p) ==
    LET actual == AssessEvidence(bundle.paths, 40)
    IN  /\ VerifyAssurance(bundle.assurance, p)
        /\ \A field \in {"material", "verified", "ids"} :
              actual[field] = bundle.assurance.evidence[field]

AgentStatus ==
    IF HasTension(assessment) \/ humanReview THEN "review_required"
    ELSE IF decision = "ABSTAIN" THEN "insufficient_evidence"
    ELSE IF decision = "REVIEW" THEN "review_required"
    ELSE "completed"

\* the certificate is part of the answer of either route
Certify ==
    /\ stage = "authorized"
    /\ IF MayBuild(result, proposal, decision, policy)
       THEN stage' = IF assessment.route = "agent" THEN AgentStatus ELSE "published"
       ELSE stage' = "failed"
    /\ UNCHANGED <<policy, assessment, proposal, failures, humanReview,
                   result, decision, certificate>>

\* persist_agent_snapshot: the service verifies against its policy, the
\* repository without one, once before writing and once reading back
Store ==
    /\ stage \in Terminal
    /\ LET bundle == [assurance |-> result, paths |-> assessment.paths]
       IN  IF VerifyBundle(bundle, policy) /\ VerifyBundle(bundle, NoPolicy)
           THEN stage' = "stored" /\ certificate' = bundle
           ELSE stage' = "failed" /\ UNCHANGED certificate
    /\ UNCHANGED <<policy, assessment, proposal, failures, humanReview,
                   result, decision>>

\* the process is started again with another assurance_policy.json
Redeploy(p) ==
    /\ stage = "stored"
    /\ p # policy
    /\ policy' = p
    /\ UNCHANGED <<stage, assessment, proposal, failures, humanReview,
                   result, decision, certificate>>

Next ==
    \/ stage = "idle" /\ \E a \in Assessments[policy] : Assess(a)
    \/ Degrade
    \/ Review
    \/ EvaluateProposal
    \/ Authorize
    \/ Certify
    \/ Store
    \/ \E p \in Policies : Redeploy(p)

Spec == Init /\ [][Next]_vars

(***************************************************************************)
(* Properties.                                                             *)
(***************************************************************************)

\* Every variable holds a value the code can put there: dispositions, failure
\* names, stages, and results of the policy in force when they were issued.
TypeOK ==
    /\ policy \in Policies
    /\ stage \in Stages
    /\ assessment = None \/ \E p \in Policies : assessment \in Assessments[p]
    /\ proposal \in Decisions /\ decision \in Decisions
    /\ failures \subseteq BlockingFailures \cup ReviewFailures
    /\ humanReview \in BOOLEAN
    /\ result = None \/ (result.policy \in Policies /\ result.final \in Decisions)
    /\ certificate = None \/ certificate.assurance = result

\* From fusion to the authorized decision the disposition only becomes more
\* cautious (PASS < FLAG < REVIEW < ABSTAIN): failures, the critic and
\* assurance never soften what an earlier step withheld.
OnlyEscalates ==
    [][ /\ stage # "idle" => AtLeast(proposal', proposal)
        /\ stage' = "authorized" => AtLeast(decision', proposal) ]_vars

\* An authorized PASS or FLAG rests on verified paths only, follows from the
\* verified evidence alone, and survives the loss of any one piece of it.
AuthorizedIsSupported ==
    stage = "authorized" /\ decision \in {"PASS", "FLAG"} =>
        /\ failures = {}
        /\ Verified(assessment.paths) = assessment.paths
        /\ \A lost \in {{}} \cup {{e} : e \in Nodes(assessment.paths)} :
              RecomputedDecision(assessment.paths,
                                 Nodes(assessment.paths) \ lost) = decision

\* The verifier leaves no freedom: a record that differs from an issued one in
\* its final decision, automation flag or status is refused, however its hash
\* was computed, and the issued one is refused under any policy but its own.
VerifierPinsTheDecision ==
    stage = "evaluated" =>
        \A final \in Decisions, automation \in BOOLEAN,
           status \in {"PASSED", "RESTRICTED", "FAILED"}, q \in Policies :
            LET altered == [result EXCEPT !.final = final,
                                          !.automation = automation,
                                          !.status = status]
            IN  VerifyAssurance(altered, q) => altered = result /\ q = policy

\* Taking evidence away never leads to a less cautious outcome, at any point of
\* the pipeline: a path whose evidence is gone still counts as material.
RemovalNeverImproves ==
    stage = "fused" =>
        \A removed \in SUBSET Nodes(assessment.paths) :
        \A covered \in {FALSE, assessment.covered} :
            LET reduced == [assessment EXCEPT !.paths = Without(@, removed),
                                              !.covered = covered]
            IN  IsAssessment(reduced) =>
                  AtLeast(Outcome(reduced, policy).final,
                          Outcome(assessment, policy).final)

\* The agent route, with its extra failures and its critic, is never less
\* cautious than the deterministic route on the same assessment.  The one
\* exception is a document whose claims were all rejected: assess calls that a
\* suppressed extraction, the agent only one that yields nothing at all.
AgentIsNeverLaxer ==
    stage = "fused" /\ assessment.narrative \in {"usable", "silent"} =>
        AtLeast(Outcome([assessment EXCEPT !.route = "agent"], policy).final,
                Outcome([assessment EXCEPT !.route = "deterministic"], policy).final)

\* Fusion is not compensatory: a further supported dimension never lowers the
\* score, and never turns a disposition that was not PASS into PASS.
AdverseNeverClears ==
    stage = "fused" =>
        LET scores == DimensionScores(assessment.paths)
        IN  \A D \in (SUBSET DOMAIN scores) \ {{}} :
              LET fewer == [d \in D |-> scores[d]]
              IN  /\ AggregateScore(fewer) <= AggregateScore(scores)
                  /\ FusedDecision(scores, TRUE) = "PASS" => FusedDecision(fewer, TRUE) = "PASS"

\* Trouble never helps: losing evidence, adding an adverse dimension or taking the
\* route with more to fail never leads to a less cautious decision.
TroubleNeverHelps == RemovalNeverImproves /\ AdverseNeverClears /\ AgentIsNeverLaxer

\* A sufficient set said to preserve the proposal does, and one labelled EXACT
\* is a smallest such set; if none is labelled, none exists.
SufficientIsMinimal ==
    stage = "evaluated" =>
        LET s == result.sufficient
            Keeps(S) == RecomputedDecision(assessment.paths, S) = proposal
        IN  /\ s.preserves => Keeps(s.ids)
            /\ s.method = "EXACT" =>
                 \A S \in (SUBSET Nodes(assessment.paths)) \ {{}} :
                    Keeps(S) => s.preserves /\ Cardinality(s.ids) <= Cardinality(S)

\* The engine and the verifier are two implementations of one decision
\* procedure: whatever evaluate issues is accepted by authorize, by the
\* certificate builder, by the service and by the repository, which verifies
\* without a policy.  No analysis is lost to a disagreement between them, and
\* what the result claims of its sufficient evidence is so.
EngineStandsByItsResults == stage # "failed" /\ SufficientIsMinimal

=============================================================================

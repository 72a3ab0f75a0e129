------------------------------ MODULE AgentRun ------------------------------
(***************************************************************************)
(* agent/: one FinancialRiskAgent.run after another, from the plan to the  *)
(* certificate, with the tool calls in between, the attempts of the        *)
(* narrative provider (llm.py), the three ways a run is started (a request *)
(* of its own context, a document in a worker that may be killed, a script *)
(* that runs several in one context) and the replay of a snapshot.         *)
(*                                                                         *)
(* What a run computes is determined by its input and by what extraction   *)
(* yielded; assessment and decision are the subject of AssuranceRuntime.   *)
(***************************************************************************)
EXTENDS Naturals, Sequences, SequencesExt, FiniteSets

CONSTANTS
    Inputs,              \* what run() is given, as far as its course depends on it
    MaxRetries,          \* StructuredLLMProvider.max_retries
    MaxRuns, MaxReleases \* bounds: runs and replays, deployments

\* A comparative period; pages, and risk language in them; a reference profile;
\* and what assessment, fusion, critic and assurance make of the figures
\* ("unproven": material risk without a verified path, which the critic sends to
\* review).
Evidence == {"clear", "adverse", "conflicting", "thin", "unproven"}

ASSUME InputsAssumption ==
    Inputs \subseteq [previous : BOOLEAN, pages : BOOLEAN, risky : BOOLEAN,
                      reference : BOOLEAN, evidence : Evidence]
ASSUME AgentAssumption == {MaxRetries, MaxRuns, MaxReleases} \subseteq Nat

VARIABLES
    agent,     \* the run under way, or the one that ended last
    logs,      \* _request_logs: the attempts noted in this context
    release,   \* the component versions deployed
    kept,      \* the snapshot that a caller kept, with its certificate
    verdict,   \* what the last replay said
    runs       \* runs so far

agentVars == << agent, logs, release, kept, verdict, runs >>

Null == [is |-> "null"]

\* AgentStatus, of which UNDERSTANDING is where a state starts; ANALYZING is
\* never used.
Ends == {"COMPLETED", "INSUFFICIENT_EVIDENCE", "REVIEW_REQUIRED", "FAILED"}

Rest(how) == [how |-> how, pc |-> "idle", status |-> "UNDERSTANDING"]

AgentInit ==
    /\ agent = Rest("none")
    /\ logs = << >>
    /\ release = 0
    /\ kept = Null
    /\ verdict = Null
    /\ runs = 0

-----------------------------------------------------------------------------
(* The plan, the tools and the calls. *)

Step(id, tool) == [step |-> id, tool |-> tool]

\* A mutant: rules before the narrative they consume.
PlanFor_RulesFirst(in) ==
    << Step("metrics", "financial_metrics"), Step("models", "traditional_models"),
       Step("rules", "risk_rules") >>
    \o (IF in.pages THEN << Step("claims", "narrative_evidence"),
                            Step("consistency", "contradiction_detection") >> ELSE << >>)
    \o (IF in.previous THEN << Step("periods", "period_comparison") >> ELSE << >>)
    \o << Step("assessment", "risk_assessment"),
          Step("verification", "claim_verification") >>

\* AgentPlanner.plan.
PlanFor(in) ==
    << Step("metrics", "financial_metrics"), Step("models", "traditional_models") >>
    \o (IF in.pages THEN << Step("claims", "narrative_evidence") >> ELSE << >>)
    \o << Step("rules", "risk_rules") >>
    \o (IF in.pages THEN << Step("consistency", "contradiction_detection") >> ELSE << >>)
    \o (IF in.previous THEN << Step("periods", "period_comparison") >> ELSE << >>)
    \o << Step("assessment", "risk_assessment"),
          Step("verification", "claim_verification") >>

\* The inputs each registered tool insists on.
Required == [
    pdf_extraction |-> {"path", "document", "fiscal_year"},
    xbrl_extraction |-> {"companyfacts"},
    normalization |-> {"value"},
    financial_metrics |-> {"current", "year"},
    traditional_models |-> {"current", "year"},
    risk_rules |-> {"facts"},
    narrative_evidence |-> {"pages", "document", "year"},
    contradiction_detection |-> {"claims", "facts"},
    period_comparison |-> {"current", "previous"},
    risk_assessment |-> {"company", "year", "current"},
    claim_verification |-> {"conclusions"},
    evidence_retrieval |-> {"pages", "page"},
    missing_data_detection |-> {"current", "required"},
    model_applicability |-> {"industry", "facts"},
    risk_signal_calculation |-> {"facts"}]

Context == {"current", "previous", "pages", "document", "year", "entity_type"}

\* run()'s calls, in the order of its text: the step, the tool, what is handed
\* over, the status it runs under, and the `if` around it.
Calls == <<
    [step |-> "metrics", tool |-> "financial_metrics",
     given |-> {"current", "previous", "year"}, status |-> "COLLECTING", when |-> "always"],
    [step |-> "models", tool |-> "traditional_models",
     given |-> Context, status |-> "COLLECTING", when |-> "always"],
    [step |-> "claims", tool |-> "narrative_evidence",
     given |-> Context, status |-> "COLLECTING", when |-> "pages"],
    [step |-> "rules", tool |-> "risk_rules",
     given |-> {"facts"}, status |-> "COLLECTING", when |-> "always"],
    [step |-> "consistency", tool |-> "contradiction_detection",
     given |-> {"claims", "facts"}, status |-> "CROSS_CHECKING", when |-> "pages"],
    [step |-> "periods", tool |-> "period_comparison",
     given |-> {"current", "previous"}, status |-> "CROSS_CHECKING", when |-> "previous"],
    [step |-> "assessment", tool |-> "risk_assessment",
     given |-> {"company"} \cup Context, status |-> "SYNTHESIZING", when |-> "always"],
    [step |-> "verification", tool |-> "claim_verification",
     given |-> {"conclusions"}, status |-> "VERIFYING", when |-> "always"] >>

CallsOf(in) ==
    LET Taken(c) == IF \/ c.when = "always"
                       \/ c.when = "pages" /\ in.pages
                       \/ c.when = "previous" /\ in.previous
                    THEN << c >> ELSE << >>
    IN  Taken(Calls[1]) \o Taken(Calls[2]) \o Taken(Calls[3]) \o Taken(Calls[4])
          \o Taken(Calls[5]) \o Taken(Calls[6]) \o Taken(Calls[7]) \o Taken(Calls[8])

\* ToolRegistry.call hands over to the handler.
Served(c) == c.tool \in DOMAIN Required /\ Required[c.tool] \subseteq c.given

-----------------------------------------------------------------------------
(* A run. *)

AgentAt(pc) == agent.pc = pc

\* A request's handler runs in a copy of the server's context and a document's
\* worker in a process of its own: neither has made a call yet, and their logs go
\* with them.  Runs and replays of one script share a context.
Fresh(how) == how \in {"request", "document"} \/ agent.how = "none"

\* run() up to the planner.
Begin(how, in) ==
    /\ AgentAt("idle")
    /\ runs < MaxRuns
    /\ runs' = runs + 1
    /\ agent' = [how |-> how, input |-> in, pc |-> "plan", status |-> "PLANNING",
                 plan |-> << >>, trace |-> << >>, attempt |-> 0, asked |-> << >>,
                 extraction |-> "none", assessment |-> "none", decision |-> "ABSTAIN",
                 review |-> FALSE, cost |-> 0, snapshot |-> Null, certificate |-> << >>]
    /\ logs' = IF Fresh(how) THEN << >> ELSE logs
    /\ UNCHANGED << release, kept >>

StartRun(how) ==
    /\ how \in {"request", "document", "batch"}
    /\ \E in \in Inputs :
          /\ how = "batch" \/ ~in.reference   \* the API has no reference to give
          /\ Begin(how, in)
    /\ verdict' = Null

MakePlan ==
    /\ AgentAt("plan")
    /\ agent' = [agent EXCEPT !.plan = PlanFor(agent.input), !.pc = "call"]
    /\ UNCHANGED << logs, release, kept, verdict, runs >>

\* The call whose turn it is, in the order of run()'s text.
Turn == CallsOf(agent.input)[Len(agent.trace) + 1]

Noted(c, ok) == Append(agent.trace, [step |-> c.step, tool |-> c.tool, ok |-> ok])

\* _call: the trace is written before the result is used.
Called(c, ok) ==
    [agent EXCEPT
        !.trace = Noted(c, ok),
        !.status = c.status,
        !.attempt = 0,
        !.assessment = IF c.step = "assessment" THEN "partial" ELSE @,
        !.pc = IF Len(agent.trace) + 1 = Len(CallsOf(agent.input)) THEN "decide"
               ELSE "call"]

CallTool ==
    /\ AgentAt("call")
    /\ Turn.step # "claims"
    /\ Served(Turn)
    /\ agent' = Called(Turn, TRUE)
    /\ UNCHANGED << logs, release, kept, verdict, runs >>

\* Any exception but the narrative's ends the run as FAILED; what was assigned
\* before stays in the state.
Failed(a) == [a EXCEPT !.status = "FAILED", !.pc = "ended"]

CallFails ==
    /\ AgentAt("call")
    /\ Turn.step # "claims"
    /\ agent' = Failed([agent EXCEPT !.trace = Noted(Turn, FALSE)])
    /\ UNCHANGED << logs, release, kept, verdict, runs >>

\* ... and so does one raised between the calls.
Raise ==
    /\ agent.pc \in {"plan", "decide", "freeze", "certify", "finish"}
    /\ agent' = Failed(agent)
    /\ UNCHANGED << logs, release, kept, verdict, runs >>

-----------------------------------------------------------------------------
(* StructuredLLMProvider.extract, inside the call for the claims. *)

\* A mutant: the log of the context is not begun anew.
Extract_Appends ==
    /\ AgentAt("call")
    /\ Turn.step = "claims"
    /\ agent' = [agent EXCEPT !.pc = "extract", !.attempt = 1]
    /\ UNCHANGED << logs, release, kept, verdict, runs >>

Extract ==
    /\ AgentAt("call")
    /\ Turn.step = "claims"
    /\ agent' = [agent EXCEPT !.pc = "extract", !.attempt = 1]
    /\ logs' = << >>
    /\ UNCHANGED << release, kept, verdict, runs >>

\* _record
Record(o) == logs' = Append(logs, o)

\* The narrative tool returned: claims accepted, claims of which none stood
\* verification, or none at all.
Answered(result) ==
    /\ AgentAt("extract")
    /\ result \in {"found", "rejected", "nothing"}
    /\ Record("ok")
    /\ agent' = [Called(Turn, TRUE) EXCEPT !.asked = Append(@, "ok"), !.extraction = result]
    /\ UNCHANGED << release, kept, verdict, runs >>

\* It raised, which the run takes for a lack of narrative.
Unavailable(asked) ==
    [Called(Turn, FALSE) EXCEPT !.asked = asked, !.extraction = "failed"]

\* A mutant: one attempt too many.
Retry_Inclusive ==
    /\ AgentAt("extract")
    /\ Record("retryable")
    /\ agent' = IF agent.attempt <= MaxRetries + 1
                THEN [agent EXCEPT !.attempt = @ + 1, !.asked = Append(@, "retryable")]
                ELSE Unavailable(Append(agent.asked, "retryable"))
    /\ UNCHANGED << release, kept, verdict, runs >>

\* A transport error, or a status that may pass: sleep and ask again.
Retry ==
    /\ AgentAt("extract")
    /\ Record("retryable")
    /\ agent' = IF agent.attempt <= MaxRetries
                THEN [agent EXCEPT !.attempt = @ + 1, !.asked = Append(@, "retryable")]
                ELSE Unavailable(Append(agent.asked, "retryable"))
    /\ UNCHANGED << release, kept, verdict, runs >>

\* An answer that does not fit, which was paid for, or a status that will not pass.
GiveUp(o) ==
    /\ AgentAt("extract")
    /\ o \in {"invalid", "fatal"}
    /\ Record(o)
    /\ agent' = Unavailable(Append(agent.asked, o))
    /\ UNCHANGED << release, kept, verdict, runs >>

\* No key: a RuntimeError that none of the handlers catches, nor notes.
Keyless ==
    /\ AgentAt("extract")
    /\ agent' = Unavailable(agent.asked)
    /\ UNCHANGED << logs, release, kept, verdict, runs >>

\* estimated_cost_usd, one unit for each answer that was paid for
Cost(attempts) == Cardinality({i \in DOMAIN attempts : attempts[i] \in {"ok", "invalid"}})

-----------------------------------------------------------------------------
(* From the claims to the certificate. *)

\* A failed extraction, or none of any claim from pages full of risk language.
Semantic ==
    \/ agent.extraction = "failed"
    \/ agent.extraction = "nothing" /\ agent.input.risky

\* The decision on the evidence; a doubt turns PASS and FLAG into REVIEW.
DecisionOn(evidence, doubt) ==
    CASE evidence \in {"thin", "unproven"} -> "ABSTAIN"
      [] evidence = "clear" /\ ~doubt -> "PASS"
      [] evidence = "adverse" /\ ~doubt -> "FLAG"
      [] OTHER -> "REVIEW"

\* A mutant: an extraction that yields nothing is taken for a calm document.
Decide_Trusting ==
    LET in == agent.input
        doubt == agent.extraction = "failed" \/ in.evidence = "conflicting"
    IN  /\ AgentAt("decide")
        /\ agent' = [agent EXCEPT
              !.review = doubt \/ in.evidence = "unproven",
              !.decision = DecisionOn(in.evidence, doubt),
              !.cost = Cost(logs), !.assessment = "whole", !.pc = "freeze"]
        /\ UNCHANGED << logs, release, kept, verdict, runs >>

\* Fusion, failures, critic and assurance, as AssuranceRuntime has them at full
\* length, and the telemetry, whose cost is what the context's log adds up to.
Decide ==
    LET in == agent.input
        doubt == Semantic \/ in.evidence = "conflicting"
    IN  /\ AgentAt("decide")
        /\ agent' = [agent EXCEPT
              !.review = doubt \/ in.evidence = "unproven",
              !.decision = DecisionOn(in.evidence, doubt),
              !.cost = Cost(logs), !.assessment = "whole", !.pc = "freeze"]
        /\ UNCHANGED << logs, release, kept, verdict, runs >>

\* The material part of an assessment: it follows from the input, from what the
\* extraction gave and from the telemetry; latencies are left out of it.
Output(a) ==
    IF a.assessment = "none" THEN Null
    ELSE [input |-> a.input, extraction |-> a.extraction, decision |-> a.decision,
          assessment |-> a.assessment, cost |-> a.cost]

\* A mutant: a lenient freeze that forgets the comparative period.
FrozenInput_NoPrevious(in) == [in EXCEPT !.reference = FALSE, !.previous = FALSE]

\* frozen_input: company, year, figures, pages, document and sources, and not
\* the reference profile.
FrozenInput(in) == [in EXCEPT !.reference = FALSE]

\* create_snapshot
Freeze ==
    /\ AgentAt("freeze")
    /\ agent' = [agent EXCEPT !.pc = "certify",
                              !.snapshot = [input |-> FrozenInput(agent.input),
                                            output |-> Output(agent),
                                            release |-> release]]
    /\ UNCHANGED << logs, release, kept, verdict, runs >>

\* build_decision_bundle, with the trace as it is now
Certify ==
    /\ AgentAt("certify")
    /\ agent' = [agent EXCEPT !.pc = "finish", !.status = "REFLECTING",
                              !.certificate = agent.trace]
    /\ UNCHANGED << logs, release, kept, verdict, runs >>

\* A mutant: an abstention outranks the review that was asked for.
Finish_AbstainFirst ==
    /\ AgentAt("finish")
    /\ agent' = [agent EXCEPT
          !.pc = "ended",
          !.status = CASE agent.decision = "ABSTAIN" -> "INSUFFICIENT_EVIDENCE"
                       [] agent.review \/ agent.decision = "REVIEW" -> "REVIEW_REQUIRED"
                       [] OTHER -> "COMPLETED"]
    /\ UNCHANGED << logs, release, kept, verdict, runs >>

Finish ==
    /\ AgentAt("finish")
    /\ agent' = [agent EXCEPT
          !.pc = "ended",
          !.status = CASE agent.review \/ agent.decision = "REVIEW" -> "REVIEW_REQUIRED"
                       [] ~agent.review /\ agent.decision = "ABSTAIN" -> "INSUFFICIENT_EVIDENCE"
                       [] OTHER -> "COMPLETED"]
    /\ UNCHANGED << logs, release, kept, verdict, runs >>

-----------------------------------------------------------------------------
(* What becomes of it. *)

Ingestion == [step |-> "ingestion", tool |-> "pdf_extraction", ok |-> TRUE]

\* run_document puts the ingestion before the trace, when all is hashed already.
Snapshot(a) == [of |-> a.snapshot,
                trace |-> IF a.how = "document" THEN << Ingestion >> \o a.trace ELSE a.trace, stale |-> ~a.input.pages /\ a.cost > 0,
                reference |-> a.input.reference, certificate |-> a.certificate,
                status |-> a.status]

\* The endpoints answer 422 to a FAILED run and keep nothing of it; otherwise
\* its snapshot and certificate are there to be kept.
Answer ==
    /\ AgentAt("ended")
    /\ agent.how # "replay"
    /\ kept' \in IF agent.status = "FAILED" THEN {kept} ELSE {kept, Snapshot(agent)}
    /\ agent' = Rest(IF agent.how = "batch" THEN "script" ELSE "none")
    /\ logs' = IF agent.how = "batch" THEN logs ELSE << >>
    /\ UNCHANGED << release, verdict, runs >>

\* A document's worker is killed at its deadline, in the middle of anything.
Killed ==
    /\ ~AgentAt("idle")
    /\ agent.how = "document"
    /\ agent' = Rest("none")
    /\ logs' = << >>
    /\ UNCHANGED << release, kept, verdict, runs >>

\* New rules, scoring, policy, prompt or model: component_versions changes.
Redeploy ==
    /\ AgentAt("idle")
    /\ release < MaxReleases
    /\ release' = release + 1
    /\ agent' = Rest("none")
    /\ logs' = << >>
    /\ UNCHANGED << kept, verdict, runs >>

\* replay: nothing is run against other versions ...
Mismatch ==
    /\ AgentAt("idle")
    /\ kept # Null
    /\ kept.of.release # release
    /\ verdict' = [status |-> "VERSION_MISMATCH"]
    /\ UNCHANGED << agent, logs, release, kept, runs >>

\* ... and the frozen input is run again under the same ...
Replay ==
    /\ kept # Null
    /\ kept.of.release = release
    /\ Begin("replay", kept.of.input)
    /\ verdict' = Null

\* ... and compared, even if it FAILED.
Compare ==
    /\ AgentAt("ended")
    /\ agent.how = "replay"
    /\ verdict' = [status |-> IF Output(agent) = kept.of.output THEN "IDENTICAL" ELSE "DRIFT",
                   run |-> [status |-> agent.status, extraction |-> agent.extraction,
                            paid |-> Cost(agent.asked), assessment |-> agent.assessment,
                            stale |-> ~agent.input.pages /\ agent.cost > 0]]
    /\ agent' = Rest("script")
    /\ UNCHANGED << logs, release, kept, runs >>

AgentNext ==
    \/ \E how \in {"request", "document", "batch"} : StartRun(how)
    \/ MakePlan \/ CallTool \/ CallFails \/ Raise
    \/ Extract
    \/ \E result \in {"found", "rejected", "nothing"} : Answered(result)
    \/ Retry
    \/ \E o \in {"invalid", "fatal"} : GiveUp(o)
    \/ Keyless
    \/ Decide \/ Freeze \/ Certify \/ Finish
    \/ Answer \/ Killed \/ Redeploy
    \/ Mismatch \/ Replay \/ Compare

AgentSpec == AgentInit /\ [][AgentNext]_agentVars

-----------------------------------------------------------------------------
(* Properties. *)

Running == ~AgentAt("idle")

StepsOf(s) == [i \in DOMAIN s |-> Step(s[i].step, s[i].tool)]

\* The plan is made from two flags before the work and the calls are in the code's
\* own text: they agree, whatever the input and whatever fails.  What was called is
\* a prefix of the plan, all of it in a run that did not fail, its certificate
\* included; and of the calls only the narrative's may fail in such a run.
TraceIsThePlan ==
    /\ Running => IsPrefix(StepsOf(agent.trace), PlanFor(agent.input))
    /\ (Running /\ agent.status \in Ends \ {"FAILED"})
          => /\ StepsOf(agent.certificate) = agent.plan
             /\ \A i \in DOMAIN agent.trace :
                   ~agent.trace[i].ok => agent.trace[i].tool = "narrative_evidence"
    /\ (Running /\ agent.certificate # << >>) => agent.certificate = agent.trace

\* The provider is asked at most MaxRetries + 1 times, again only after an answer
\* that may pass, and a run over pages is billed for its own attempts whatever ran
\* in its context before.
AttemptsAreAccounted ==
    Running =>
        /\ Len(agent.asked) <= MaxRetries + 1
        /\ \A i \in DOMAIN agent.asked : i < Len(agent.asked) => agent.asked[i] = "retryable"
        /\ (agent.input.pages /\ agent.assessment = "whole")
              => agent.cost = Cost(agent.asked)

\* A caller is never given half an answer: whatever raises, and wherever, what is
\* kept has an assessment frozen whole and a certificate, its status is one that
\* the decision justifies, and silence about a document full of risk language
\* always reaches a human.  Its trace is the plan and its attempts are its own.
AnswersAreWhole ==
    /\ TraceIsThePlan /\ AttemptsAreAccounted
    /\ (Running /\ agent.status \in Ends \ {"FAILED"}) =>
          /\ agent.snapshot # Null /\ agent.certificate # << >>
          /\ agent.status = "COMPLETED" => agent.decision \in {"PASS", "FLAG"} /\ ~agent.review
          /\ (Semantic \/ agent.review) => agent.status = "REVIEW_REQUIRED"
    /\ kept # Null =>
          /\ kept.status \in Ends \ {"FAILED"}
          /\ kept.of.output.assessment = "whole"
          /\ kept.certificate # << >>

\* What a replay may differ by: it failed, or its provider answered otherwise.
Repeated ==
    /\ verdict.run.assessment = "whole"
    /\ verdict.run.extraction = kept.of.output.extraction
    /\ ~kept.stale => kept.of.output.cost = verdict.run.paid

\* Drift is reported only where there is some: of a run that did as the kept one
\* did, only a reference profile or the cost of an earlier run can make it.
DriftIsExplained ==
    (verdict # Null /\ verdict.status = "DRIFT" /\ Repeated)
        => kept.reference \/ kept.stale \/ verdict.run.stale
=============================================================================

------------------------------ MODULE MCServing ------------------------------
(***************************************************************************)
(* The way of an analysis through the serving side, side by side: clocks   *)
(* from the page to the back end, boundaries and handler, the isolated     *)
(* worker, and the agent inside it.  A behaviour runs one part.            *)
(***************************************************************************)
EXTENDS RequestAdmission, AgentRun, ServingChain

VARIABLES part, step, routine, child, result, expired, outcome, interrupted,
          cancelled, directory

isolationVars ==
    << step, routine, child, result, expired, outcome, interrupted, cancelled, directory >>

Isolation == INSTANCE WorkerIsolation WITH file <- result

allVars == << part, vars, agentVars, chainVars, isolationVars >>

\* Plans with and without a comparative period and pages, every kind of evidence,
\* a document that is silent about its risks, and a reference profile.
In(previous, pages, risky, reference, evidence) ==
    [previous |-> previous, pages |-> pages, risky |-> risky,
     reference |-> reference, evidence |-> evidence]

SomeInputs ==
    {In(TRUE, TRUE, TRUE, FALSE, "clear"), In(FALSE, TRUE, FALSE, FALSE, "adverse"),
     In(FALSE, FALSE, FALSE, TRUE, "clear"), In(TRUE, FALSE, FALSE, FALSE, "unproven")}

ServingInit ==
    /\ part \in {"admission", "agent", "chain", "worker"}
    /\ Init /\ AgentInit /\ Isolation!Init
    /\ ChainInit /\ (part # "chain" => reachable)

Of(p, act) == part = p /\ act /\ UNCHANGED part

Admission(act) == Of("admission", act) /\ UNCHANGED << agentVars, chainVars, isolationVars >>
Agent == Of("agent", AgentNext) /\ UNCHANGED << vars, chainVars, isolationVars >>
Chain == Of("chain", ChainNext) /\ UNCHANGED << vars, agentVars, isolationVars >>
Worker(act) == Of("worker", act) /\ UNCHANGED << vars, agentVars, chainVars >>

ServingNext == Admission(Next) \/ Agent \/ Chain \/ Worker(Isolation!Next)

\* The fairness of RequestAdmission and of WorkerIsolation.
ServingSpec ==
    /\ ServingInit
    /\ [][ServingNext]_allVars
    /\ \A c \in Connections : WF_allVars(Admission(Progress(c)))
    /\ WF_allVars(Worker(Isolation!ParentStep))
    /\ WF_allVars(Worker(Isolation!Expire))

\* The promise of WorkerIsolation, kept by the part that runs it.
KeepsPromise == Isolation!KeepsPromise

\* Whatever dawdles, ends: a request whose client sends nothing, or for ever, and a
\* worker's call whose child hangs; each gives back what it holds.
EverythingEnds ==
    /\ RequestsEnd
    /\ (part = "worker") ~> (step = "done")
=============================================================================

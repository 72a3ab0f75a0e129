------------------------------ MODULE JobQueue ------------------------------
(***************************************************************************)
(* enterprise/jobs.py: a queue of jobs in the process.  enqueue gives the  *)
(* job already queued under an idempotency key; claim hands out the first  *)
(* job, in the order of arrival, that is queued or to be retried; complete *)
(* and fail take a job id and look at nothing else.  Calls do not overlap. *)
(* Nothing in the repository runs workers over it: here a worker answers   *)
(* once for each job it claims, or dies with it.                           *)
(***************************************************************************)
EXTENDS Naturals, Sequences, FiniteSets

CONSTANTS
    JobWorkers, Identities,   \* workers; (organization, idempotency key) pairs
    MaxAttempts, MaxJobs      \* Job.max_attempts; bound: enqueue calls

ASSUME JobAssumption == MaxAttempts \in Nat \ {0} /\ MaxJobs \in Nat

VARIABLES
    jobs,      \* jobs: what the dict holds, in its order
    enqueued,  \* enqueue calls so far
    claims,    \* claims[w]: the job worker w runs, 0 if none
    dead,      \* workers that died
    done       \* history: jobs some worker completed

jobVars == << jobs, enqueued, claims, dead, done >>

JobInit ==
    /\ jobs = << >>
    /\ enqueued = 0
    /\ claims = [w \in JobWorkers |-> 0]
    /\ dead = {}
    /\ done = {}

Enqueue(identity) ==
    /\ enqueued < MaxJobs
    /\ enqueued' = enqueued + 1
    /\ jobs' = IF \E j \in DOMAIN jobs : jobs[j].identity = identity THEN jobs
               ELSE Append(jobs, [identity |-> identity, status |-> "queued",
                                  attempts |-> 0])
    /\ UNCHANGED << claims, dead, done >>

Claimable(j) ==
    jobs[j].status \in {"queued", "retry"} /\ jobs[j].attempts < MaxAttempts

Claim(w) ==
    /\ w \notin dead /\ claims[w] = 0
    /\ \E j \in DOMAIN jobs :
        /\ Claimable(j)
        /\ \A i \in 1 .. j - 1 : ~Claimable(i)
        /\ jobs' = [jobs EXCEPT ![j].status = "running", ![j].attempts = @ + 1]
        /\ claims' = [claims EXCEPT ![w] = j]
    /\ UNCHANGED << enqueued, dead, done >>

\* Mutant: one retry too many, which claim never hands out.
FailedStatus_Late(j) == IF jobs[j].attempts <= MaxAttempts THEN "retry" ELSE "failed"

FailedStatus(j) == IF jobs[j].attempts < MaxAttempts THEN "retry" ELSE "failed"

FailJob(w) ==
    /\ w \notin dead /\ claims[w] # 0
    /\ jobs' = [jobs EXCEPT ![claims[w]].status = FailedStatus(claims[w])]
    /\ claims' = [claims EXCEPT ![w] = 0]
    /\ UNCHANGED << enqueued, dead, done >>

CompleteJob(w) ==
    /\ w \notin dead /\ claims[w] # 0
    /\ jobs' = [jobs EXCEPT ![claims[w]].status = "completed"]
    /\ done' = done \cup {claims[w]}
    /\ claims' = [claims EXCEPT ![w] = 0]
    /\ UNCHANGED << enqueued, dead >>

\* The worker dies with the job it runs.
Die(w) ==
    /\ w \notin dead
    /\ dead' = dead \cup {w}
    /\ UNCHANGED << jobs, enqueued, claims, done >>

JobNext ==
    \/ \E identity \in Identities : Enqueue(identity)
    \/ \E w \in JobWorkers : Claim(w) \/ FailJob(w) \/ CompleteJob(w) \/ Die(w)

JobSpec == JobInit /\ [][JobNext]_jobVars

-----------------------------------------------------------------------------
(* Properties *)

RunBy(j) == {w \in JobWorkers : claims[w] = j}

\* Among workers that answer once for each job they claim, no job is stranded
\* but with a worker that died: one queued or put on retry can still be claimed;
\* one running was claimed by one worker and no other, alive or dead; a job is
\* given up only after its last attempt, and once completed is not run again.
NoJobIsStranded ==
    \A j \in DOMAIN jobs :
        /\ jobs[j].status \in {"queued", "retry"} => Claimable(j) /\ RunBy(j) = {}
        /\ jobs[j].status = "running" => Cardinality(RunBy(j)) = 1 /\ j \notin done
        /\ jobs[j].status = "failed" => jobs[j].attempts = MaxAttempts
        /\ j \in done <=> jobs[j].status = "completed"
=============================================================================

----------------------------- MODULE MCGateway -----------------------------
(***************************************************************************)
(* What stands between a caller and the handlers, and the job queue behind *)
(* them, side by side; a behaviour runs one part.  The shared limiter is   *)
(* there twice: one key that exhausts its quota over a long time, and      *)
(* three keys that fill a table of three rows.                             *)
(***************************************************************************)
EXTENDS RateLimiter, Credentials, LocalLimiter, JobQueue, TLC

CONSTANTS MCQuota, CapacityKeys

\* Every key of the first limiter has the same quota.
MCLimit == [k \in Keys |-> MCQuota]

VARIABLE part

Capacity == INSTANCE RateLimiter WITH
    Keys <- CapacityKeys, Limit <- [k \in CapacityKeys |-> 3],
    Window <- 1, Retention <- 2, MaxRows <- 3, MaxTime <- 2, MaxCalls <- 5

\* Limiters and the keys that fill the table are interchangeable.
GatewaySymmetry ==
    {[x \in Limiters \cup CapacityKeys |-> IF x \in Limiters THEN p[x] ELSE q[x]] :
        p \in Permutations(Limiters), q \in Permutations(CapacityKeys)}

GatewayInit ==
    /\ part \in {"window", "capacity", "credentials", "local", "jobs"}
    /\ IF part = "capacity" THEN Capacity!Init ELSE Init
    /\ CredInit /\ (part # "credentials" => durable)
    /\ LocalInit /\ JobInit

WindowPart == /\ part = "window" /\ Next
              /\ UNCHANGED << credVars, localVars, jobVars, part >>
CapacityPart == /\ part = "capacity" /\ Capacity!Next
                /\ UNCHANGED << credVars, localVars, jobVars, part >>
CredPart == /\ part = "credentials" /\ CredNext
            /\ UNCHANGED << vars, localVars, jobVars, part >>
LocalPart == /\ part = "local" /\ LocalNext
             /\ UNCHANGED << vars, credVars, jobVars, part >>
JobPart == /\ part = "jobs" /\ JobNext
           /\ UNCHANGED << vars, credVars, localVars, part >>

GatewayNext == WindowPart \/ CapacityPart \/ CredPart \/ LocalPart \/ JobPart
GatewaySpec ==
    GatewayInit /\ [][GatewayNext]_<< vars, credVars, localVars, jobVars, part >>

\* What a full table costs: the shared store overshoots its cap by no more than the
\* limiters that were past the check (on the instance that fills up), and the
\* fallback forgets only what a key spent before newcomers crowded it out.
CapsAreKept ==
    /\ part = "capacity" => Capacity!CapacityIsBounded
    /\ QuotaUnlessCrowdedOut
=============================================================================

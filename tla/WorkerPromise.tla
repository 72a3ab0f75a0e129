---------------------------- MODULE WorkerPromise ----------------------------
(***************************************************************************)
(* What run_spawned_worker promises its caller, without processes, files,  *)
(* polls or signals: the child lives at most until the caller is told how  *)
(* it went, and the caller is told the truth.                              *)
(***************************************************************************)
VARIABLES
    alive,        \* a child process exists
    published,    \* what the child left behind: "none", "good" or "bad"
    verdict       \* what the caller was told, or "none"

promiseVars == <<alive, published, verdict>>

PromiseInit ==
    /\ alive = FALSE
    /\ published = "none"
    /\ verdict = "none"

ChildStarts ==
    /\ verdict = "none"
    /\ alive' = TRUE
    /\ UNCHANGED <<published, verdict>>

ChildLeavesResult ==
    /\ alive
    /\ published = "none"
    /\ published' \in {"good", "bad"}
    /\ UNCHANGED <<alive, verdict>>

ChildIsGone ==
    /\ alive
    /\ alive' = FALSE
    /\ UNCHANGED <<published, verdict>>

\* The caller learns the outcome; only "unreclaimed" admits to a live child.
Truthful(v) ==
    /\ alive => v = "unreclaimed"
    /\ v = "result" => published = "good"
    /\ v = "invalid" => published = "bad"
    /\ v = "no_result" => published = "none"

CallerIsTold ==
    /\ verdict = "none"
    /\ \E v \in {"result", "invalid", "no_result", "timeout", "cancelled",
                 "not_started", "unreclaimed"} :
          /\ Truthful(v)
          /\ verdict' = v
    /\ UNCHANGED <<alive, published>>

PromiseNext == ChildStarts \/ ChildLeavesResult \/ ChildIsGone \/ CallerIsTold

PromiseSpec == PromiseInit /\ [][PromiseNext]_promiseVars
=============================================================================

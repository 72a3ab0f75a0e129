--------------------------- MODULE WorkerIsolation ---------------------------
(***************************************************************************)
(* process_isolation.py: one call of run_spawned_worker.  The parent is a  *)
(* coroutine that polls for the result file between short sleeps; the      *)
(* child is a process of its own that writes its result to a partial file, *)
(* renames it into place and exits, or dies, hangs or ignores signals at   *)
(* any point.  Between two awaits the parent runs alone in its event loop, *)
(* but never alone on the machine: every look at the child or at the file  *)
(* is a step.  The caller may be cancelled at every await, repeatedly.     *)
(***************************************************************************)
VARIABLES
    step,         \* where the parent is
    routine,      \* who runs _terminate: "main" or "reclaim"
    child,        \* the child process
    file,         \* the result file
    expired,      \* the deadline has passed
    outcome,      \* the result or exception under way in the parent
    interrupted,  \* `cancelled` of the finally block
    cancelled,    \* the caller has been cancelled, once or more
    directory     \* the private temporary directory exists

parent == <<step, routine, outcome, interrupted, directory>>

vars == <<step, routine, child, file, expired, outcome, interrupted, cancelled, directory>>

TypeOK ==
    /\ step \in {"start", "deadline", "result", "alive", "recheck", "sleep", "join",
                 "joined", "term", "term_join", "kill", "kill_join", "killed",
                 "reclaim", "close", "return", "done"}
    /\ routine \in {"main", "reclaim"}
    /\ child \in {"unborn", "alive", "dead"}
    /\ file \in {"none", "partial", "good", "bad"}
    /\ expired \in BOOLEAN
    /\ outcome \in {"none", "result", "invalid", "no_result", "timeout", "cancelled",
                    "not_started", "unreclaimed"}
    /\ interrupted \in BOOLEAN
    /\ cancelled \in BOOLEAN
    /\ directory \in BOOLEAN

Init ==
    /\ step = "start"
    /\ routine = "main"
    /\ child = "unborn"
    /\ file = "none"
    /\ expired = FALSE
    /\ outcome = "none"
    /\ interrupted = FALSE
    /\ cancelled = FALSE
    /\ directory = TRUE

-----------------------------------------------------------------------------
(* The parent. *)

Published == file \in {"good", "bad"}

Goto(there) ==
    /\ step' = there
    /\ UNCHANGED <<routine, child, file, expired, outcome, interrupted, cancelled, directory>>

\* An exception (or the return) takes the parent into the finally block.
Leave(how) ==
    /\ step' = "reclaim"
    /\ outcome' = how
    /\ UNCHANGED <<routine, child, file, expired, interrupted, cancelled, directory>>

Start ==
    /\ step = "start"
    /\ step' = "deadline"
    /\ child' = "alive"
    /\ UNCHANGED <<routine, file, expired, outcome, interrupted, cancelled, directory>>

StartFails ==
    /\ step = "start"
    /\ Leave("not_started")

\* Mutant: the loop has no deadline.
CheckDeadline_Never == step = "deadline" /\ Goto("result")

CheckDeadline ==
    /\ step = "deadline"
    /\ IF expired THEN Leave("timeout") ELSE Goto("result")

CheckResult ==
    /\ step = "result"
    /\ IF ~Published
       THEN Goto("alive")
       ELSE IF file = "bad"
       THEN Leave("invalid")
       ELSE /\ step' = "join"
            /\ outcome' = "result"
            /\ UNCHANGED <<routine, child, file, expired, interrupted, cancelled, directory>>

CheckAlive ==
    /\ step = "alive"
    /\ Goto(IF child = "alive" THEN "sleep" ELSE "recheck")

\* Mutant: a dead child is believed to have left nothing.
Recheck_Trusting == step = "recheck" /\ Leave("no_result")

\* The child may have published between the look at the file and its exit.
Recheck ==
    /\ step = "recheck"
    /\ IF Published THEN Goto("deadline") ELSE Leave("no_result")

WakeUp == step = "sleep" /\ Goto("deadline")

\* process.join returns because the child is gone or because its time is up.
Join == step = "join" /\ Goto("joined")

Joined ==
    /\ step = "joined"
    /\ IF child = "alive" THEN Goto("term") ELSE Leave(outcome)

Terminate == step = "term" /\ Goto("term_join")

TermJoin == step = "term_join" /\ Goto("kill")

\* Where _terminate goes when the child is gone.
Terminated ==
    IF routine = "main" THEN Leave(outcome) ELSE Goto("close")

Kill ==
    /\ step = "kill"
    /\ IF child = "alive" THEN Goto("kill_join") ELSE Terminated

KillJoin == step = "kill_join" /\ Goto("killed")

\* "document worker could not be reclaimed".
Killed ==
    /\ step = "killed"
    /\ \/ child # "alive" /\ Terminated
       \/ child = "alive" /\ routine = "main" /\ Leave("unreclaimed")
       \/ child = "alive" /\ routine = "reclaim" /\ Goto("return")

Reclaim ==
    /\ step = "reclaim"
    /\ routine' = "reclaim"
    /\ step' = IF child = "alive" THEN "term" ELSE "close"
    /\ UNCHANGED <<child, file, expired, outcome, interrupted, cancelled, directory>>

\* process.close and temporary.cleanup: the cleanup task has succeeded.
Close ==
    /\ step = "close"
    /\ step' = "return"
    /\ directory' = FALSE
    /\ UNCHANGED <<routine, child, file, expired, outcome, interrupted, cancelled>>

\* Mutant: a cancellation that arrived in the finally block is forgotten.
Return_Forgets ==
    /\ step = "return"
    /\ step' = "done"
    /\ outcome' = IF directory THEN "unreclaimed" ELSE outcome
    /\ UNCHANGED <<routine, child, file, expired, interrupted, cancelled, directory>>

\* What the finally block raises comes first: the failure of the cleanup task,
\* then the caller's cancellation, then what was under way.
Return ==
    /\ step = "return"
    /\ step' = "done"
    /\ outcome' = IF directory THEN "unreclaimed"
                  ELSE IF interrupted THEN "cancelled"
                  ELSE outcome
    /\ UNCHANGED <<routine, child, file, expired, interrupted, cancelled, directory>>

ParentStep ==
    \/ Start \/ StartFails
    \/ CheckDeadline \/ CheckResult \/ CheckAlive \/ Recheck \/ WakeUp
    \/ Join \/ Joined
    \/ Terminate \/ TermJoin \/ Kill \/ KillJoin \/ Killed
    \/ Reclaim \/ Close \/ Return

-----------------------------------------------------------------------------
(* The caller, the clock and the child. *)

\* Cancelled at an await of the body: CancelledError goes to the finally block.
CancelBody ==
    /\ step \in {"sleep", "join", "term_join", "kill_join"}
    /\ routine = "main"
    /\ step' = "reclaim"
    /\ outcome' = "cancelled"
    /\ cancelled' = TRUE
    /\ UNCHANGED <<routine, child, file, expired, interrupted, directory>>

\* The finally block awaits the cleanup task.
AwaitsCleanup ==
    \/ step \in {"reclaim", "return"}
    \/ step \in {"term_join", "kill_join"} /\ routine = "reclaim"

\* Mutant: the cleanup is not shielded.
CancelCleanup_Unshielded ==
    /\ AwaitsCleanup
    /\ step' = "done"
    /\ outcome' = "cancelled"
    /\ cancelled' = TRUE
    /\ UNCHANGED <<routine, child, file, expired, interrupted, directory>>

\* A cancellation there is noted, and the shielded cleanup waited on.
CancelCleanup ==
    /\ AwaitsCleanup
    /\ interrupted' = TRUE
    /\ cancelled' = TRUE
    /\ UNCHANGED <<step, routine, child, file, expired, outcome, directory>>

Expire ==
    /\ ~expired
    /\ expired' = TRUE
    /\ UNCHANGED <<child, file, cancelled, parent>>

ChildWrites ==
    /\ child = "alive"
    /\ file = "none"
    /\ directory
    /\ file' = "partial"
    /\ UNCHANGED <<child, expired, cancelled, parent>>

\* os.replace: the partial file becomes the result at once.
ChildPublishes ==
    /\ child = "alive"
    /\ file = "partial"
    /\ directory
    /\ file' \in {"good", "bad"}
    /\ UNCHANGED <<child, expired, cancelled, parent>>

\* It has finished, crashed, or a signal has reached it.
ChildExits ==
    /\ child = "alive"
    /\ child' = "dead"
    /\ UNCHANGED <<file, expired, cancelled, parent>>

Next ==
    \/ ParentStep
    \/ CancelBody \/ CancelCleanup
    \/ Expire
    \/ ChildWrites \/ ChildPublishes \/ ChildExits

Spec == Init /\ [][Next]_vars

\* The event loop runs the parent and the clock runs; the child owes nothing:
\* it may hang, and it may survive every signal.
FairSpec == Spec /\ WF_vars(ParentStep) /\ WF_vars(Expire)

-----------------------------------------------------------------------------
(***************************************************************************)
(* Properties.                                                             *)
(***************************************************************************)

\* No worker and no file of it outlives the call unnoticed: when the caller is
\* told anything but "unreclaimed", the child is dead and its directory removed.
NoSilentOrphan ==
    (step = "done" /\ outcome # "unreclaimed") => child # "alive" /\ ~directory

\* "Exited without a result" is only said of a child that published nothing, and
\* a result is only returned whole, however publication, exit and the polls fall.
OutcomeIsTruthful ==
    /\ outcome = "no_result" => ~Published /\ child # "alive"
    /\ outcome = "result" => file = "good"
    /\ outcome = "invalid" => file = "bad"

\* A cancellation is never swallowed, whenever and however often it arrives:
\* the call ends cancelled, or with the louder complaint that the child lives.
CancellationIsKept ==
    (step = "done" /\ cancelled) => outcome \in {"cancelled", "unreclaimed"}

\* A call ends whatever the child does: it may hang half-way through its result.
CallEnds == <>(step = "done")

\* The call keeps the promise its callers rely on.
Promise == INSTANCE WorkerPromise WITH
    alive <- child = "alive",
    published <- IF Published THEN file ELSE "none",
    verdict <- IF step = "done" THEN outcome ELSE "none"
KeepsPromise == Promise!PromiseSpec
=============================================================================

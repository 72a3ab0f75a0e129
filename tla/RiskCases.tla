------------------------------ MODULE RiskCases ------------------------------
(***************************************************************************)
(* Risk cases as the program runs them: request threads call               *)
(* EnterpriseRiskService concurrently over one shared repository.  A call  *)
(* reads a copy of the row (get_case), checks and changes the copy, and    *)
(* hands it with its audit event to repository.save, which accepts it only *)
(* if the stored version is still the one the copy was read at.            *)
(*                                                                         *)
(* A call whose checks fail raises before it has touched anything shared   *)
(* and answers 422: it is the absence of the action.  Snapshots are        *)
(* immutable, so reading one commutes with every other step and belongs to *)
(* the step that reads the row.                                            *)
(***************************************************************************)
EXTENDS RiskCaseRules

CONSTANTS
    Cases,        \* identifiers new_id("case") may return
    Threads,      \* request threads of the API process
    MaxCalls,     \* bound: calls that reach the point of writing an event
    MaxRestarts   \* bound: restarts of the API process

ASSUME BoundsAssumption == MaxCalls \in Nat /\ MaxRestarts \in Nat

VARIABLES
    cases,        \* cases[c]: the stored row, or None
    audit,        \* audit[c]: the audit events of case c in storage order
    pending,      \* pending[t]: the copy and event thread t will save, or None
    issued,       \* identifiers new_id("evt") has returned so far
    restarts      \* restarts of the API process so far

vars == <<cases, audit, pending, issued, restarts>>

Pending == [case : Cases, item : RiskCase, event : AuditEvent]

ASSUME NoneAssumption == None \notin RiskCase /\ None \notin Pending

TypeOK ==
    /\ cases \in [Cases -> RiskCase \cup {None}]
    /\ audit \in [Cases -> Seq(AuditEvent)]
    /\ pending \in [Threads -> Pending \cup {None}]
    /\ issued \in 0..MaxCalls
    /\ restarts \in 0..MaxRestarts

Init ==
    /\ cases = [c \in Cases |-> None]
    /\ audit = [c \in Cases |-> <<>>]
    /\ pending = [t \in Threads |-> None]
    /\ issued = 0
    /\ restarts = 0

-----------------------------------------------------------------------------
(* Reading, checking and changing the copy. *)

NewEventId == issued + 1

Prepare(t, c, k, ev) ==
    /\ pending[t] = None
    /\ issued < MaxCalls
    /\ issued' = NewEventId
    /\ pending' = [pending EXCEPT ![t] = [case |-> c, item |-> k, event |-> ev]]
    /\ UNCHANGED <<cases, audit, restarts>>

\* new_id("case") never returns an identifier in use.
FreshCase(c) ==
    /\ cases[c] = None
    /\ \A t \in Threads : pending[t] # None => pending[t].case # c

CreateCase(t, u, c, d) ==
    /\ FreshCase(c)
    /\ MayCreate(u, d)
    /\ Prepare(t, c, NewCase(u, d), CreateEvent(NewEventId, u))

Transition(t, u, c, target) ==
    /\ cases[c] # None
    /\ MayTransition(u, cases[c], target)
    /\ Prepare(t, c, Transitioned(cases[c], target),
               TransitionEvent(NewEventId, u, cases[c], target))

AddAction(t, u, c) ==
    /\ cases[c] # None
    /\ MayAddAction(u, cases[c])
    /\ Prepare(t, c, ActionAdded(NewEventId, u, cases[c]),
               Event(NewEventId, u, "action_added"))

AddResolutionEvidence(t, u, c, e) ==
    /\ cases[c] # None
    /\ MayAddEvidence(u, cases[c], e)
    /\ Prepare(t, c, EvidenceAdded(cases[c], e), EvidenceEvent(NewEventId, u, e))

Reopen(t, u, c) ==
    /\ cases[c] # None
    /\ MayReopen(u, cases[c])
    /\ Prepare(t, c, Reopened(NewEventId, u, cases[c]),
               ReopenEvent(NewEventId, u, cases[c]))

Override(t, u, c, original, replacement) ==
    /\ cases[c] # None
    /\ MayOverride(u, cases[c], original, replacement)
    /\ Prepare(t, c, Overridden(NewEventId, u, cases[c]),
               Event(NewEventId, u, "overridden"))

-----------------------------------------------------------------------------
(* repository.save: one critical section (one transaction) for row and event. *)

\* Mutants: no version check; a check that lets older copies in; off by one.
Admissible_AnyVersion(stored, item) == stored # None => stored.org = item.org

Admissible_Older(stored, item) ==
    stored # None => /\ stored.org = item.org
                     /\ stored.version >= item.version

Admissible_OffByOne(stored, item) ==
    stored # None => /\ stored.org = item.org
                     /\ stored.version = item.version + 1

Admissible(stored, item) ==
    stored # None => /\ stored.org = item.org
                     /\ stored.version = item.version

\* Mutant: the version is not moved on.
Stored_SameVersion(stored, item) == item

Stored(stored, item) ==
    IF stored = None THEN item ELSE [item EXCEPT !.version = @ + 1]

Save(t) ==
    /\ pending[t] # None
    /\ LET p == pending[t] IN
          /\ Admissible(cases[p.case], p.item)
          /\ cases' = [cases EXCEPT ![p.case] = Stored(cases[p.case], p.item)]
          /\ audit' = [audit EXCEPT ![p.case] = Append(@, p.event)]
    /\ pending' = [pending EXCEPT ![t] = None]
    /\ UNCHANGED <<issued, restarts>>

\* "concurrent risk case update rejected": the caller gets a 422.
Reject(t) ==
    /\ pending[t] # None
    /\ ~Admissible(cases[pending[t].case], pending[t].item)
    /\ pending' = [pending EXCEPT ![t] = None]
    /\ UNCHANGED <<cases, audit, issued, restarts>>

\* The API process dies and comes back; the PostgreSQL store is what is left.
Restart ==
    /\ restarts < MaxRestarts
    /\ restarts' = restarts + 1
    /\ pending' = [t \in Threads |-> None]
    /\ UNCHANGED <<cases, audit, issued>>

Next ==
    \/ \E t \in Threads, u \in Users, c \in Cases :
          \/ \E d \in Dossiers : CreateCase(t, u, c, d)
          \/ \E target \in Statuses : Transition(t, u, c, target)
          \/ AddAction(t, u, c)
          \/ \E e \in Evidence : AddResolutionEvidence(t, u, c, e)
          \/ Reopen(t, u, c)
          \/ \E original, replacement \in Decisions :
                Override(t, u, c, original, replacement)
    \/ \E t \in Threads : Save(t) \/ Reject(t)
    \/ Restart

Spec == Init /\ [][Next]_vars

\* A call that has read its row runs on to save; clients owe nothing.
Fairness == \A t \in Threads : WF_vars(Save(t) \/ Reject(t))

FairSpec == Spec /\ Fairness

-----------------------------------------------------------------------------
(***************************************************************************)
(* Properties.                                                             *)
(***************************************************************************)
Creating(p) == p.event.kind = "created"

\* A copy in flight can still be saved only if it was computed from the row as
\* it is stored now: whatever happened since get_case moved the version on.
\* (repository.save's version check against service.py's read-check-save.)
CopyIsCurrentOrDoomed ==
    \A t \in Threads : pending[t] # None =>
        LET p == pending[t] IN
        /\ Creating(p) => cases[p.case] = None /\ Creates(p.item, p.event)
        /\ ~Creating(p) =>
              /\ cases[p.case] # None
              /\ p.item.org = cases[p.case].org
              /\ p.item.version <= cases[p.case].version
              /\ p.item.version = cases[p.case].version =>
                    Changes(cases[p.case], p.item, p.event)

\* Event identifiers are drawn once: none in flight is stored or in flight
\* twice.
IdsAreFresh ==
    /\ \A c \in Cases : \A i \in DOMAIN audit[c] : audit[c][i].id \in 1..issued
    /\ \A t \in Threads : pending[t] # None =>
          /\ pending[t].event.id \in 1..issued
          /\ \A c \in Cases : \A i \in DOMAIN audit[c] :
                audit[c][i].id # pending[t].event.id
          /\ \A s \in Threads \ {t} : pending[s] # None =>
                /\ pending[s].event.id # pending[t].event.id
                /\ Creating(pending[t]) => pending[s].case # pending[t].case

\* The proof gate of service.transition: an accepted or resolved case has a
\* verified evidence path behind it, a resolved one also resolution evidence,
\* and all of that evidence is verified evidence of the case's own dossier.
ProofGate ==
    \A c \in Cases : cases[c] # None =>
        LET k == cases[c] IN
        /\ k.status \in {"accepted", "resolved"} => HasVerifiedPath(k)
        /\ k.status = "resolved" => k.resolution # {}
        /\ k.resolution \subseteq VerifiedIds[k.dossier]

\* s is the status the first n events of a trail lead to.
LeadsTo(trail, n, s) ==
    \E i \in 1..n : /\ trail[i].to = s
                    /\ s # None
                    /\ \A j \in (i + 1)..n : trail[j].to = None

IdsOf(trail, kinds) ==
    {trail[i].id : i \in {j \in DOMAIN trail : trail[j].kind \in kinds}}

CommentIds(k) == {m.id : m \in k.comments}

\* "Every mutation emits an append-only audit event": the trail of a case
\* explains its row completely - one event per version, statuses that chain
\* from event to event up to the stored one, and exactly the actions, comments
\* and resolution evidence the events name.
AuditExplainsRow ==
    \A c \in Cases :
        LET k == cases[c]
            trail == audit[c]
        IN IF k = None
           THEN trail = <<>>
           ELSE /\ Len(trail) = k.version + 1
                /\ LeadsTo(trail, Len(trail), k.status)
                /\ \A i \in DOMAIN trail : trail[i].from # None =>
                      LeadsTo(trail, i - 1, trail[i].from)
                /\ k.actions = IdsOf(trail, {"action_added"})
                /\ CommentIds(k) = IdsOf(trail, {"reopened", "overridden"})
                /\ \A e \in Evidence : e \in k.resolution <=>
                      \E i \in DOMAIN trail :
                          /\ trail[i].kind = "resolution_evidence_added"
                          /\ trail[i].evidence = e

\* Tenants stay apart: a case lives in the tenant of its snapshot, and every
\* event of its trail was made by a principal of that tenant whose role allows
\* it (auth.authorize and the organization filter of get_case, against copies
\* read before a rival's save).
NeededPermission(kind) ==
    IF kind \in {"created", "action_added"} THEN "write" ELSE "review"

TenantsStayApart ==
    \A c \in Cases : cases[c] # None =>
        /\ cases[c].org = DossierOrg[cases[c].dossier]
        /\ \A i \in DOMAIN audit[c] :
              Authorized(audit[c][i].actor, NeededPermission(audit[c][i].kind),
                         cases[c].org)

\* A closed case stays closed, whatever was in flight when it was closed.
ClosedIsFinal ==
    [][\A c \in Cases :
          (cases[c] # None /\ cases[c].status = "closed")
              => (cases'[c] # None /\ cases'[c].status = "closed")]_vars

\* Concurrent calls never erase what an earlier call recorded: actions,
\* comments, resolution evidence and audit events only accumulate.
NothingIsLost ==
    [][\A c \in Cases : cases[c] # None =>
          /\ cases'[c] # None
          /\ cases[c].actions \subseteq cases'[c].actions
          /\ cases[c].comments \subseteq cases'[c].comments
          /\ cases[c].resolution \subseteq cases'[c].resolution
          /\ cases[c].version <= cases'[c].version
          /\ Len(audit[c]) <= Len(audit'[c])
          /\ \A i \in DOMAIN audit[c] : audit'[c][i] = audit[c][i]]_vars

\* Every call that succeeds takes effect atomically on the current row.
Ledger == INSTANCE RiskCaseLedger WITH EventIds <- 1..MaxCalls
ImplementsLedger == Ledger!LedgerSpec

\* The length the trail of case c had when thread t read the row.
InFlight(c, n) ==
    \E t \in Threads :
        /\ pending[t] # None
        /\ pending[t].case = c
        /\ n = IF Creating(pending[t]) THEN 0 ELSE pending[t].item.version + 1

\* Optimistic versions never livelock: while a call on a case is in flight,
\* it or a rival gets an event into the trail, unless the process restarts.
SomeCallCommits ==
    \A c \in Cases, n \in 0..MaxCalls, r \in 0..MaxRestarts :
        (InFlight(c, n) /\ restarts = r) ~> (Len(audit[c]) > n \/ restarts > r)

\* docs/risk_case_workflow.md: "Reopen is restricted to accepted/resolved cases
\* and requires actor, reason and timestamp" - a case that goes back to open
\* carries a reopen comment for it.
ReopenRecordsReason ==
    [][\A c \in Cases :
          (/\ cases[c] # None
           /\ cases[c].status \in {"accepted", "resolved"}
           /\ cases'[c].status = "open")
              => \E m \in cases'[c].comments \ cases[c].comments :
                    m.kind = "case_reopened"]_vars
=============================================================================

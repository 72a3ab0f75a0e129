---------------------------- MODULE RiskCaseRules ----------------------------
(***************************************************************************)
(* The rules of a risk case, without storage or concurrency: what a case   *)
(* row and an audit event hold, who may call what, and what each call of   *)
(* EnterpriseRiskService does to the copy of the row it was given.         *)
(*                                                                         *)
(* A dossier is the pair (analysis snapshot, risk domain) a case is opened *)
(* on.  Snapshots are immutable, so what the service reads from one - the  *)
(* verified evidence identifiers of the domain and the recorded decision - *)
(* are constants of the dossier.                                           *)
(***************************************************************************)
EXTENDS Integers, Sequences

CONSTANTS
    Users,            \* authenticated principals
    Orgs,             \* tenants
    OrgOf,            \* OrgOf[u]: the tenant of principal u
    RoleOf,           \* RoleOf[u]: the role of principal u
    Dossiers,         \* (snapshot, domain) pairs held by the server
    DossierOrg,       \* DossierOrg[d]: the tenant that owns the snapshot
    Evidence,         \* evidence identifiers
    VerifiedIds,      \* VerifiedIds[d]: verified evidence of the dossier
    RecordedDecision, \* RecordedDecision[d]: decision in the frozen trace
    None              \* Python's None

Roles == {"admin", "risk_manager", "analyst", "reviewer", "viewer"}

Permissions ==
    [ admin        |-> {"read", "write", "review", "configure", "manage_users"},
      risk_manager |-> {"read", "write", "review", "configure"},
      analyst      |-> {"read", "write"},
      reviewer     |-> {"read", "review"},
      viewer       |-> {"read"} ]

Statuses == {"detected", "open", "under_review", "mitigating",
             "accepted", "resolved", "closed"}

Transitions ==
    [ detected     |-> {"open", "closed"},
      open         |-> {"under_review", "closed"},
      under_review |-> {"mitigating", "accepted", "resolved"},
      mitigating   |-> {"under_review", "resolved"},
      accepted     |-> {"under_review", "closed"},
      resolved     |-> {"closed", "open"},
      closed       |-> {} ]

Decisions == {"PASS", "FLAG", "REVIEW", "ABSTAIN"}

ASSUME RulesAssumption ==
    /\ OrgOf \in [Users -> Orgs]
    /\ RoleOf \in [Users -> Roles]
    /\ DossierOrg \in [Dossiers -> Orgs]
    /\ VerifiedIds \in [Dossiers -> SUBSET Evidence]
    /\ RecordedDecision \in [Dossiers -> Decisions \cup {None}]
    /\ None \notin Statuses \cup Evidence \cup Users

(***************************************************************************)
(* Rows and events.  An action or a comment is known by the identifier of  *)
(* the call that added it.                                                 *)
(***************************************************************************)
Comment == [id : Nat, kind : {"human_override", "case_reopened"}, actor : Users]

RiskCase ==
    [ org        : Orgs,
      dossier    : Dossiers,
      status     : Statuses,
      owner      : Users \cup {None},
      actions    : SUBSET Nat,
      resolution : SUBSET Evidence,
      monitoring : {"active", "reopened"},
      comments   : SUBSET Comment,
      version    : Nat ]

EventKinds == {"created", "transitioned", "action_added",
               "resolution_evidence_added", "reopened", "overridden"}

AuditEvent ==
    [ id       : Nat,
      actor    : Users,
      kind     : EventKinds,
      from     : Statuses \cup {None},
      to       : Statuses \cup {None},
      evidence : Evidence \cup {None} ]

Event(id, u, kind) ==
    [ id |-> id, actor |-> u, kind |-> kind,
      from |-> None, to |-> None, evidence |-> None ]

\* Mutant: the tenant is not compared.
Authorized_AnyTenant(u, permission, org) == permission \in Permissions[RoleOf[u]]

\* authorize: same tenant, and the role carries the permission.
Authorized(u, permission, org) ==
    /\ OrgOf[u] = org
    /\ permission \in Permissions[RoleOf[u]]

-----------------------------------------------------------------------------
(***************************************************************************)
(* Each call: when the service lets it through, the row it leaves and the  *)
(* event it writes.                                                        *)
(***************************************************************************)
MayCreate(u, d) == Authorized(u, "write", DossierOrg[d])

NewCase(u, d) ==
    [ org |-> OrgOf[u], dossier |-> d, status |-> "detected", owner |-> None,
      actions |-> {}, resolution |-> {}, monitoring |-> "active",
      comments |-> {}, version |-> 0 ]

CreateEvent(id, u) == [Event(id, u, "created") EXCEPT !.to = "detected"]

HasVerifiedPath(k) == VerifiedIds[k.dossier] # {}

\* Mutant: the proof gate is missing.
MayTransition_NoGate(u, k, target) ==
    /\ Authorized(u, "review", k.org)
    /\ target \in Transitions[k.status]

MayTransition(u, k, target) ==
    /\ Authorized(u, "review", k.org)
    /\ target \in {"accepted", "resolved"} => HasVerifiedPath(k)
    /\ target = "resolved" => k.resolution # {}
    /\ target \in Transitions[k.status]

Transitioned(k, target) == [k EXCEPT !.status = target]

TransitionEvent(id, u, k, target) ==
    [Event(id, u, "transitioned") EXCEPT !.from = k.status, !.to = target]

\* The owner named in the request must be the caller.
MayAddAction(u, k) == Authorized(u, "write", k.org)

ActionAdded(id, u, k) == [k EXCEPT !.actions = @ \cup {id}, !.owner = u]

MayAddEvidence(u, k, e) ==
    /\ Authorized(u, "review", k.org)
    /\ e \in VerifiedIds[k.dossier]

EvidenceAdded(k, e) == [k EXCEPT !.resolution = @ \cup {e}]

EvidenceEvent(id, u, e) ==
    [Event(id, u, "resolution_evidence_added") EXCEPT !.evidence = e]

MayReopen(u, k) ==
    /\ Authorized(u, "review", k.org)
    /\ k.status \in {"resolved", "accepted"}

Reopened(id, u, k) ==
    [k EXCEPT !.status = "open",
              !.monitoring = "reopened",
              !.comments = @ \cup {[id |-> id, kind |-> "case_reopened", actor |-> u]}]

ReopenEvent(id, u, k) ==
    [Event(id, u, "reopened") EXCEPT !.from = k.status, !.to = "open"]

\* The original named in the request must be the recorded decision and the
\* replacement must differ from it; the recorded decision itself is kept.
MayOverride(u, k, original, replacement) ==
    /\ Authorized(u, "review", k.org)
    /\ RecordedDecision[k.dossier] # None
    /\ original = RecordedDecision[k.dossier]
    /\ original # replacement

Overridden(id, u, k) ==
    [k EXCEPT !.comments =
        @ \cup {[id |-> id, kind |-> "human_override", actor |-> u]}]

-----------------------------------------------------------------------------
(***************************************************************************)
(* One call, as a relation between the row it was given, the row it hands  *)
(* to the repository and the event that goes with it.                      *)
(***************************************************************************)
Creates(k2, ev) ==
    \E u \in Users, d \in Dossiers :
        /\ MayCreate(u, d)
        /\ k2 = NewCase(u, d)
        /\ ev = CreateEvent(ev.id, u)

Changes(k, k2, ev) ==
    \/ \E u \in Users, target \in Statuses :
          /\ MayTransition(u, k, target)
          /\ k2 = Transitioned(k, target)
          /\ ev = TransitionEvent(ev.id, u, k, target)
    \/ \E u \in Users :
          /\ MayAddAction(u, k)
          /\ k2 = ActionAdded(ev.id, u, k)
          /\ ev = Event(ev.id, u, "action_added")
    \/ \E u \in Users, e \in Evidence :
          /\ MayAddEvidence(u, k, e)
          /\ k2 = EvidenceAdded(k, e)
          /\ ev = EvidenceEvent(ev.id, u, e)
    \/ \E u \in Users :
          /\ MayReopen(u, k)
          /\ k2 = Reopened(ev.id, u, k)
          /\ ev = ReopenEvent(ev.id, u, k)
    \/ \E u \in Users, original, replacement \in Decisions :
          /\ MayOverride(u, k, original, replacement)
          /\ k2 = Overridden(ev.id, u, k)
          /\ ev = Event(ev.id, u, "overridden")
=============================================================================

--------------------------- MODULE RiskCases_proofs ---------------------------
(***************************************************************************)
(* Theorems about RiskCases for every value of its constants.  The six     *)
(* calls differ only in the row and event they prepare, so the proofs      *)
(* split a step into five shapes: prepare a new case, prepare a change,    *)
(* save, reject, restart.                                                  *)
(***************************************************************************)
EXTENDS RiskCases, TLAPS

PrepareCreate(t, c) ==
    /\ FreshCase(c)
    /\ \E k \in RiskCase, ev \in AuditEvent :
          ev.id = NewEventId /\ Creates(k, ev) /\ Prepare(t, c, k, ev)

PrepareChange(t, c) ==
    /\ cases[c] # None
    /\ \E k \in RiskCase, ev \in AuditEvent :
          /\ ev.id = NewEventId
          /\ Changes(cases[c], k, ev)
          /\ Prepare(t, c, k, ev)

\* A call hands the repository a row of the same case, one at the version it
\* read, and a well-formed event.
LEMMA ChangesType ==
    ASSUME NEW k \in RiskCase, NEW k2, NEW ev, NEW id \in Nat, ev.id = id,
           Changes(k, k2, ev)
    PROVE  /\ k2 \in RiskCase
           /\ ev \in AuditEvent
           /\ ev.kind # "created"
           /\ k2.version = k.version
           /\ k2.org = k.org
           /\ k2.dossier = k.dossier
<1> USE RulesAssumption
<1> DEFINE Kept == /\ k2 \in RiskCase
                   /\ ev \in AuditEvent
                   /\ ev.kind # "created"
                   /\ k2.version = k.version
                   /\ k2.org = k.org
                   /\ k2.dossier = k.dossier
<1>1. ASSUME NEW u \in Users, NEW target \in Statuses,
             k2 = Transitioned(k, target), ev = TransitionEvent(id, u, k, target)
      PROVE  Kept
  BY <1>1 DEF RiskCase, AuditEvent, EventKinds, Transitioned, TransitionEvent, Event
<1>2. ASSUME NEW u \in Users, k2 = ActionAdded(id, u, k),
             ev = Event(id, u, "action_added")
      PROVE  Kept
  <2>1. k2 \in RiskCase
    BY <1>2 DEF RiskCase, ActionAdded
  <2>2. ev \in AuditEvent
    BY <1>2 DEF AuditEvent, EventKinds, Event
  <2>3. k2.version = k.version /\ k2.org = k.org /\ k2.dossier = k.dossier
    BY <1>2 DEF RiskCase, ActionAdded
  <2>4. QED
    BY <1>2, <2>1, <2>2, <2>3 DEF Event
<1>3. ASSUME NEW u \in Users, NEW e \in Evidence, k2 = EvidenceAdded(k, e),
             ev = EvidenceEvent(id, u, e)
      PROVE  Kept
  BY <1>3 DEF RiskCase, AuditEvent, EventKinds, EvidenceAdded, EvidenceEvent, Event
<1>4. ASSUME NEW u \in Users, k2 = Reopened(id, u, k), ev = ReopenEvent(id, u, k)
      PROVE  Kept
  <2>1. [id |-> id, kind |-> "case_reopened", actor |-> u] \in Comment
    BY DEF Comment
  <2>2. k2 \in RiskCase
    BY <1>4, <2>1 DEF RiskCase, Reopened, Statuses
  <2>3. QED
    BY <1>4, <2>2 DEF RiskCase, AuditEvent, EventKinds, Reopened, ReopenEvent,
                      Event, Statuses
<1>5. ASSUME NEW u \in Users, k2 = Overridden(id, u, k),
             ev = Event(id, u, "overridden")
      PROVE  Kept
  <2>1. [id |-> id, kind |-> "human_override", actor |-> u] \in Comment
    BY DEF Comment
  <2>2. k2 \in RiskCase
    BY <1>5, <2>1 DEF RiskCase, Overridden
  <2>3. QED
    BY <1>5, <2>2 DEF RiskCase, AuditEvent, EventKinds, Overridden, Event
<1>6. QED
  BY <1>1, <1>2, <1>3, <1>4, <1>5 DEF Changes

LEMMA CreatesType ==
    ASSUME NEW u \in Users, NEW d \in Dossiers, NEW id \in Nat
    PROVE  /\ NewCase(u, d) \in RiskCase
           /\ CreateEvent(id, u) \in AuditEvent
           /\ CreateEvent(id, u).id = id
           /\ CreateEvent(id, u).kind = "created"
BY RulesAssumption DEF NewCase, CreateEvent, Event, RiskCase, AuditEvent,
   EventKinds, Statuses

\* The shapes of a step.
LEMMA StepShapes ==
    ASSUME TypeOK, Next
    PROVE  \/ \E t \in Threads, c \in Cases : PrepareCreate(t, c)
           \/ \E t \in Threads, c \in Cases : PrepareChange(t, c)
           \/ \E t \in Threads : Save(t)
           \/ \E t \in Threads : Reject(t)
           \/ Restart
<1>0. NewEventId \in Nat
  BY DEF TypeOK, NewEventId
<1>1. ASSUME NEW t \in Threads, NEW u \in Users, NEW c \in Cases,
             NEW d \in Dossiers, CreateCase(t, u, c, d)
      PROVE  PrepareCreate(t, c)
  BY <1>0, <1>1, CreatesType DEF CreateCase, PrepareCreate, Creates
<1>2. ASSUME NEW t \in Threads, NEW c \in Cases, NEW k, NEW ev, cases[c] # None,
             Changes(cases[c], k, ev), ev.id = NewEventId, Prepare(t, c, k, ev)
      PROVE  PrepareChange(t, c)
  <2>1. cases[c] \in RiskCase
    BY <1>2 DEF TypeOK
  <2>2. k \in RiskCase /\ ev \in AuditEvent
    BY <2>1, <1>0, <1>2, ChangesType
  <2>3. QED
    BY <2>2, <1>2 DEF PrepareChange
<1>3. ASSUME NEW t \in Threads, NEW u \in Users, NEW c \in Cases,
             NEW target \in Statuses, Transition(t, u, c, target)
      PROVE  PrepareChange(t, c)
  <2>1. TransitionEvent(NewEventId, u, cases[c], target).id = NewEventId
    BY DEF TransitionEvent, Event
  <2>2. QED
    BY <1>2, <1>3, <2>1 DEF Transition, Changes
<1>4. ASSUME NEW t \in Threads, NEW u \in Users, NEW c \in Cases, AddAction(t, u, c)
      PROVE  PrepareChange(t, c)
  <2>1. Event(NewEventId, u, "action_added").id = NewEventId
    BY DEF Event
  <2>2. QED
    BY <1>2, <1>4, <2>1 DEF AddAction, Changes
<1>5. ASSUME NEW t \in Threads, NEW u \in Users, NEW c \in Cases,
             NEW e \in Evidence, AddResolutionEvidence(t, u, c, e)
      PROVE  PrepareChange(t, c)
  <2>1. EvidenceEvent(NewEventId, u, e).id = NewEventId
    BY DEF EvidenceEvent, Event
  <2>2. QED
    BY <1>2, <1>5, <2>1 DEF AddResolutionEvidence, Changes
<1>6. ASSUME NEW t \in Threads, NEW u \in Users, NEW c \in Cases, Reopen(t, u, c)
      PROVE  PrepareChange(t, c)
  <2>1. ReopenEvent(NewEventId, u, cases[c]).id = NewEventId
    BY DEF ReopenEvent, Event
  <2>2. QED
    BY <1>2, <1>6, <2>1 DEF Reopen, Changes
<1>7. ASSUME NEW t \in Threads, NEW u \in Users, NEW c \in Cases,
             NEW original \in Decisions, NEW replacement \in Decisions,
             Override(t, u, c, original, replacement)
      PROVE  PrepareChange(t, c)
  <2>1. Event(NewEventId, u, "overridden").id = NewEventId
    BY DEF Event
  <2>2. QED
    BY <1>2, <1>7, <2>1 DEF Override, Changes
<1>8. QED
  BY <1>1, <1>3, <1>4, <1>5, <1>6, <1>7 DEF Next

-----------------------------------------------------------------------------
\* Rows, trails and copies in flight are always well formed.
THEOREM Typing == Spec => []TypeOK
<1>1. Init => TypeOK
  BY BoundsAssumption DEF Init, TypeOK
<1>2. TypeOK /\ [Next]_vars => TypeOK'
  <2> SUFFICES ASSUME TypeOK, [Next]_vars PROVE TypeOK'
    OBVIOUS
  <2>1. ASSUME NEW t \in Threads, NEW c \in Cases, NEW k \in RiskCase,
               NEW ev \in AuditEvent, Prepare(t, c, k, ev)
        PROVE  TypeOK'
    BY <2>1, BoundsAssumption DEF TypeOK, Prepare, NewEventId, Pending
  <2>2. ASSUME NEW t \in Threads, Save(t)
        PROVE  TypeOK'
    <3>1. pending[t] \in Pending
      BY <2>2 DEF Save, TypeOK
    <3>2. Stored(cases[pending[t].case], pending[t].item) \in RiskCase
      BY <3>1 DEF Stored, Pending, RiskCase
    <3>3. cases' \in [Cases -> RiskCase \cup {None}]
      BY <2>2, <3>1, <3>2 DEF Save, TypeOK
    <3>4. audit' \in [Cases -> Seq(AuditEvent)]
      BY <2>2, <3>1 DEF Save, TypeOK, Pending
    <3>5. QED
      BY <2>2, <3>3, <3>4 DEF Save, TypeOK
  <2>3. ASSUME NEW t \in Threads, Reject(t)
        PROVE  TypeOK'
    BY <2>3 DEF TypeOK, Reject
  <2>4. CASE Restart
    BY <2>4, BoundsAssumption DEF TypeOK, Restart
  <2>5. CASE UNCHANGED vars
    BY <2>5 DEF TypeOK, vars
  <2>6. QED
    BY <2>1, <2>2, <2>3, <2>4, <2>5, StepShapes DEF PrepareCreate, PrepareChange
<1>3. QED
  BY <1>1, <1>2, PTL DEF Spec

-----------------------------------------------------------------------------
\* Of all copies in flight only those read at the stored version can be saved,
\* and they were computed from exactly the row that is stored.
THEOREM CopiesAreCurrentOrDoomed ==
    Spec => [](CopyIsCurrentOrDoomed /\ IdsAreFresh)
<1> DEFINE IInv == CopyIsCurrentOrDoomed /\ IdsAreFresh
<1>1. Init => IInv
  BY DEF Init, CopyIsCurrentOrDoomed, IdsAreFresh
<1>2. TypeOK /\ TypeOK' /\ IInv /\ [Next]_vars => IInv'
  <2> SUFFICES ASSUME TypeOK, TypeOK', IInv, [Next]_vars PROVE IInv'
    OBVIOUS
  <2>1. ASSUME NEW t \in Threads, NEW c \in Cases, NEW k \in RiskCase,
               NEW ev \in AuditEvent, ev.id = NewEventId, Prepare(t, c, k, ev),
               \A s \in Threads :
                  (pending[s] # None /\ (ev.kind = "created" \/ Creating(pending[s])))
                     => pending[s].case # c,
               \/ ev.kind = "created" /\ cases[c] = None /\ Creates(k, ev)
               \/ /\ ev.kind # "created" /\ cases[c] # None
                  /\ k.org = cases[c].org /\ k.version = cases[c].version
                  /\ Changes(cases[c], k, ev)
        PROVE  IInv'
    <3> DEFINE new == [case |-> c, item |-> k, event |-> ev]
    <3>0. /\ \A s \in Threads : pending'[s] = IF s = t THEN new ELSE pending[s]
          /\ cases' = cases /\ audit' = audit /\ issued' = issued + 1
          /\ issued \in Nat
      BY <2>1 DEF Prepare, TypeOK, NewEventId
    <3>1. CopyIsCurrentOrDoomed'
      <4> SUFFICES ASSUME NEW s \in Threads, pending'[s] # None
                   PROVE  LET p == pending'[s] IN
                          /\ Creating(p) => cases[p.case] = None /\ Creates(p.item, p.event)
                          /\ ~Creating(p) =>
                                /\ cases[p.case] # None
                                /\ p.item.org = cases[p.case].org
                                /\ p.item.version <= cases[p.case].version
                                /\ p.item.version = cases[p.case].version =>
                                      Changes(cases[p.case], p.item, p.event)
        BY <3>0 DEF CopyIsCurrentOrDoomed, Creating
      <4>1. CASE s = t
        <5>1. k.version \in Nat
          BY DEF RiskCase
        <5>2. QED
          BY <4>1, <5>1, <3>0, <2>1 DEF Creating
      <4>2. CASE s # t
        BY <4>2, <3>0 DEF CopyIsCurrentOrDoomed
      <4>3. QED
        BY <4>1, <4>2
    <3>2. IdsAreFresh'
      <4>1. \A d \in Cases : \A i \in DOMAIN audit[d] : audit[d][i].id \in 1..issued'
        BY <3>0 DEF IdsAreFresh
      <4>2. \A s \in Threads : pending'[s] # None =>
              /\ pending'[s].event.id \in 1..issued'
              /\ \A d \in Cases : \A i \in DOMAIN audit[d] :
                    audit[d][i].id # pending'[s].event.id
        BY <3>0, <2>1 DEF IdsAreFresh, NewEventId
      <4>3. ASSUME NEW s \in Threads, NEW r \in Threads \ {s},
                   pending'[s] # None, pending'[r] # None
            PROVE  /\ pending'[r].event.id # pending'[s].event.id
                   /\ Creating(pending'[s]) => pending'[r].case # pending'[s].case
        <5>1. CASE s = t
          BY <5>1, <4>3, <3>0, <2>1 DEF IdsAreFresh, NewEventId, Creating
        <5>2. CASE r = t
          BY <5>2, <4>3, <3>0, <2>1 DEF IdsAreFresh, NewEventId, Creating
        <5>3. CASE s # t /\ r # t
          BY <5>3, <4>3, <3>0 DEF IdsAreFresh
        <5>4. QED
          BY <5>1, <5>2, <5>3
      <4>4. QED
        BY <3>0, <4>1, <4>2, <4>3 DEF IdsAreFresh, Creating
    <3>3. QED
      BY <3>1, <3>2
  <2>2. ASSUME NEW t \in Threads, NEW c \in Cases, PrepareCreate(t, c)
        PROVE  IInv'
    <3>1. PICK k \in RiskCase, ev \in AuditEvent :
             ev.id = NewEventId /\ Creates(k, ev) /\ Prepare(t, c, k, ev)
      BY <2>2 DEF PrepareCreate
    <3>2. ev.kind = "created"
      BY <3>1 DEF Creates, CreateEvent, Event
    <3>3. cases[c] = None /\ \A s \in Threads : pending[s] # None => pending[s].case # c
      BY <2>2 DEF PrepareCreate, FreshCase
    <3>4. QED
      BY <3>1, <3>2, <3>3, <2>1
  <2>3. ASSUME NEW t \in Threads, NEW c \in Cases, PrepareChange(t, c)
        PROVE  IInv'
    <3>1. PICK k \in RiskCase, ev \in AuditEvent :
             ev.id = NewEventId /\ Changes(cases[c], k, ev) /\ Prepare(t, c, k, ev)
      BY <2>3 DEF PrepareChange
    <3>2. cases[c] # None /\ cases[c] \in RiskCase
      BY <2>3 DEF PrepareChange, TypeOK
    <3>3. ev.kind # "created" /\ k.version = cases[c].version /\ k.org = cases[c].org
      BY <3>1, <3>2, ChangesType DEF AuditEvent
    <3>4. \A s \in Threads : pending[s] # None /\ Creating(pending[s]) => pending[s].case # c
      BY <3>2 DEF CopyIsCurrentOrDoomed
    <3>5. QED
      BY <3>1, <3>2, <3>3, <3>4, <2>1
  <2>4. ASSUME NEW t \in Threads, Save(t)
        PROVE  IInv'
    <3> DEFINE p == pending[t]
               c == p.case
    <3>0. /\ p \in Pending /\ p # None /\ c \in Cases
          /\ cases' = [cases EXCEPT ![c] = Stored(cases[c], p.item)]
          /\ audit' = [audit EXCEPT ![c] = Append(@, p.event)]
          /\ pending' = [pending EXCEPT ![t] = None]
          /\ issued' = issued
      BY <2>4 DEF Save, TypeOK, Pending
    <3>1. cases'[c] \in RiskCase /\ cases'[c] # None
      <4>1. Stored(cases[c], p.item) \in RiskCase
        BY <3>0 DEF Stored, Pending, RiskCase
      <4>2. QED
        BY <3>0, <4>1, NoneAssumption DEF TypeOK
    <3>2. cases[c] # None => /\ cases'[c].org = cases[c].org
                             /\ cases'[c].version = cases[c].version + 1
                             /\ cases[c].version \in Nat
      BY <3>0, <2>4 DEF Save, Admissible, Stored, TypeOK, Pending, RiskCase
    <3>3. CopyIsCurrentOrDoomed'
      <4> SUFFICES ASSUME NEW s \in Threads, pending'[s] # None
                   PROVE  LET q == pending'[s] IN
                          /\ Creating(q) => cases'[q.case] = None /\ Creates(q.item, q.event)
                          /\ ~Creating(q) =>
                                /\ cases'[q.case] # None
                                /\ q.item.org = cases'[q.case].org
                                /\ q.item.version <= cases'[q.case].version
                                /\ q.item.version = cases'[q.case].version =>
                                      Changes(cases'[q.case], q.item, q.event)
        BY DEF CopyIsCurrentOrDoomed, Creating
      <4>1. s # t /\ pending'[s] = pending[s] /\ pending[s] \in Pending
        BY <3>0 DEF TypeOK
      <4>2. CASE pending[s].case # c
        BY <4>1, <4>2, <3>0 DEF CopyIsCurrentOrDoomed, Pending, TypeOK
      <4>3. CASE pending[s].case = c
        <5>1. ~Creating(pending[s]) /\ cases[c] # None
          BY <4>1, <4>3, <3>0 DEF CopyIsCurrentOrDoomed, IdsAreFresh
        <5>2. /\ pending[s].item.org = cases[c].org
              /\ pending[s].item.version <= cases[c].version
              /\ pending[s].item.version \in Nat
          BY <4>1, <4>3, <5>1 DEF CopyIsCurrentOrDoomed, Pending, RiskCase
        <5>3. QED
          BY <4>1, <4>3, <5>1, <5>2, <3>1, <3>2
      <4>4. QED
        BY <4>2, <4>3
    <3>4. IdsAreFresh'
      <4>1. \A d \in Cases : \A i \in DOMAIN audit'[d] :
               \/ i \in DOMAIN audit[d] /\ audit'[d][i] = audit[d][i]
               \/ audit'[d][i] = p.event
        BY <3>0 DEF TypeOK, Pending
      <4>2. \A s \in Threads : pending'[s] # None => s # t /\ pending'[s] = pending[s]
        BY <3>0 DEF TypeOK
      <4>3. QED
        BY <4>1, <4>2, <3>0 DEF IdsAreFresh, Creating
    <3>5. QED
      BY <3>3, <3>4
  <2>5. ASSUME NEW t \in Threads, Reject(t)
        PROVE  IInv'
    <3>1. /\ cases' = cases /\ audit' = audit /\ issued' = issued
          /\ \A s \in Threads : pending'[s] # None => pending'[s] = pending[s]
      BY <2>5 DEF Reject, TypeOK
    <3>2. QED
      BY <3>1 DEF CopyIsCurrentOrDoomed, IdsAreFresh, Creating
  <2>6. CASE Restart
    BY <2>6 DEF Restart, CopyIsCurrentOrDoomed, IdsAreFresh
  <2>7. CASE UNCHANGED vars
    BY <2>7 DEF vars, CopyIsCurrentOrDoomed, IdsAreFresh, Creating
  <2>8. QED
    BY <2>2, <2>3, <2>4, <2>5, <2>6, <2>7, StepShapes
<1>3. QED
  BY <1>1, <1>2, Typing, PTL DEF Spec

-----------------------------------------------------------------------------
\* What one call does to the row and names in its event.
LEMMA ChangesEffect ==
    ASSUME NEW k \in RiskCase, NEW k2, NEW ev \in AuditEvent, Changes(k, k2, ev)
    PROVE  /\ \/ ev.from = None /\ ev.to = None /\ k2.status = k.status
              \/ ev.from = k.status /\ ev.to = k2.status /\ k2.status \in Statuses
           /\ k2.actions = k.actions \cup
                 (IF ev.kind = "action_added" THEN {ev.id} ELSE {})
           /\ CommentIds(k2) = CommentIds(k) \cup
                 (IF ev.kind \in {"reopened", "overridden"} THEN {ev.id} ELSE {})
           /\ k.comments \subseteq k2.comments
           /\ k2.resolution = k.resolution \cup
                 (IF ev.kind = "resolution_evidence_added" THEN {ev.evidence} ELSE {})
<1> DEFINE Effect ==
       /\ \/ ev.from = None /\ ev.to = None /\ k2.status = k.status
          \/ ev.from = k.status /\ ev.to = k2.status /\ k2.status \in Statuses
       /\ k2.actions = k.actions \cup
             (IF ev.kind = "action_added" THEN {ev.id} ELSE {})
       /\ CommentIds(k2) = CommentIds(k) \cup
             (IF ev.kind \in {"reopened", "overridden"} THEN {ev.id} ELSE {})
       /\ k.comments \subseteq k2.comments
       /\ k2.resolution = k.resolution \cup
             (IF ev.kind = "resolution_evidence_added" THEN {ev.evidence} ELSE {})
<1>1. ASSUME NEW u \in Users, NEW target \in Statuses,
             k2 = Transitioned(k, target), ev = TransitionEvent(ev.id, u, k, target)
      PROVE  Effect
  <2>1. ev.kind = "transitioned" /\ ev.from = k.status /\ ev.to = target
    BY <1>1 DEF TransitionEvent, Event
  <2>2. /\ k2.status = target /\ k2.actions = k.actions
        /\ k2.comments = k.comments /\ k2.resolution = k.resolution
    BY <1>1 DEF Transitioned, RiskCase
  <2>3. QED
    BY <2>1, <2>2 DEF CommentIds
<1>2. ASSUME NEW u \in Users, k2 = ActionAdded(ev.id, u, k),
             ev = Event(ev.id, u, "action_added")
      PROVE  Effect
  <2>1. ev.kind = "action_added" /\ ev.from = None /\ ev.to = None
    BY <1>2 DEF Event
  <2>2. /\ k2.status = k.status /\ k2.actions = k.actions \cup {ev.id}
        /\ k2.comments = k.comments /\ k2.resolution = k.resolution
    BY <1>2 DEF ActionAdded, RiskCase
  <2>3. QED
    BY <2>1, <2>2 DEF CommentIds
<1>3. ASSUME NEW u \in Users, NEW e \in Evidence, k2 = EvidenceAdded(k, e),
             ev = EvidenceEvent(ev.id, u, e)
      PROVE  Effect
  <2>1. /\ ev.kind = "resolution_evidence_added" /\ ev.evidence = e
        /\ ev.from = None /\ ev.to = None
    BY <1>3 DEF EvidenceEvent, Event
  <2>2. /\ k2.status = k.status /\ k2.actions = k.actions
        /\ k2.comments = k.comments /\ k2.resolution = k.resolution \cup {e}
    BY <1>3 DEF EvidenceAdded, RiskCase
  <2>3. QED
    BY <2>1, <2>2 DEF CommentIds
<1>4. ASSUME NEW u \in Users, k2 = Reopened(ev.id, u, k),
             ev = ReopenEvent(ev.id, u, k)
      PROVE  Effect
  <2>1. ev.kind = "reopened" /\ ev.from = k.status /\ ev.to = "open"
    BY <1>4 DEF ReopenEvent, Event
  <2> DEFINE m0 == [id |-> ev.id, kind |-> "case_reopened", actor |-> u]
  <2>2. /\ k2.status = "open" /\ k2.actions = k.actions
        /\ k2.comments = k.comments \cup {m0} /\ k2.resolution = k.resolution
    BY <1>4 DEF Reopened, RiskCase
  <2>3. m0.id = ev.id
    OBVIOUS
  <2>4. QED
    BY <2>1, <2>2, <2>3 DEF Statuses, CommentIds
<1>5. ASSUME NEW u \in Users, k2 = Overridden(ev.id, u, k),
             ev = Event(ev.id, u, "overridden")
      PROVE  Effect
  <2>1. ev.kind = "overridden" /\ ev.from = None /\ ev.to = None
    BY <1>5 DEF Event
  <2> DEFINE m0 == [id |-> ev.id, kind |-> "human_override", actor |-> u]
  <2>2. /\ k2.status = k.status /\ k2.actions = k.actions
        /\ k2.comments = k.comments \cup {m0} /\ k2.resolution = k.resolution
    BY <1>5 DEF Overridden, RiskCase
  <2>3. m0.id = ev.id
    OBVIOUS
  <2>4. QED
    BY <2>1, <2>2, <2>3 DEF CommentIds
<1>6. QED
  BY <1>1, <1>2, <1>3, <1>4, <1>5 DEF Changes

\* The store changes only by an accepted save, and an accepted save is a new
\* case or a legal change of the row that is stored.
StoreChange ==
    \E c \in Cases, k \in RiskCase, ev \in AuditEvent :
        /\ ev.id \in 1..MaxCalls
        /\ \A d \in Cases : \A i \in DOMAIN audit[d] : audit[d][i].id # ev.id
        /\ audit' = [audit EXCEPT ![c] = Append(@, ev)]
        /\ \/ /\ cases[c] = None
              /\ Creates(k, ev)
              /\ cases' = [cases EXCEPT ![c] = k]
           \/ /\ cases[c] # None
              /\ Changes(cases[c], k, ev)
              /\ cases' = [cases EXCEPT ![c] = [k EXCEPT !.version = @ + 1]]

LEMMA StoreSteps ==
    ASSUME TypeOK, CopyIsCurrentOrDoomed, IdsAreFresh, [Next]_vars
    PROVE  UNCHANGED <<cases, audit>> \/ StoreChange
<1>1. ASSUME NEW t \in Threads, Save(t)
      PROVE  StoreChange
  <2> DEFINE p == pending[t]
             c == p.case
  <2>1. /\ p \in Pending /\ p # None /\ c \in Cases
        /\ cases' = [cases EXCEPT ![c] = Stored(cases[c], p.item)]
        /\ audit' = [audit EXCEPT ![c] = Append(@, p.event)]
        /\ Admissible(cases[c], p.item)
    BY <1>1 DEF Save, TypeOK, Pending
  <2>2. p.item \in RiskCase /\ p.event \in AuditEvent
    BY <2>1 DEF Pending
  <2>3. /\ p.event.id \in 1..MaxCalls
        /\ \A d \in Cases : \A i \in DOMAIN audit[d] : audit[d][i].id # p.event.id
    BY <2>1, BoundsAssumption DEF IdsAreFresh, TypeOK
  <2>4. CASE Creating(p)
    <3>1. cases[c] = None /\ Creates(p.item, p.event)
      BY <2>1, <2>4 DEF CopyIsCurrentOrDoomed
    <3>2. QED
      BY <2>1, <2>2, <2>3, <3>1 DEF StoreChange, Stored
  <2>5. CASE ~Creating(p)
    <3>1. cases[c] # None /\ Changes(cases[c], p.item, p.event)
      BY <2>1, <2>5 DEF CopyIsCurrentOrDoomed, Admissible
    <3>2. QED
      BY <2>1, <2>2, <2>3, <3>1 DEF StoreChange, Stored
  <2>6. QED
    BY <2>4, <2>5
<1>2. QED
  BY <1>1, StepShapes
     DEF PrepareCreate, PrepareChange, Prepare, Reject, Restart, vars

-----------------------------------------------------------------------------
\* No case is accepted without a verified path behind it or resolved without
\* verified resolution evidence, whatever calls overlap.
THEOREM ProofGateHolds == Spec => []ProofGate
<1>1. Init => ProofGate
  BY DEF Init, ProofGate
<1>2. ASSUME TypeOK, CopyIsCurrentOrDoomed, IdsAreFresh, ProofGate, [Next]_vars
      PROVE  ProofGate'
  <2>1. CASE UNCHANGED <<cases, audit>>
    BY <1>2, <2>1 DEF ProofGate
  <2>2. CASE StoreChange
    <3>1. PICK c \in Cases, k \in RiskCase, ev \in AuditEvent :
             \/ cases[c] = None /\ Creates(k, ev) /\ cases' = [cases EXCEPT ![c] = k]
             \/ /\ cases[c] # None
                /\ Changes(cases[c], k, ev)
                /\ cases' = [cases EXCEPT ![c] = [k EXCEPT !.version = @ + 1]]
      BY <2>2 DEF StoreChange
    <3> DEFINE Gate(r) ==
          /\ r.status \in {"accepted", "resolved"} => VerifiedIds[r.dossier] # {}
          /\ r.status = "resolved" => r.resolution # {}
          /\ r.resolution \subseteq VerifiedIds[r.dossier]
    <3>2. ASSUME cases[c] = None, Creates(k, ev) PROVE Gate(k)
      BY <3>2 DEF Creates, NewCase
    <3>3. ASSUME cases[c] # None, Changes(cases[c], k, ev)
          PROVE  Gate([k EXCEPT !.version = @ + 1])
      <4> DEFINE o == cases[c]
      <4>1. o \in RiskCase /\ Gate(o)
        BY <1>2, <3>3 DEF TypeOK, ProofGate, HasVerifiedPath
      <4>2. k.dossier = o.dossier
        BY <4>1, <3>3, ChangesType DEF AuditEvent
      <4>3. ASSUME NEW u \in Users, NEW target \in Statuses,
                   MayTransition(u, o, target), k = Transitioned(o, target)
            PROVE  Gate(k)
        <5>1. k.status = target /\ k.resolution = o.resolution
          BY <4>1, <4>3 DEF Transitioned, RiskCase
        <5>2. /\ target \in {"accepted", "resolved"} => VerifiedIds[o.dossier] # {}
              /\ target = "resolved" => o.resolution # {}
          BY <4>3 DEF MayTransition, HasVerifiedPath
        <5>3. QED
          BY <4>1, <4>2, <5>1, <5>2
      <4>4. ASSUME NEW e \in VerifiedIds[o.dossier], k = EvidenceAdded(o, e)
            PROVE  Gate(k)
        <5>1. k.status = o.status /\ k.resolution = o.resolution \cup {e}
          BY <4>1, <4>4 DEF EvidenceAdded, RiskCase
        <5>2. QED
          BY <4>1, <4>2, <4>4, <5>1
      <4>5. ASSUME NEW u \in Users,
                   \/ k = ActionAdded(ev.id, u, o)
                   \/ k = Reopened(ev.id, u, o)
                   \/ k = Overridden(ev.id, u, o)
            PROVE  Gate(k)
        <5>1. k.status \in {o.status, "open"} /\ k.resolution = o.resolution
          BY <4>1, <4>5 DEF ActionAdded, Reopened, Overridden, RiskCase
        <5>2. QED
          BY <4>1, <4>2, <5>1
      <4>6. Gate(k)
        BY <3>3, <4>3, <4>4, <4>5 DEF Changes, MayAddEvidence
      <4>7. QED
        BY <4>6 DEF RiskCase
    <3>4. cases'[c] # None => Gate(cases'[c])
      <4> HIDE DEF Gate
      <4>1. QED
        BY <1>2, <3>1, <3>2, <3>3 DEF TypeOK
    <3>5. \A d \in Cases \ {c} : cases'[d] = cases[d]
      BY <1>2, <3>1 DEF TypeOK
    <3>6. QED
      BY <1>2, <3>4, <3>5 DEF ProofGate, HasVerifiedPath
  <2>3. QED
    BY <1>2, <2>1, <2>2, StoreSteps
<1>3. QED
  BY <1>1, <1>2, Typing, CopiesAreCurrentOrDoomed, PTL DEF Spec

-----------------------------------------------------------------------------
LEMMA NoneIsNoStatus == \A s \in Statuses : s # None
BY RulesAssumption

\* The trail of every case explains its row.
THEOREM AuditExplains == Spec => []AuditExplainsRow
<1>1. Init => AuditExplainsRow
  BY DEF Init, AuditExplainsRow
<1>2. ASSUME TypeOK, CopyIsCurrentOrDoomed, IdsAreFresh, AuditExplainsRow, [Next]_vars
      PROVE  AuditExplainsRow'
  <2>1. CASE UNCHANGED <<cases, audit>>
    BY <1>2, <2>1 DEF AuditExplainsRow
  <2>2. CASE StoreChange
    <3>1. PICK c \in Cases, k \in RiskCase, ev \in AuditEvent :
             /\ audit' = [audit EXCEPT ![c] = Append(@, ev)]
             /\ \/ /\ cases[c] = None
                   /\ Creates(k, ev)
                   /\ cases' = [cases EXCEPT ![c] = k]
                \/ /\ cases[c] # None
                   /\ Changes(cases[c], k, ev)
                   /\ cases' = [cases EXCEPT ![c] = [k EXCEPT !.version = @ + 1]]
      BY <2>2 DEF StoreChange
    <3> DEFINE Explains(r, trail) ==
          /\ Len(trail) = r.version + 1
          /\ LeadsTo(trail, Len(trail), r.status)
          /\ \A i \in DOMAIN trail : trail[i].from # None =>
                LeadsTo(trail, i - 1, trail[i].from)
          /\ r.actions = IdsOf(trail, {"action_added"})
          /\ CommentIds(r) = IdsOf(trail, {"reopened", "overridden"})
          /\ \A e \in Evidence : e \in r.resolution <=>
                \E i \in DOMAIN trail :
                    /\ trail[i].kind = "resolution_evidence_added"
                    /\ trail[i].evidence = e
    <3>2. audit[c] \in Seq(AuditEvent)
      BY <1>2 DEF TypeOK
    <3> DEFINE trail == audit[c]
               n == Len(trail)
               trail2 == Append(trail, ev)
    <3>3. /\ n \in Nat /\ Len(trail2) = n + 1 /\ trail2[n + 1] = ev
          /\ DOMAIN trail = 1..n /\ DOMAIN trail2 = 1..(n + 1)
          /\ \A i \in 1..n : trail2[i] = trail[i]
      BY <3>2
    <3>4. ASSUME cases[c] = None, Creates(k, ev) PROVE Explains(k, trail2)
      <4>1. trail = <<>> /\ n = 0
        BY <1>2, <3>4 DEF AuditExplainsRow
      <4>2. /\ k.version = 0 /\ k.status = "detected" /\ k.actions = {}
            /\ CommentIds(k) = {} /\ k.resolution = {}
            /\ ev.kind = "created" /\ ev.from = None /\ ev.to = "detected"
        BY <3>4 DEF Creates, NewCase, CreateEvent, Event, CommentIds
      <4>3. LeadsTo(trail2, 1, "detected")
        BY <3>3, <4>1, <4>2, NoneIsNoStatus DEF LeadsTo, Statuses
      <4>4. /\ IdsOf(trail2, {"action_added"}) = {}
            /\ IdsOf(trail2, {"reopened", "overridden"}) = {}
        BY <3>3, <4>1, <4>2 DEF IdsOf
      <4> HIDE DEF trail2, trail
      <4>5. QED
        BY <3>3, <4>1, <4>2, <4>3, <4>4
    <3>5. ASSUME cases[c] # None, Changes(cases[c], k, ev)
          PROVE  Explains([k EXCEPT !.version = @ + 1], trail2)
      <4> DEFINE o == cases[c]
                 r == [k EXCEPT !.version = @ + 1]
      <4>1. o \in RiskCase /\ Explains(o, trail)
        BY <1>2, <3>5 DEF TypeOK, AuditExplainsRow
      <4>2. /\ r.version = k.version + 1 /\ r.status = k.status
            /\ r.actions = k.actions /\ CommentIds(r) = CommentIds(k)
            /\ r.resolution = k.resolution
        BY DEF RiskCase, CommentIds
      <4>3. k.version = o.version /\ o.version \in Nat
        BY <4>1, <3>5, ChangesType DEF AuditEvent, RiskCase
      <4>4. /\ \/ ev.from = None /\ ev.to = None /\ k.status = o.status
               \/ ev.from = o.status /\ ev.to = k.status /\ k.status \in Statuses
            /\ k.actions = o.actions \cup
                  (IF ev.kind = "action_added" THEN {ev.id} ELSE {})
            /\ CommentIds(k) = CommentIds(o) \cup
                  (IF ev.kind \in {"reopened", "overridden"} THEN {ev.id} ELSE {})
            /\ k.resolution = o.resolution \cup
                  (IF ev.kind = "resolution_evidence_added" THEN {ev.evidence} ELSE {})
        BY <4>1, <3>5, ChangesEffect
      <4> HIDE DEF trail2, trail
      <4>5. \A i \in 0..n : \A s : LeadsTo(trail, i, s) <=> LeadsTo(trail2, i, s)
        BY <3>3 DEF LeadsTo
      <4>6. LeadsTo(trail2, n + 1, k.status)
        <5>1. CASE ev.to = None /\ k.status = o.status
          BY <5>1, <3>3, <4>1 DEF LeadsTo
        <5>2. CASE ev.to = k.status /\ k.status \in Statuses
          BY <5>2, <3>3, NoneIsNoStatus DEF LeadsTo
        <5>3. QED
          BY <4>4, <5>1, <5>2
      <4>7. \A i \in 1..(n + 1) : trail2[i].from # None =>
                LeadsTo(trail2, i - 1, trail2[i].from)
        <5>1. \A i \in 1..n : trail[i].from # None => LeadsTo(trail, i - 1, trail[i].from)
          BY <4>1, <3>3
        <5>2. LeadsTo(trail, n, o.status)
          BY <4>1
        <5> HIDE DEF o, Explains
        <5>3. ASSUME NEW i \in 1..(n + 1), trail2[i].from # None
              PROVE  LeadsTo(trail2, i - 1, trail2[i].from)
          <6>1. CASE i = n + 1
            BY <6>1, <5>3, <3>3, <5>2, <4>4, <4>5
          <6>2. CASE i \in 1..n
            <7>1. i - 1 \in 0..n
              BY <6>2, <3>3
            <7>2. QED
              BY <6>2, <7>1, <5>3, <3>3, <5>1, <4>5
          <6>3. QED
            BY <6>1, <6>2, <3>3
        <5>4. QED
          BY <5>3
      <4>8. ASSUME NEW kinds
            PROVE  IdsOf(trail2, kinds) =
                     IdsOf(trail, kinds) \cup (IF ev.kind \in kinds THEN {ev.id} ELSE {})
        BY <3>3 DEF IdsOf
      <4>9. /\ r.actions = IdsOf(trail2, {"action_added"})
            /\ CommentIds(r) = IdsOf(trail2, {"reopened", "overridden"})
        <5>1. /\ o.actions = IdsOf(trail, {"action_added"})
              /\ CommentIds(o) = IdsOf(trail, {"reopened", "overridden"})
          BY <4>1
        <5>2. IdsOf(trail2, {"action_added"}) =
                 IdsOf(trail, {"action_added"})
                    \cup (IF ev.kind = "action_added" THEN {ev.id} ELSE {})
          BY <4>8
        <5>3. IdsOf(trail2, {"reopened", "overridden"}) =
                 IdsOf(trail, {"reopened", "overridden"})
                    \cup (IF ev.kind \in {"reopened", "overridden"} THEN {ev.id} ELSE {})
          BY <4>8
        <5> HIDE DEF Explains, o, r
        <5>4. r.actions = IdsOf(trail2, {"action_added"})
          BY <4>2, <4>4, <5>1, <5>2
        <5>5. CommentIds(r) = IdsOf(trail2, {"reopened", "overridden"})
          BY <4>2, <4>4, <5>1, <5>3
        <5>6. QED
          BY <5>4, <5>5
      <4>10. ASSUME NEW e \in Evidence
             PROVE  e \in r.resolution <=>
                      \E i \in DOMAIN trail2 :
                          /\ trail2[i].kind = "resolution_evidence_added"
                          /\ trail2[i].evidence = e
        <5>1. e \in o.resolution <=>
                 \E i \in 1..n : /\ trail[i].kind = "resolution_evidence_added"
                                 /\ trail[i].evidence = e
          BY <4>1, <3>3
        <5>2. e \in k.resolution <=>
                 \/ e \in o.resolution
                 \/ ev.kind = "resolution_evidence_added" /\ ev.evidence = e
          BY <4>4
        <5>3. QED
          BY <5>1, <5>2, <4>2, <3>3
      <4>11. Len(trail2) = r.version + 1
        BY <4>1, <4>2, <4>3, <3>3
      <4>12. QED
        BY <3>3, <4>2, <4>6, <4>7, <4>9, <4>10, <4>11
    <3>6. /\ cases'[c] # None /\ Explains(cases'[c], trail2) /\ audit'[c] = trail2
      <4>1. [k EXCEPT !.version = @ + 1] \in RiskCase
        BY DEF RiskCase
      <4> HIDE DEF Explains
      <4>2. QED
        BY <1>2, <3>1, <3>4, <3>5, <4>1, NoneAssumption DEF TypeOK
    <3>7. \A d \in Cases \ {c} : cases'[d] = cases[d] /\ audit'[d] = audit[d]
      BY <1>2, <3>1 DEF TypeOK
    <3>8. QED
      <4> HIDE DEF Explains
      <4>1. \A d \in Cases : IF cases'[d] = None THEN audit'[d] = <<>>
                                                 ELSE Explains(cases'[d], audit'[d])
        <5>1. ASSUME NEW d \in Cases
              PROVE  IF cases[d] = None THEN audit[d] = <<>>
                                        ELSE Explains(cases[d], audit[d])
          BY <1>2 DEF AuditExplainsRow, Explains
        <5>2. QED
          BY <3>6, <3>7, <5>1
      <4>2. QED
        BY <4>1 DEF AuditExplainsRow, Explains
  <2>3. QED
    BY <1>2, <2>1, <2>2, StoreSteps
<1>3. QED
  BY <1>1, <1>2, Typing, CopiesAreCurrentOrDoomed, PTL DEF Spec

-----------------------------------------------------------------------------
\* No transition leaves "closed".
LEMMA ClosedHasNoExit ==
    ASSUME NEW k \in RiskCase, NEW k2, NEW ev, Changes(k, k2, ev), k.status = "closed"
    PROVE  k2.status = "closed"
<1>1. ASSUME NEW u \in Users, NEW target \in Statuses, MayTransition(u, k, target)
      PROVE  FALSE
  BY <1>1 DEF MayTransition, Transitions
<1>2. ASSUME NEW u \in Users, MayReopen(u, k) PROVE FALSE
  BY <1>2 DEF MayReopen
<1>3. ASSUME NEW u \in Users,
             \/ k2 = ActionAdded(ev.id, u, k)
             \/ \E e \in Evidence : k2 = EvidenceAdded(k, e)
             \/ k2 = Overridden(ev.id, u, k)
      PROVE  k2.status = "closed"
  BY <1>3 DEF ActionAdded, EvidenceAdded, Overridden, RiskCase
<1>4. QED
  BY <1>1, <1>2, <1>3 DEF Changes

\* A closed case stays closed, whatever was in flight when it was closed.
THEOREM ClosedForGood == Spec => ClosedIsFinal
<1> DEFINE Final ==
      \A c \in Cases : (cases[c] # None /\ cases[c].status = "closed")
                          => (cases'[c] # None /\ cases'[c].status = "closed")
<1>1. ASSUME TypeOK, CopyIsCurrentOrDoomed, IdsAreFresh, [Next]_vars
      PROVE  Final
  <2>1. CASE UNCHANGED <<cases, audit>>
    BY <2>1
  <2>2. CASE StoreChange
    <3>1. PICK c \in Cases, k \in RiskCase, ev \in AuditEvent :
             \/ cases[c] = None /\ cases' = [cases EXCEPT ![c] = k]
             \/ /\ cases[c] # None
                /\ Changes(cases[c], k, ev)
                /\ cases' = [cases EXCEPT ![c] = [k EXCEPT !.version = @ + 1]]
      BY <2>2 DEF StoreChange
    <3> DEFINE r == [k EXCEPT !.version = @ + 1]
    <3>2. r \in RiskCase /\ r # None /\ r.status = k.status
      BY NoneAssumption DEF RiskCase
    <3>3. cases[c] # None /\ cases[c].status = "closed"
             => cases'[c] # None /\ cases'[c].status = "closed"
      <4> SUFFICES ASSUME cases[c] # None, cases[c].status = "closed"
                   PROVE  cases'[c] # None /\ cases'[c].status = "closed"
        OBVIOUS
      <4>1. cases[c] \in RiskCase
        BY <1>1 DEF TypeOK
      <4>2. k.status = "closed" /\ cases' = [cases EXCEPT ![c] = r]
        BY <3>1, <4>1, ClosedHasNoExit
      <4>3. QED
        BY <1>1, <3>2, <4>2 DEF TypeOK
    <3>4. \A d \in Cases \ {c} : cases'[d] = cases[d]
      BY <1>1, <3>1 DEF TypeOK
    <3>5. QED
      BY <3>3, <3>4
  <2>3. QED
    BY <1>1, <2>1, <2>2, StoreSteps
<1>2. QED
  BY <1>1, Typing, CopiesAreCurrentOrDoomed, PTL DEF Spec, ClosedIsFinal

-----------------------------------------------------------------------------
\* Concurrent calls never erase what an earlier call recorded.
THEOREM NothingIsEverLost == Spec => NothingIsLost
<1> DEFINE Grows ==
      \A c \in Cases : cases[c] # None =>
          /\ cases'[c] # None
          /\ cases[c].actions \subseteq cases'[c].actions
          /\ cases[c].comments \subseteq cases'[c].comments
          /\ cases[c].resolution \subseteq cases'[c].resolution
          /\ cases[c].version <= cases'[c].version
          /\ Len(audit[c]) <= Len(audit'[c])
          /\ \A i \in DOMAIN audit[c] : audit'[c][i] = audit[c][i]
<1>1. ASSUME TypeOK, CopyIsCurrentOrDoomed, IdsAreFresh, [Next]_vars
      PROVE  Grows
  <2>0. \A c \in Cases : /\ audit[c] \in Seq(AuditEvent)
                         /\ cases[c] # None => cases[c] \in RiskCase
    BY <1>1 DEF TypeOK
  <2>1. CASE UNCHANGED <<cases, audit>>
    BY <2>0, <2>1 DEF RiskCase
  <2>2. CASE StoreChange
    <3>1. PICK c \in Cases, k \in RiskCase, ev \in AuditEvent :
             /\ audit' = [audit EXCEPT ![c] = Append(@, ev)]
             /\ \/ cases[c] = None /\ cases' = [cases EXCEPT ![c] = k]
                \/ /\ cases[c] # None
                   /\ Changes(cases[c], k, ev)
                   /\ cases' = [cases EXCEPT ![c] = [k EXCEPT !.version = @ + 1]]
      BY <2>2 DEF StoreChange
    <3> DEFINE r == [k EXCEPT !.version = @ + 1]
    <3>2. /\ r \in RiskCase /\ r # None
          /\ r.actions = k.actions /\ r.comments = k.comments
          /\ r.resolution = k.resolution /\ r.version = k.version + 1
          /\ k.version \in Nat
      BY NoneAssumption DEF RiskCase
    <3>3. ASSUME cases[c] # None
          PROVE  /\ cases'[c] = r
                 /\ cases[c].actions \subseteq r.actions
                 /\ cases[c].comments \subseteq r.comments
                 /\ cases[c].resolution \subseteq r.resolution
                 /\ cases[c].version <= r.version
      <4>1. cases[c] \in RiskCase /\ Changes(cases[c], k, ev) /\ cases'[c] = r
        BY <1>1, <3>1, <3>3 DEF TypeOK
      <4>2. /\ cases[c].actions \subseteq k.actions
            /\ cases[c].comments \subseteq k.comments
            /\ cases[c].resolution \subseteq k.resolution
        BY <4>1, ChangesEffect
      <4>3. k.version = cases[c].version
        BY <4>1, ChangesType DEF AuditEvent
      <4>4. QED
        BY <4>1, <4>2, <4>3, <3>2
    <3>4. audit'[c] = Append(audit[c], ev)
      BY <1>1, <3>1 DEF TypeOK
    <3>5. /\ Len(audit[c]) <= Len(audit'[c])
          /\ \A i \in DOMAIN audit[c] : audit'[c][i] = audit[c][i]
      BY <2>0, <3>4
    <3>6. \A d \in Cases \ {c} : cases'[d] = cases[d] /\ audit'[d] = audit[d]
      BY <1>1, <3>1 DEF TypeOK
    <3>7. ASSUME NEW d \in Cases, cases[d] # None
          PROVE  /\ cases'[d] # None
                 /\ cases[d].actions \subseteq cases'[d].actions
                 /\ cases[d].comments \subseteq cases'[d].comments
                 /\ cases[d].resolution \subseteq cases'[d].resolution
                 /\ cases[d].version <= cases'[d].version
                 /\ Len(audit[d]) <= Len(audit'[d])
                 /\ \A i \in DOMAIN audit[d] : audit'[d][i] = audit[d][i]
      <4>1. CASE d = c
        BY <4>1, <3>2, <3>3, <3>5, <3>7
      <4>2. CASE d # c
        <5>1. cases[d].version \in Nat /\ Len(audit[d]) \in Nat
          BY <2>0, <3>7 DEF RiskCase
        <5>2. QED
          BY <4>2, <3>6, <3>7, <5>1
      <4>3. QED
        BY <4>1, <4>2
    <3>8. QED
      BY <3>7
  <2>3. QED
    BY <1>1, <2>1, <2>2, StoreSteps
<1>2. QED
  BY <1>1, Typing, CopiesAreCurrentOrDoomed, PTL DEF Spec, NothingIsLost

-----------------------------------------------------------------------------
\* The principal named in an event was allowed to make the call.
LEMMA ChangesAuthorized ==
    ASSUME NEW k, NEW k2, NEW ev, Changes(k, k2, ev)
    PROVE  Authorized(ev.actor, NeededPermission(ev.kind), k.org)
<1>1. ASSUME NEW u \in Users, NEW target \in Statuses, MayTransition(u, k, target),
             ev = TransitionEvent(ev.id, u, k, target)
      PROVE  Authorized(ev.actor, NeededPermission(ev.kind), k.org)
  <2>1. ev.actor = u /\ ev.kind = "transitioned"
    BY <1>1 DEF TransitionEvent, Event
  <2>2. QED
    BY <1>1, <2>1 DEF MayTransition, NeededPermission
<1>2. ASSUME NEW u \in Users, MayAddAction(u, k), ev = Event(ev.id, u, "action_added")
      PROVE  Authorized(ev.actor, NeededPermission(ev.kind), k.org)
  <2>1. ev.actor = u /\ ev.kind = "action_added"
    BY <1>2 DEF Event
  <2>2. QED
    BY <1>2, <2>1 DEF MayAddAction, NeededPermission
<1>3. ASSUME NEW u \in Users, NEW e \in Evidence, MayAddEvidence(u, k, e),
             ev = EvidenceEvent(ev.id, u, e)
      PROVE  Authorized(ev.actor, NeededPermission(ev.kind), k.org)
  <2>1. ev.actor = u /\ ev.kind = "resolution_evidence_added"
    BY <1>3 DEF EvidenceEvent, Event
  <2>2. QED
    BY <1>3, <2>1 DEF MayAddEvidence, NeededPermission
<1>4. ASSUME NEW u \in Users, MayReopen(u, k), ev = ReopenEvent(ev.id, u, k)
      PROVE  Authorized(ev.actor, NeededPermission(ev.kind), k.org)
  <2>1. ev.actor = u /\ ev.kind = "reopened"
    BY <1>4 DEF ReopenEvent, Event
  <2>2. QED
    BY <1>4, <2>1 DEF MayReopen, NeededPermission
<1>5. ASSUME NEW u \in Users, NEW original, NEW replacement,
             MayOverride(u, k, original, replacement), ev = Event(ev.id, u, "overridden")
      PROVE  Authorized(ev.actor, NeededPermission(ev.kind), k.org)
  <2>1. ev.actor = u /\ ev.kind = "overridden"
    BY <1>5 DEF Event
  <2>2. QED
    BY <1>5, <2>1 DEF MayOverride, NeededPermission
<1>6. QED
  BY <1>1, <1>2, <1>3, <1>4, <1>5 DEF Changes

\* Tenants stay apart: every case lives in the tenant of its snapshot and every
\* event of its trail was made by a principal of that tenant with the
\* permission the call needs.
THEOREM TenantsApart == Spec => []TenantsStayApart
<1>1. Init => TenantsStayApart
  BY DEF Init, TenantsStayApart
<1>2. ASSUME TypeOK, CopyIsCurrentOrDoomed, IdsAreFresh, AuditExplainsRow,
             TenantsStayApart, [Next]_vars
      PROVE  TenantsStayApart'
  <2>1. CASE UNCHANGED <<cases, audit>>
    BY <1>2, <2>1 DEF TenantsStayApart
  <2>2. CASE StoreChange
    <3>1. PICK c \in Cases, k \in RiskCase, ev \in AuditEvent :
             /\ audit' = [audit EXCEPT ![c] = Append(@, ev)]
             /\ \/ /\ cases[c] = None
                   /\ Creates(k, ev)
                   /\ cases' = [cases EXCEPT ![c] = k]
                \/ /\ cases[c] # None
                   /\ Changes(cases[c], k, ev)
                   /\ cases' = [cases EXCEPT ![c] = [k EXCEPT !.version = @ + 1]]
      BY <2>2 DEF StoreChange
    <3> DEFINE Apart(r, trail) ==
          /\ r.org = DossierOrg[r.dossier]
          /\ \A i \in DOMAIN trail :
                Authorized(trail[i].actor, NeededPermission(trail[i].kind), r.org)
    <3>2. /\ audit[c] \in Seq(AuditEvent) /\ audit'[c] = Append(audit[c], ev)
          /\ DOMAIN audit'[c] = 1..(Len(audit[c]) + 1)
          /\ DOMAIN audit[c] = 1..Len(audit[c]) /\ Len(audit[c]) \in Nat
          /\ audit'[c][Len(audit[c]) + 1] = ev
          /\ \A i \in 1..Len(audit[c]) : audit'[c][i] = audit[c][i]
      BY <1>2, <3>1 DEF TypeOK
    <3>3. ASSUME cases[c] = None, Creates(k, ev) PROVE Apart(k, audit'[c])
      <4>1. Len(audit[c]) = 0
        BY <1>2, <3>3 DEF AuditExplainsRow
      <4>2. PICK u \in Users, d \in Dossiers :
               MayCreate(u, d) /\ k = NewCase(u, d) /\ ev = CreateEvent(ev.id, u)
        BY <3>3 DEF Creates
      <4>3. ev.actor = u /\ ev.kind = "created" /\ k.org = OrgOf[u] /\ k.dossier = d
        BY <4>2 DEF CreateEvent, Event, NewCase
      <4>4. OrgOf[u] = DossierOrg[d] /\ Authorized(u, "write", DossierOrg[d])
        BY <4>2 DEF MayCreate, Authorized
      <4>5. QED
        BY <3>2, <4>1, <4>3, <4>4 DEF NeededPermission
    <3>4. ASSUME cases[c] # None, Changes(cases[c], k, ev)
          PROVE  Apart([k EXCEPT !.version = @ + 1], audit'[c])
      <4>1. cases[c] \in RiskCase /\ Apart(cases[c], audit[c])
        BY <1>2, <3>4 DEF TypeOK, TenantsStayApart
      <4>2. k.org = cases[c].org /\ k.dossier = cases[c].dossier
        BY <4>1, <3>4, ChangesType DEF AuditEvent
      <4>3. Authorized(ev.actor, NeededPermission(ev.kind), cases[c].org)
        BY <3>4, ChangesAuthorized
      <4>4. /\ [k EXCEPT !.version = @ + 1].org = k.org
            /\ [k EXCEPT !.version = @ + 1].dossier = k.dossier
        BY DEF RiskCase
      <4>5. QED
        BY <3>2, <4>1, <4>2, <4>3, <4>4
    <3>5. cases'[c] # None => Apart(cases'[c], audit'[c])
      <4> HIDE DEF Apart
      <4>1. QED
        BY <1>2, <3>1, <3>3, <3>4 DEF TypeOK
    <3>6. \A d \in Cases \ {c} : cases'[d] = cases[d] /\ audit'[d] = audit[d]
      BY <1>2, <3>1 DEF TypeOK
    <3>7. QED
      BY <1>2, <3>5, <3>6 DEF TenantsStayApart
  <2>3. QED
    BY <1>2, <2>1, <2>2, StoreSteps
<1>3. QED
  BY <1>1, <1>2, Typing, CopiesAreCurrentOrDoomed, AuditExplains, PTL DEF Spec

-----------------------------------------------------------------------------
\* The ledger's copy of the rules is the service's own.
LEMMA SameAuthorization ==
  ASSUME NEW u, NEW permission, NEW org
  PROVE  Ledger!Authorized(u, permission, org) <=> Authorized(u, permission, org)
BY DEF Ledger!Authorized, Authorized, Ledger!Permissions, Permissions

LEMMA SameRules ==
  ASSUME NEW u, NEW k, NEW id
  PROVE  /\ \A d : Ledger!MayCreate(u, d) <=> MayCreate(u, d)
         /\ \A target : Ledger!MayTransition(u, k, target) <=> MayTransition(u, k, target)
         /\ Ledger!MayAddAction(u, k) <=> MayAddAction(u, k)
         /\ \A e : Ledger!MayAddEvidence(u, k, e) <=> MayAddEvidence(u, k, e)
         /\ Ledger!MayReopen(u, k) <=> MayReopen(u, k)
         /\ \A original, replacement :
               Ledger!MayOverride(u, k, original, replacement)
                  <=> MayOverride(u, k, original, replacement)
<1>1. \A d : Ledger!MayCreate(u, d) <=> MayCreate(u, d)
  BY SameAuthorization DEF Ledger!MayCreate, MayCreate
<1>2. \A target : Ledger!MayTransition(u, k, target) <=> MayTransition(u, k, target)
  <2>1. Ledger!Transitions = Transitions
    BY DEF Ledger!Transitions, Transitions
  <2>2. Ledger!HasVerifiedPath(k) <=> HasVerifiedPath(k)
    BY DEF Ledger!HasVerifiedPath, HasVerifiedPath
  <2>3. QED
    BY <2>1, <2>2, SameAuthorization DEF Ledger!MayTransition, MayTransition
<1>3. Ledger!MayAddAction(u, k) <=> MayAddAction(u, k)
  BY SameAuthorization DEF Ledger!MayAddAction, MayAddAction
<1>4. \A e : Ledger!MayAddEvidence(u, k, e) <=> MayAddEvidence(u, k, e)
  BY SameAuthorization DEF Ledger!MayAddEvidence, MayAddEvidence
<1>5. Ledger!MayReopen(u, k) <=> MayReopen(u, k)
  BY SameAuthorization DEF Ledger!MayReopen, MayReopen
<1>6. \A original, replacement :
         Ledger!MayOverride(u, k, original, replacement)
            <=> MayOverride(u, k, original, replacement)
  BY SameAuthorization DEF Ledger!MayOverride, MayOverride
<1>7. QED
  BY <1>1, <1>2, <1>3, <1>4, <1>5, <1>6

LEMMA SameRows ==
  ASSUME NEW u, NEW k, NEW id
  PROVE  /\ \A d : Ledger!NewCase(u, d) = NewCase(u, d)
         /\ Ledger!CreateEvent(id, u) = CreateEvent(id, u)
         /\ \A target : /\ Ledger!Transitioned(k, target) = Transitioned(k, target)
                        /\ Ledger!TransitionEvent(id, u, k, target)
                              = TransitionEvent(id, u, k, target)
         /\ Ledger!ActionAdded(id, u, k) = ActionAdded(id, u, k)
         /\ \A e : /\ Ledger!EvidenceAdded(k, e) = EvidenceAdded(k, e)
                   /\ Ledger!EvidenceEvent(id, u, e) = EvidenceEvent(id, u, e)
         /\ Ledger!Reopened(id, u, k) = Reopened(id, u, k)
         /\ Ledger!ReopenEvent(id, u, k) = ReopenEvent(id, u, k)
         /\ Ledger!Overridden(id, u, k) = Overridden(id, u, k)
         /\ \A kind : Ledger!Event(id, u, kind) = Event(id, u, kind)
<1>1. \A kind : Ledger!Event(id, u, kind) = Event(id, u, kind)
  BY DEF Ledger!Event, Event
<1>2. \A d : Ledger!NewCase(u, d) = NewCase(u, d)
  BY DEF Ledger!NewCase, NewCase
<1>3. Ledger!CreateEvent(id, u) = CreateEvent(id, u)
  BY <1>1 DEF Ledger!CreateEvent, CreateEvent
<1>4. \A target : /\ Ledger!Transitioned(k, target) = Transitioned(k, target)
                  /\ Ledger!TransitionEvent(id, u, k, target)
                        = TransitionEvent(id, u, k, target)
  BY <1>1 DEF Ledger!Transitioned, Transitioned, Ledger!TransitionEvent, TransitionEvent
<1>5. Ledger!ActionAdded(id, u, k) = ActionAdded(id, u, k)
  BY DEF Ledger!ActionAdded, ActionAdded
<1>6. \A e : /\ Ledger!EvidenceAdded(k, e) = EvidenceAdded(k, e)
             /\ Ledger!EvidenceEvent(id, u, e) = EvidenceEvent(id, u, e)
  BY <1>1 DEF Ledger!EvidenceAdded, EvidenceAdded, Ledger!EvidenceEvent, EvidenceEvent
<1>7. Ledger!Reopened(id, u, k) = Reopened(id, u, k)
  BY DEF Ledger!Reopened, Reopened
<1>8. Ledger!ReopenEvent(id, u, k) = ReopenEvent(id, u, k)
  BY <1>1 DEF Ledger!ReopenEvent, ReopenEvent
<1>9. Ledger!Overridden(id, u, k) = Overridden(id, u, k)
  BY DEF Ledger!Overridden, Overridden
<1>10. QED
  BY <1>1, <1>2, <1>3, <1>4, <1>5, <1>6, <1>7, <1>8, <1>9

-----------------------------------------------------------------------------
\* Optimistic saves implement the atomic ledger: a call that reads, checks and
\* saves in separate steps is indistinguishable from one that does all three on
\* the stored row at the moment of the save.
THEOREM RefinesLedger == Spec => ImplementsLedger
<1>1. Init => Ledger!LedgerInit
  BY DEF Init, Ledger!LedgerInit
<1>2. ASSUME TypeOK, CopyIsCurrentOrDoomed, IdsAreFresh, [Next]_vars
      PROVE  [Ledger!LedgerNext]_<<cases, audit>>
  <2>1. CASE StoreChange
    <3>1. PICK c \in Cases, k \in RiskCase, ev \in AuditEvent :
             /\ ev.id \in 1..MaxCalls
             /\ \A d \in Cases : \A i \in DOMAIN audit[d] : audit[d][i].id # ev.id
             /\ audit' = [audit EXCEPT ![c] = Append(@, ev)]
             /\ \/ /\ cases[c] = None
                   /\ Creates(k, ev)
                   /\ cases' = [cases EXCEPT ![c] = k]
                \/ /\ cases[c] # None
                   /\ Changes(cases[c], k, ev)
                   /\ cases' = [cases EXCEPT ![c] = [k EXCEPT !.version = @ + 1]]
      BY <2>1 DEF StoreChange
    <3>2. Ledger!Unused(ev.id)
      BY <3>1 DEF Ledger!Unused
    <3>3. ASSUME cases[c] = None, Creates(k, ev), cases' = [cases EXCEPT ![c] = k]
          PROVE  \E u \in Users : Ledger!LedgerCreate(ev.id, u, c)
      <4>1. PICK u \in Users, d \in Dossiers :
               /\ MayCreate(u, d)
               /\ k = NewCase(u, d)
               /\ ev = CreateEvent(ev.id, u)
        BY <3>3 DEF Creates
      <4>2. /\ Ledger!MayCreate(u, d)
            /\ k = Ledger!NewCase(u, d)
            /\ ev = Ledger!CreateEvent(ev.id, u)
        BY <4>1, SameRules, SameRows
      <4>3. Ledger!Record(c, k, ev)
        BY <3>1, <3>3 DEF Ledger!Record
      <4>4. Ledger!LedgerCreate(ev.id, u, c)
        BY <3>3, <4>2, <4>3 DEF Ledger!LedgerCreate
      <4>5. QED
        BY <4>4
    <3>4. ASSUME cases[c] # None, Changes(cases[c], k, ev),
                 cases' = [cases EXCEPT ![c] = [k EXCEPT !.version = @ + 1]]
          PROVE  \E u \in Users :
                    \/ Ledger!LedgerTransition(ev.id, u, c)
                    \/ Ledger!LedgerAddAction(ev.id, u, c)
                    \/ Ledger!LedgerAddEvidence(ev.id, u, c)
                    \/ Ledger!LedgerReopen(ev.id, u, c)
                    \/ Ledger!LedgerOverride(ev.id, u, c)
      <4>1. Ledger!Update(c, k, ev)
        BY <3>1, <3>4 DEF Ledger!Update, Ledger!Record
      <4>2. CASE \E u \in Users, target \in Statuses :
                    /\ MayTransition(u, cases[c], target)
                    /\ k = Transitioned(cases[c], target)
                    /\ ev = TransitionEvent(ev.id, u, cases[c], target)
        <5>1. PICK u \in Users, target \in Statuses :
                 /\ MayTransition(u, cases[c], target)
                 /\ k = Transitioned(cases[c], target)
                 /\ ev = TransitionEvent(ev.id, u, cases[c], target)
          BY <4>2
        <5>2. /\ Ledger!MayTransition(u, cases[c], target)
              /\ k = Ledger!Transitioned(cases[c], target)
              /\ ev = Ledger!TransitionEvent(ev.id, u, cases[c], target)
          BY <5>1, SameRules, SameRows
        <5>3. target \in Ledger!Statuses
          BY DEF Statuses, Ledger!Statuses
        <5>4. Ledger!LedgerTransition(ev.id, u, c)
          BY <3>4, <4>1, <5>2, <5>3 DEF Ledger!LedgerTransition
        <5>5. QED
          BY <5>4
      <4>3. CASE \E u \in Users :
                    /\ MayAddAction(u, cases[c])
                    /\ k = ActionAdded(ev.id, u, cases[c])
                    /\ ev = Event(ev.id, u, "action_added")
        <5>1. PICK u \in Users :
                 /\ MayAddAction(u, cases[c])
                 /\ k = ActionAdded(ev.id, u, cases[c])
                 /\ ev = Event(ev.id, u, "action_added")
          BY <4>3
        <5>2. /\ Ledger!MayAddAction(u, cases[c])
              /\ k = Ledger!ActionAdded(ev.id, u, cases[c])
              /\ ev = Ledger!Event(ev.id, u, "action_added")
          BY <5>1, SameRules, SameRows
        <5>3. Ledger!LedgerAddAction(ev.id, u, c)
          BY <3>4, <4>1, <5>2 DEF Ledger!LedgerAddAction
        <5>4. QED
          BY <5>3
      <4>4. CASE \E u \in Users, e \in Evidence :
                    /\ MayAddEvidence(u, cases[c], e)
                    /\ k = EvidenceAdded(cases[c], e)
                    /\ ev = EvidenceEvent(ev.id, u, e)
        <5>1. PICK u \in Users, e \in Evidence :
                 /\ MayAddEvidence(u, cases[c], e)
                 /\ k = EvidenceAdded(cases[c], e)
                 /\ ev = EvidenceEvent(ev.id, u, e)
          BY <4>4
        <5>2. /\ Ledger!MayAddEvidence(u, cases[c], e)
              /\ k = Ledger!EvidenceAdded(cases[c], e)
              /\ ev = Ledger!EvidenceEvent(ev.id, u, e)
          BY <5>1, SameRules, SameRows
        <5>3. Ledger!LedgerAddEvidence(ev.id, u, c)
          BY <3>4, <4>1, <5>2 DEF Ledger!LedgerAddEvidence
        <5>4. QED
          BY <5>3
      <4>5. CASE \E u \in Users :
                    /\ MayReopen(u, cases[c])
                    /\ k = Reopened(ev.id, u, cases[c])
                    /\ ev = ReopenEvent(ev.id, u, cases[c])
        <5>1. PICK u \in Users :
                 /\ MayReopen(u, cases[c])
                 /\ k = Reopened(ev.id, u, cases[c])
                 /\ ev = ReopenEvent(ev.id, u, cases[c])
          BY <4>5
        <5>2. /\ Ledger!MayReopen(u, cases[c])
              /\ k = Ledger!Reopened(ev.id, u, cases[c])
              /\ ev = Ledger!ReopenEvent(ev.id, u, cases[c])
          BY <5>1, SameRules, SameRows
        <5>3. Ledger!LedgerReopen(ev.id, u, c)
          BY <3>4, <4>1, <5>2 DEF Ledger!LedgerReopen
        <5>4. QED
          BY <5>3
      <4>6. CASE \E u \in Users, original, replacement \in Decisions :
                    /\ MayOverride(u, cases[c], original, replacement)
                    /\ k = Overridden(ev.id, u, cases[c])
                    /\ ev = Event(ev.id, u, "overridden")
        <5>1. PICK u \in Users, original \in Decisions, replacement \in Decisions :
                 /\ MayOverride(u, cases[c], original, replacement)
                 /\ k = Overridden(ev.id, u, cases[c])
                 /\ ev = Event(ev.id, u, "overridden")
          BY <4>6
        <5>2. /\ Ledger!MayOverride(u, cases[c], original, replacement)
              /\ k = Ledger!Overridden(ev.id, u, cases[c])
              /\ ev = Ledger!Event(ev.id, u, "overridden")
          BY <5>1, SameRules, SameRows
        <5>3. /\ original \in Ledger!Decisions
              /\ replacement \in Ledger!Decisions
          BY DEF Decisions, Ledger!Decisions
        <5>4. Ledger!LedgerOverride(ev.id, u, c)
          BY <3>4, <4>1, <5>2, <5>3 DEF Ledger!LedgerOverride
        <5>5. QED
          BY <5>4
      <4>7. QED
        BY <3>4, <4>2, <4>3, <4>4, <4>5, <4>6 DEF Changes
    <3>5. QED
      BY <3>1, <3>2, <3>3, <3>4 DEF Ledger!LedgerNext
  <2>2. QED
    BY <1>2, <2>1, StoreSteps
<1>3. QED
  BY <1>1, <1>2, Typing, CopiesAreCurrentOrDoomed, PTL
     DEF Spec, ImplementsLedger, Ledger!LedgerSpec, Ledger!ledgerVars
=============================================================================

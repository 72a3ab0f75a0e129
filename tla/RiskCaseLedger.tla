---------------------------- MODULE RiskCaseLedger ----------------------------
(***************************************************************************)
(* What the risk-case service promises: every call that succeeds takes     *)
(* effect at one instant, on the row as it is at that instant, and appends *)
(* its audit event with it.  Optimistic versions, request threads and      *)
(* stale copies do not exist here; RiskCases implements this module.       *)
(***************************************************************************)
EXTENDS RiskCaseRules

CONSTANTS
    Cases,            \* identifiers new_id("case") may return
    EventIds          \* numbers new_id("evt") may return

VARIABLES
    cases,            \* cases[c]: the stored row, or None
    audit             \* audit[c]: the audit events of case c, oldest first

ledgerVars == <<cases, audit>>

LedgerInit ==
    /\ cases = [c \in Cases |-> None]
    /\ audit = [c \in Cases |-> <<>>]

\* Every audit event has an identifier of its own.
Unused(id) == \A c \in Cases : \A i \in DOMAIN audit[c] : audit[c][i].id # id

Record(c, k, ev) ==
    /\ cases' = [cases EXCEPT ![c] = k]
    /\ audit' = [audit EXCEPT ![c] = Append(@, ev)]

\* An update stores the changed row one version up.
Update(c, k, ev) == Record(c, [k EXCEPT !.version = @ + 1], ev)

LedgerCreate(id, u, c) ==
    /\ cases[c] = None
    /\ \E d \in Dossiers :
          /\ MayCreate(u, d)
          /\ Record(c, NewCase(u, d), CreateEvent(id, u))

LedgerTransition(id, u, c) ==
    /\ cases[c] # None
    /\ \E target \in Statuses :
          /\ MayTransition(u, cases[c], target)
          /\ Update(c, Transitioned(cases[c], target),
                    TransitionEvent(id, u, cases[c], target))

LedgerAddAction(id, u, c) ==
    /\ cases[c] # None
    /\ MayAddAction(u, cases[c])
    /\ Update(c, ActionAdded(id, u, cases[c]), Event(id, u, "action_added"))

LedgerAddEvidence(id, u, c) ==
    /\ cases[c] # None
    /\ \E e \in Evidence :
          /\ MayAddEvidence(u, cases[c], e)
          /\ Update(c, EvidenceAdded(cases[c], e), EvidenceEvent(id, u, e))

LedgerReopen(id, u, c) ==
    /\ cases[c] # None
    /\ MayReopen(u, cases[c])
    /\ Update(c, Reopened(id, u, cases[c]), ReopenEvent(id, u, cases[c]))

LedgerOverride(id, u, c) ==
    /\ cases[c] # None
    /\ \E original, replacement \in Decisions :
          MayOverride(u, cases[c], original, replacement)
    /\ Update(c, Overridden(id, u, cases[c]), Event(id, u, "overridden"))

LedgerNext ==
    \E id \in EventIds, u \in Users, c \in Cases :
        /\ Unused(id)
        /\ \/ LedgerCreate(id, u, c)
           \/ LedgerTransition(id, u, c)
           \/ LedgerAddAction(id, u, c)
           \/ LedgerAddEvidence(id, u, c)
           \/ LedgerReopen(id, u, c)
           \/ LedgerOverride(id, u, c)

LedgerSpec == LedgerInit /\ [][LedgerNext]_ledgerVars
=============================================================================

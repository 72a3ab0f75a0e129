---------------------------- MODULE Credentials ----------------------------
(***************************************************************************)
(* API keys: bootstrap (enterprise/api.py), which commits an organization  *)
(* and then registers its first key, and rotation (security.py), which     *)
(* replaces a key by another of the same organization.  There are two      *)
(* stores: api_credentials rows, where a rotation is one transaction, and  *)
(* a dictionary in the process, where threads interleave.                  *)
(*                                                                         *)
(* A credential is named by its id; its secret, the raw key, exists in the *)
(* answer of the call that issued it and nowhere else.                     *)
(***************************************************************************)
EXTENDS Naturals, FiniteSets

CONSTANTS
    Callers,      \* clients that bootstrap, operators that rotate
    MaxOrgs, MaxIds   \* bounds: organizations, credentials

VARIABLES
    durable,      \* which store: api_credentials, or the dictionary
    orgs,         \* organizations committed
    creds,        \* creds[i]: credential i, or Unused
    call,         \* call[c]: what caller c waits for
    cut           \* history: bootstraps that ended between their commits

credVars == << durable, orgs, creds, call, cut >>

Ids == 1 .. MaxIds
Unused == [is |-> "unused"]
Quiet == [step |-> "none"]

Credential(org, active) == [is |-> "credential", org |-> org, active |-> active]

Registered == {i \in Ids : creds[i] # Unused}
\* The keys authenticate lets in.
LiveKeys(org) == {i \in Registered : creds[i].org = org /\ creds[i].active}

\* secrets.token_hex(16): no two credentials share an id.
Pending ==
    {call[c].new : c \in {d \in Callers : call[d].step \in {"replace", "insert"}}}
Fresh == {i \in Ids \ (Registered \cup Pending) :
              \A j \in Ids \ (Registered \cup Pending) : i <= j}

CredInit ==
    /\ durable \in BOOLEAN
    /\ orgs = 0
    /\ creds = [i \in Ids |-> Unused]
    /\ call = [c \in Callers |-> Quiet]
    /\ cut = {}

\* POST /organizations, past the limiter and the bootstrap token: the
\* organization and its audit event are one commit.
CreateOrganization(c) ==
    /\ call[c] = Quiet
    /\ orgs < MaxOrgs
    /\ orgs' = orgs + 1
    /\ call' = [call EXCEPT ![c] = [step |-> "register", org |-> orgs + 1]]
    /\ UNCHANGED << durable, creds, cut >>

\* Its first key is another commit, and the raw key the answer.
RegisterKey(c) ==
    /\ call[c].step = "register"
    /\ \E i \in Fresh : creds' = [creds EXCEPT ![i] = Credential(call[c].org, TRUE)]
    /\ call' = [call EXCEPT ![c] = Quiet]
    /\ UNCHANGED << durable, orgs, cut >>

\* The store refuses the second commit, or the replica dies before it.
CutBootstrap(c) ==
    /\ call[c].step = "register"
    /\ durable
    /\ cut' = cut \cup {call[c].org}
    /\ call' = [call EXCEPT ![c] = Quiet]
    /\ UNCHANGED << durable, orgs, creds >>

\* Two transactions cannot both hold the row: FOR UPDATE waits.
RowFree(i) ==
    \A c \in Callers : call[c].step = "replace" => call[c].old # i

\* Mutant: SELECT without FOR UPDATE.
Selects_NoLock(i) == durable => creds[i].active

\* The durable store selects a row that is active, and locks it; the
\* dictionary finds the id, whatever its state.
Selects(i) == durable => creds[i].active /\ RowFree(i)

StartRotation(c, i) ==
    /\ call[c] = Quiet
    /\ i \in Registered
    /\ Selects(i)
    /\ \E new \in Fresh :
        call' = [call EXCEPT ![c] = [step |-> "replace", old |-> i, new |-> new,
                                     org |-> creds[i].org]]
    /\ UNCHANGED << durable, orgs, creds, cut >>

\* One commit: the old row revoked, the new one inserted.
Replace(c) ==
    /\ durable
    /\ call[c].step = "replace"
    /\ creds' = [creds EXCEPT
          ![call[c].old].active = FALSE,
          ![call[c].new] = Credential(call[c].org, TRUE)]
    /\ call' = [call EXCEPT ![c] = Quiet]
    /\ UNCHANGED << durable, orgs, cut >>

\* The transaction rolls back.
CutRotation(c) ==
    /\ durable
    /\ call[c].step = "replace"
    /\ call' = [call EXCEPT ![c] = Quiet]
    /\ UNCHANGED << durable, orgs, creds, cut >>

\* Two assignments to the dictionary, with other threads in between.
Deactivate(c) ==
    /\ ~durable
    /\ call[c].step = "replace"
    /\ creds' = [creds EXCEPT ![call[c].old].active = FALSE]
    /\ call' = [call EXCEPT ![c].step = "insert"]
    /\ UNCHANGED << durable, orgs, cut >>

Insert(c) ==
    /\ call[c].step = "insert"
    /\ creds' = [creds EXCEPT ![call[c].new] = Credential(call[c].org, TRUE)]
    /\ call' = [call EXCEPT ![c] = Quiet]
    /\ UNCHANGED << durable, orgs, cut >>

CredNext ==
    \E c \in Callers :
        \/ CreateOrganization(c) \/ RegisterKey(c) \/ CutBootstrap(c)
        \/ \E i \in Ids : StartRotation(c, i)
        \/ Replace(c) \/ CutRotation(c) \/ Deactivate(c) \/ Insert(c)

CredSpec == CredInit /\ [][CredNext]_credVars

-----------------------------------------------------------------------------
(* Properties *)

\* Who may still hold a working key of an organization.
Waiting(org) == \E c \in Callers : call[c].step = "register" /\ call[c].org = org
Rotating(org) == \E c \in Callers : /\ call[c].step \in {"replace", "insert"}
                                    /\ call[c].org = org

\* "Rotation revokes the former credential": whoever rotates at once, fails or
\* loses the answer, an organization has one live key in the durable store; only
\* a bootstrap cut between its two commits leaves one with none, for good.  In
\* the process a rotation may leave two live keys, but never none.
OneKeyPerOrganization ==
    \A org \in 1 .. orgs :
        IF org \in cut \/ Waiting(org) THEN LiveKeys(org) = {}
        ELSE IF durable THEN Cardinality(LiveKeys(org)) = 1
        ELSE Rotating(org) \/ LiveKeys(org) # {}
=============================================================================

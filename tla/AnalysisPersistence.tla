------------------------- MODULE AnalysisPersistence -------------------------
(***************************************************************************)
(* What happens to an analysis once the agent has produced it: api.py's    *)
(* persist_agent_snapshot looks for a frozen snapshot of the same input    *)
(* and output, stores one if there is none, stores the decision bundle     *)
(* (content-addressed: its identifier is a prefix of its own digest), and  *)
(* records that the analysis ran.  Each repository call is one transaction *)
(* of its own; nothing ties them together, and any of them may fail or be  *)
(* the last thing the process does.                                        *)
(*                                                                         *)
(* A result stands for the material content of one analysis.  Analyses     *)
(* without an entity are answered without any of this (or refused, in      *)
(* production) and change nothing.                                         *)
(***************************************************************************)
EXTENDS Integers, FiniteSets

CONSTANTS
    Threads,      \* request threads, of every API process on the store
    Users,
    Writers,      \* users whose role carries "write"
    Entities,     \* entities under analysis
    MayAnalyse,   \* MayAnalyse[u]: entities of the tenant of user u
    Results,      \* material contents an analysis can produce
    Content,      \* Content[r]: the pair (input_hash, output_hash) of result r
    Contents,
    Assured,      \* Assured[r]: what verifying r's assurance says
    BundleIds,
    BundleId,     \* BundleId[e][r]: the truncated digest of r's bundle for e
    MaxRuns,      \* bound: analyses run
    None

ASSUME PersistenceAssumption ==
    /\ Writers \subseteq Users
    /\ MayAnalyse \in [Users -> SUBSET Entities]
    /\ Content \in [Results -> Contents]
    /\ Assured \in [Results -> {"valid", "unverifiable", "unbuildable"}]
    /\ BundleId \in [Entities -> [Results -> BundleIds]]
    /\ MaxRuns \in Nat
    /\ None \notin Nat

VARIABLES
    snapshots,    \* stored analysis snapshots
    bundles,      \* stored decision bundles
    executions,   \* "analysis.executed" audit events
    call,         \* call[t]: what thread t is persisting, or None
    answers,      \* what the callers were told
    started       \* analyses started so far

vars == <<snapshots, bundles, executions, call, answers, started>>

Runs == 1..MaxRuns

\* A snapshot is known by the run that created it, which is also its age.
Snapshot == [id : Runs, entity : Entities, content : Contents]

Bundle == [id : BundleIds, entity : Entities, result : Results]

Execution ==
    [ run : Runs, actor : Users, entity : Entities, result : Results,
      snapshot : Runs, bundle : BundleIds,
      reusedSnapshot : BOOLEAN, reusedBundle : BOOLEAN ]

Steps == {"find", "save_snapshot", "save_bundle", "get_bundle", "record", "reply"}

Call ==
    [ step : Steps, run : Runs, actor : Users, entity : Entities,
      result : Results, snapshot : Runs \cup {None},
      reusedSnapshot : BOOLEAN, reusedBundle : BOOLEAN ]

Statuses == {"ok", "rejected", "error", "failed"}

Answer == [run : Runs, status : Statuses]

TypeOK ==
    /\ snapshots \subseteq Snapshot
    /\ bundles \subseteq Bundle
    /\ executions \subseteq Execution
    /\ call \in [Threads -> Call \cup {None}]
    /\ \A t \in Threads :
          (call[t] # None /\ call[t].step \notin {"find", "save_snapshot"})
             => call[t].snapshot \in Runs
    /\ answers \subseteq Answer
    /\ started \in 0..MaxRuns

Init ==
    /\ snapshots = {}
    /\ bundles = {}
    /\ executions = {}
    /\ call = [t \in Threads |-> None]
    /\ answers = {}
    /\ started = 0

-----------------------------------------------------------------------------
At(t, step) == call[t] # None /\ call[t].step = step

\* A thread answers and forgets the run.
Reply(t, status) ==
    /\ call' = [call EXCEPT ![t] = None]
    /\ answers' = answers \cup {[run |-> call[t].run, status |-> status]}

\* The agent has finished; create_snapshot hashes its output and stamps the time.
Begin(t, u, e, r) ==
    /\ call[t] = None
    /\ started < MaxRuns
    /\ e \in MayAnalyse[u]
    /\ started' = started + 1
    /\ call' = [call EXCEPT ![t] =
          [ step |-> "find", run |-> started + 1, actor |-> u, entity |-> e,
            result |-> r, snapshot |-> None,
            reusedSnapshot |-> FALSE, reusedBundle |-> FALSE ]]
    /\ UNCHANGED <<snapshots, bundles, executions, answers>>

Matches(e, c) == {s \in snapshots : s.entity = e /\ s.content = c}

IsLatest(s, S) == s \in S /\ \A x \in S : x.id <= s.id

\* Mutants: no lookup; a lookup by entity alone; a reuse that is not noted.
FindSnapshot_NoLookup(t) ==
    /\ At(t, "find")
    /\ call' = [call EXCEPT ![t].step = "save_snapshot"]
    /\ UNCHANGED <<snapshots, bundles, executions, answers, started>>

FindSnapshot_ByEntity(t) ==
    /\ At(t, "find")
    /\ LET found == {s \in snapshots : s.entity = call[t].entity} IN
          \/ /\ found = {}
             /\ call' = [call EXCEPT ![t].step = "save_snapshot"]
          \/ \E s \in found :
                /\ IsLatest(s, found)
                /\ call' = [call EXCEPT ![t].step = "save_bundle",
                                        ![t].snapshot = s.id,
                                        ![t].reusedSnapshot = TRUE]
    /\ UNCHANGED <<snapshots, bundles, executions, answers, started>>

FindSnapshot(t) ==
    /\ At(t, "find")
    /\ LET found == Matches(call[t].entity, Content[call[t].result]) IN
          \/ /\ found = {}
             /\ call' = [call EXCEPT ![t].step = "save_snapshot"]
          \/ \E s \in found :
                /\ IsLatest(s, found)
                /\ call' = [call EXCEPT ![t].step = "save_bundle",
                                        ![t].snapshot = s.id,
                                        ![t].reusedSnapshot = TRUE]
    /\ UNCHANGED <<snapshots, bundles, executions, answers, started>>

SaveSnapshot(t) ==
    /\ At(t, "save_snapshot")
    /\ call[t].actor \in Writers
    /\ snapshots' = snapshots \cup
          {[id |-> call[t].run, entity |-> call[t].entity,
            content |-> Content[call[t].result]]}
    /\ call' = [call EXCEPT ![t].step = "save_bundle", ![t].snapshot = call[t].run]
    /\ UNCHANGED <<bundles, executions, answers, started>>

\* authorize raises PermissionError, which becomes a 422.
SnapshotForbidden(t) ==
    /\ At(t, "save_snapshot")
    /\ call[t].actor \notin Writers
    /\ Reply(t, "rejected")
    /\ UNCHANGED <<snapshots, bundles, executions, started>>

ThisBundle(k) == [id |-> BundleId[k.entity][k.result], entity |-> k.entity,
                  result |-> k.result]

Taken(id) == \E b \in bundles : b.id = id

\* build_decision_bundle refuses an assurance it cannot verify, and only
\* ValueError is caught around saving: both of these are a 500.
BundleError(t) ==
    /\ At(t, "save_bundle")
    /\ \/ Assured[call[t].result] = "unbuildable"
       \/ call[t].actor \notin Writers
    /\ Reply(t, "error")
    /\ UNCHANGED <<snapshots, bundles, executions, started>>

SaveBundle(t) ==
    /\ At(t, "save_bundle")
    /\ Assured[call[t].result] = "valid"
    /\ call[t].actor \in Writers
    /\ ~Taken(ThisBundle(call[t]).id)
    /\ bundles' = bundles \cup {ThisBundle(call[t])}
    /\ call' = [call EXCEPT ![t].step = "record"]
    /\ UNCHANGED <<snapshots, executions, answers, started>>

\* Mutant: a taken identifier raises straight out.
BundleRefused_Raises(t) ==
    /\ At(t, "save_bundle")
    /\ call[t].actor \in Writers
    /\ Taken(ThisBundle(call[t]).id)
    /\ Reply(t, "error")
    /\ UNCHANGED <<snapshots, bundles, executions, started>>

\* The service will not verify the bundle, or its identifier is taken.
BundleRefused(t) ==
    /\ At(t, "save_bundle")
    /\ call[t].actor \in Writers
    /\ \/ Assured[call[t].result] = "unverifiable"
       \/ Assured[call[t].result] = "valid" /\ Taken(ThisBundle(call[t]).id)
    /\ call' = [call EXCEPT ![t].step = "get_bundle"]
    /\ UNCHANGED <<snapshots, bundles, executions, answers, started>>

\* Mutant: a refused bundle is taken for one already stored.
OnRecord_AnyUnderTheId(k) == Taken(ThisBundle(k).id)

OnRecord(k) == ThisBundle(k) \in bundles

ReuseBundle(t) ==
    /\ At(t, "get_bundle")
    /\ OnRecord(call[t])
    /\ call' = [call EXCEPT ![t].step = "record", ![t].reusedBundle = TRUE]
    /\ UNCHANGED <<snapshots, bundles, executions, answers, started>>

BundleConflict(t) ==
    /\ At(t, "get_bundle")
    /\ ~OnRecord(call[t])
    /\ Reply(t, "rejected")
    /\ UNCHANGED <<snapshots, bundles, executions, started>>

RecordExecution(t) ==
    /\ At(t, "record")
    /\ executions' = executions \cup
          {[ run |-> call[t].run, actor |-> call[t].actor,
             entity |-> call[t].entity, result |-> call[t].result,
             snapshot |-> call[t].snapshot, bundle |-> ThisBundle(call[t]).id,
             reusedSnapshot |-> call[t].reusedSnapshot,
             reusedBundle |-> call[t].reusedBundle ]}
    /\ call' = [call EXCEPT ![t].step = "reply"]
    /\ UNCHANGED <<snapshots, bundles, answers, started>>

Respond(t) ==
    /\ At(t, "reply")
    /\ Reply(t, "ok")
    /\ UNCHANGED <<snapshots, bundles, executions, started>>

\* The store goes away between two calls (503), or the process does; a commit
\* whose acknowledgement is lost is the commit followed by this.
Fail(t) ==
    /\ call[t] # None
    /\ Reply(t, "failed")
    /\ UNCHANGED <<snapshots, bundles, executions, started>>

Proceed(t) ==
    \/ FindSnapshot(t)
    \/ SaveSnapshot(t)
    \/ SnapshotForbidden(t)
    \/ BundleError(t)
    \/ SaveBundle(t)
    \/ BundleRefused(t)
    \/ ReuseBundle(t)
    \/ BundleConflict(t)
    \/ RecordExecution(t)
    \/ Respond(t)

Next ==
    \E t \in Threads :
        \/ \E u \in Users, e \in Entities, r \in Results : Begin(t, u, e, r)
        \/ Proceed(t)
        \/ Fail(t)

Spec == Init /\ [][Next]_vars

-----------------------------------------------------------------------------
(***************************************************************************)
(* Properties.                                                             *)
(***************************************************************************)

\* No certificate without its evidence: whatever fails and whoever races, a
\* stored bundle has a stored snapshot of the same entity and content (the order
\* save_snapshot, save_decision_bundle in persist_agent_snapshot).
CertificatesAreGrounded ==
    \A b \in bundles : Matches(b.entity, Content[b.result]) # {}

\* An execution record names a snapshot of exactly what was analysed and the
\* bundle of exactly that result, both stored, also when they were reused.
ExecutionsAreGrounded ==
    \A x \in executions :
        /\ \E s \in Matches(x.entity, Content[x.result]) : s.id = x.snapshot
        /\ [id |-> x.bundle, entity |-> x.entity, result |-> x.result] \in bundles

\* "Deduplication must not erase execution history": every analysis answered
\* with success is recorded, once, and every record is of an authorised actor.
EveryAnswerIsRecorded ==
    /\ \A a \in answers : a.status = "ok" =>
          \E x \in executions : x.run = a.run
    /\ \A x, y \in executions : x.run = y.run => x = y
    /\ \A x \in executions : x.actor \in Writers /\ x.entity \in MayAnalyse[x.actor]

\* Of all the executions that name an artefact at most one claims to have
\* created it (the reused_* flags of the execution payload).
FirstUseIsUnique ==
    \A x, y \in executions : x # y =>
        /\ x.snapshot = y.snapshot => x.reusedSnapshot \/ y.reusedSnapshot
        /\ (x.bundle = y.bundle /\ x.entity = y.entity)
              => x.reusedBundle \/ y.reusedBundle

\* "An identical bundle is already on record; a different payload under the same
\* id is a real conflict": a writer's sound analysis goes unrecorded only by an
\* outage, or because another content holds its bundle identifier.
RejectionsAreReal ==
    [][\A t \in Threads :
          (/\ call[t] # None
           /\ call[t].actor \in Writers
           /\ Assured[call[t].result] = "valid"
           /\ call'[t] = None) =>
              \/ [run |-> call[t].run, status |-> "failed"] \in answers'
              \/ \E x \in executions : x.run = call[t].run
              \/ \E b \in bundles : /\ b.id = ThisBundle(call[t]).id
                                    /\ b # ThisBundle(call[t])]_vars

\* The execution history is exact: it leaves no answered analysis and no sound
\* one out, and what it says of each is what is stored, first uses included.
HistoryIsExact ==
    /\ [](ExecutionsAreGrounded /\ EveryAnswerIsRecorded /\ FirstUseIsUnique)
    /\ RejectionsAreReal

\* Racing identical analyses may each store a snapshot, but only those that were
\* already past the lookup: never more rows of one content than threads.
DuplicatesAreBounded ==
    \A e \in Entities, c \in Contents :
        Cardinality(Matches(e, c)) <= Cardinality(Threads)

\* Once no analysis of a content is between lookup and save, its identity is
\* settled: no further row of it appears until one is.
InTheGap(t, e, c) ==
    /\ At(t, "save_snapshot")
    /\ call[t].entity = e
    /\ Content[call[t].result] = c

IdentitySettles ==
    [][\A e \in Entities, c \in Contents :
          (Matches(e, c) # {} /\ \A t \in Threads : ~InTheGap(t, e, c))
              => (Matches(e, c)' = Matches(e, c)
                  /\ \A t \in Threads : ~InTheGap(t, e, c)')]_vars

\* api.py:423 "Reuse the frozen snapshot instead: same evidence, same id, no new
\* row": two stored snapshots never hold the same content.
SameEvidenceSameId ==
    \A e \in Entities, c \in Contents : Cardinality(Matches(e, c)) <= 1
=============================================================================

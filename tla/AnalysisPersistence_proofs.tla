---------------------- MODULE AnalysisPersistence_proofs ----------------------
(***************************************************************************)
(* Theorems of AnalysisPersistence, for any number of threads, users,      *)
(* entities, results and runs.  CallsAreGrounded is what the local state   *)
(* of a request guarantees about the shared store at each of its steps; it *)
(* makes the safety properties inductive.                                  *)
(***************************************************************************)
EXTENDS AnalysisPersistence, FiniteSetTheorems, TLAPS

USE DEF Runs, Steps, Statuses

\* Every reachable state is well typed.
THEOREM Typing == Spec => []TypeOK
<1>1. Init => TypeOK
  BY PersistenceAssumption DEF Init, TypeOK
<1>2. TypeOK /\ [Next]_vars => TypeOK'
  <2> SUFFICES ASSUME TypeOK, [Next]_vars PROVE TypeOK'
    OBVIOUS
  <2> USE PersistenceAssumption
  <2>1. ASSUME NEW t \in Threads, NEW k \in Call,
               k.step \in {"find", "save_snapshot"} \/ k.snapshot \in Runs,
               call' = [call EXCEPT ![t] = k]
        PROVE  /\ call' \in [Threads -> Call \cup {None}]
               /\ \A s \in Threads :
                    (call'[s] # None /\ call'[s].step \notin {"find", "save_snapshot"})
                       => call'[s].snapshot \in Runs
    BY <2>1 DEF TypeOK
  <2>2. ASSUME NEW t \in Threads, NEW u \in Users, NEW e \in Entities,
               NEW r \in Results, Begin(t, u, e, r)
        PROVE  TypeOK'
    <3> DEFINE k == [ step |-> "find", run |-> started + 1, actor |-> u, entity |-> e,
                      result |-> r, snapshot |-> None,
                      reusedSnapshot |-> FALSE, reusedBundle |-> FALSE ]
    <3>1. started + 1 \in Runs /\ started' \in 0..MaxRuns
      BY <2>2 DEF Begin, TypeOK
    <3>2. k \in Call /\ k.step = "find" /\ call' = [call EXCEPT ![t] = k]
      BY <2>2, <3>1 DEF Begin, Call
    <3> HIDE DEF k
    <3>3. QED
      BY <2>1, <2>2, <3>1, <3>2 DEF Begin, TypeOK
  <2>3. ASSUME NEW t \in Threads, FindSnapshot(t) PROVE TypeOK'
    <3>1. call[t] \in Call
      BY <2>3 DEF FindSnapshot, At, TypeOK
    <3>2. CASE call' = [call EXCEPT ![t].step = "save_snapshot"]
      <4>1. [call[t] EXCEPT !.step = "save_snapshot"] \in Call
        BY <3>1 DEF Call
      <4>2. [call[t] EXCEPT !.step = "save_snapshot"].step = "save_snapshot"
        BY <3>1 DEF Call
      <4>3. call' = [call EXCEPT ![t] = [call[t] EXCEPT !.step = "save_snapshot"]]
        BY <3>2
      <4>4. QED
        BY <2>1, <2>3, <4>1, <4>2, <4>3 DEF FindSnapshot, TypeOK
    <3>3. ASSUME NEW s \in snapshots,
                 call' = [call EXCEPT ![t].step = "save_bundle",
                                      ![t].snapshot = s.id,
                                      ![t].reusedSnapshot = TRUE]
          PROVE  TypeOK'
      <4> DEFINE k == [call[t] EXCEPT !.step = "save_bundle", !.snapshot = s.id,
                                      !.reusedSnapshot = TRUE]
      <4>1. s.id \in Runs
        BY DEF TypeOK, Snapshot
      <4>2. k \in Call /\ k.snapshot \in Runs
        BY <3>1, <4>1 DEF Call
      <4>3. call' = [call EXCEPT ![t] = k]
        BY <3>3
      <4> HIDE DEF k
      <4>4. QED
        BY <2>1, <2>3, <4>2, <4>3 DEF FindSnapshot, TypeOK
    <3>4. QED
      BY <2>3, <3>2, <3>3 DEF FindSnapshot, Matches, IsLatest
  <2>4. ASSUME NEW t \in Threads, SaveSnapshot(t) PROVE TypeOK'
    <3> DEFINE k == [call[t] EXCEPT !.step = "save_bundle", !.snapshot = call[t].run]
    <3>1. call[t] \in Call
      BY <2>4 DEF SaveSnapshot, At, TypeOK
    <3>2. [id |-> call[t].run, entity |-> call[t].entity,
           content |-> Content[call[t].result]] \in Snapshot
      BY <3>1 DEF Call, Snapshot
    <3>3. k \in Call /\ k.snapshot \in Runs
      BY <3>1 DEF Call
    <3>4. call' = [call EXCEPT ![t] = k]
      BY <2>4 DEF SaveSnapshot
    <3> HIDE DEF k
    <3>5. QED
      BY <2>1, <2>4, <3>2, <3>3, <3>4 DEF SaveSnapshot, TypeOK
  <2>5. ASSUME NEW t \in Threads, NEW step \in {"record", "get_bundle", "reply"},
               At(t, "save_bundle") \/ At(t, "get_bundle") \/ At(t, "record"),
               call' = [call EXCEPT ![t].step = step]
        PROVE  /\ call' \in [Threads -> Call \cup {None}]
               /\ \A s \in Threads :
                    (call'[s] # None /\ call'[s].step \notin {"find", "save_snapshot"})
                       => call'[s].snapshot \in Runs
    <3>1. call[t] \in Call /\ call[t].snapshot \in Runs
      BY <2>5 DEF At, TypeOK
    <3>2. /\ [call[t] EXCEPT !.step = step] \in Call
          /\ [call[t] EXCEPT !.step = step].snapshot \in Runs
      BY <3>1 DEF Call
    <3>3. call' = [call EXCEPT ![t] = [call[t] EXCEPT !.step = step]]
      BY <2>5
    <3>4. QED
      BY <2>1, <3>2, <3>3
  <2>6. ASSUME NEW t \in Threads, SaveBundle(t) PROVE TypeOK'
    <3>1. ThisBundle(call[t]) \in Bundle
      BY <2>6 DEF SaveBundle, At, TypeOK, Call, Bundle, ThisBundle
    <3>2. QED
      BY <2>5, <2>6, <3>1 DEF SaveBundle, TypeOK
  <2>7. ASSUME NEW t \in Threads, BundleRefused(t) PROVE TypeOK'
    BY <2>5, <2>7 DEF BundleRefused, TypeOK
  <2>8. ASSUME NEW t \in Threads, ReuseBundle(t) PROVE TypeOK'
    <3> DEFINE k == [call[t] EXCEPT !.step = "record", !.reusedBundle = TRUE]
    <3>1. call[t] \in Call /\ call[t].snapshot \in Runs
      BY <2>8 DEF ReuseBundle, At, TypeOK
    <3>2. k \in Call /\ k.snapshot \in Runs
      BY <3>1 DEF Call
    <3>3. call' = [call EXCEPT ![t] = k]
      BY <2>8 DEF ReuseBundle
    <3> HIDE DEF k
    <3>4. QED
      BY <2>1, <2>8, <3>2, <3>3 DEF ReuseBundle, TypeOK
  <2>9. ASSUME NEW t \in Threads, RecordExecution(t) PROVE TypeOK'
    <3>1. call[t] \in Call /\ call[t].snapshot \in Runs
      BY <2>9 DEF RecordExecution, At, TypeOK
    <3>2. executions' \subseteq Execution
      BY <2>9, <3>1 DEF RecordExecution, ThisBundle, Call, Execution, TypeOK
    <3>3. QED
      BY <2>5, <2>9, <3>2 DEF RecordExecution, TypeOK
  <2>10. ASSUME NEW t \in Threads, NEW status \in Statuses, call[t] # None,
                Reply(t, status),
                UNCHANGED <<snapshots, bundles, executions, started>>
         PROVE  TypeOK'
    <3>1. call[t] \in Call
      BY <2>10 DEF TypeOK
    <3>2. [run |-> call[t].run, status |-> status] \in Answer
      BY <3>1 DEF Call, Answer
    <3>3. /\ call' \in [Threads -> Call \cup {None}]
          /\ \A s \in Threads : call'[s] # None => call'[s] = call[s]
      BY <2>10 DEF Reply, TypeOK
    <3>4. QED
      BY <2>10, <3>2, <3>3 DEF Reply, TypeOK
  <2>11. ASSUME NEW t \in Threads, Proceed(t) \/ Fail(t) PROVE TypeOK'
    BY <2>3, <2>4, <2>6, <2>7, <2>8, <2>9, <2>10, <2>11
       DEF Proceed, Fail, SnapshotForbidden, BundleError, BundleConflict, Respond, At
  <2>12. CASE UNCHANGED vars
    BY <2>12 DEF vars, TypeOK
  <2>13. QED
    BY <2>2, <2>11, <2>12 DEF Next
<1>3. QED
  BY <1>1, <1>2, PTL DEF Spec

-----------------------------------------------------------------------------
(***************************************************************************)
(* What each step of a request has behind it in the store.                 *)
(***************************************************************************)
HasSnapshot(k) ==
    \E s \in Matches(k.entity, Content[k.result]) : s.id = k.snapshot

Recorded(run) == \E x \in executions : x.run = run

CallIsGrounded(k) ==
    /\ k.run <= started
    /\ k.entity \in MayAnalyse[k.actor]
    /\ k.step \in {"save_bundle", "get_bundle", "record", "reply"} => HasSnapshot(k)
    /\ k.step \in {"record", "reply"} =>
          ThisBundle(k) \in bundles /\ k.actor \in Writers
    /\ k.step = "get_bundle" => k.actor \in Writers
    /\ k.step = "reply" <=> Recorded(k.run)

CallsAreGrounded ==
    /\ \A t \in Threads : call[t] # None => CallIsGrounded(call[t])
    /\ \A s, t \in Threads :
          (call[s] # None /\ call[t] # None /\ call[s].run = call[t].run) => s = t
    /\ \A x \in executions : x.run <= started

Grounded ==
    /\ CallsAreGrounded
    /\ CertificatesAreGrounded
    /\ ExecutionsAreGrounded
    /\ EveryAnswerIsRecorded

\* The store only grows, and only thread t moves.
OnlyMoves(t) ==
    /\ snapshots \subseteq snapshots'
    /\ bundles \subseteq bundles'
    /\ executions \subseteq executions'
    /\ started <= started'
    /\ \A s \in Threads \ {t} : call'[s] = call[s]

\* Growth of the store keeps a call grounded that does not move.
LEMMA StaysGrounded ==
  ASSUME TypeOK, TypeOK', NEW t \in Threads, NEW k \in Call, CallIsGrounded(k),
         OnlyMoves(t),
         \A x \in executions' \ executions : x.run # k.run
  PROVE  CallIsGrounded(k)'
<1>1. HasSnapshot(k) => HasSnapshot(k)'
  BY DEF HasSnapshot, Matches, OnlyMoves
<1>2. Recorded(k.run) <=> Recorded(k.run)'
  BY DEF Recorded, OnlyMoves
<1>3. ThisBundle(k) \in bundles => (ThisBundle(k) \in bundles)'
  BY DEF OnlyMoves, ThisBundle
<1>4. k.run <= started => (k.run <= started)'
  BY DEF OnlyMoves, TypeOK, Call
<1>5. QED
  BY <1>1, <1>2, <1>3, <1>4 DEF CallIsGrounded

\* What remains to be shown of a step is about the thread that moves.
LEMMA MoverSuffices ==
  ASSUME TypeOK, TypeOK', Grounded, NEW t \in Threads, OnlyMoves(t),
         call'[t] # None => CallIsGrounded(call[t])',
         call'[t] # None => (call'[t].run = started + 1
                             \/ (call[t] # None /\ call'[t].run = call[t].run)),
         \A x \in executions' \ executions :
            /\ call[t] # None
            /\ x.run = call[t].run
            /\ ~Recorded(call[t].run)
  PROVE  CallsAreGrounded'
<1>1. ASSUME NEW s \in Threads \ {t}, call'[s] # None PROVE CallIsGrounded(call[s])'
  <2>1. call'[s] = call[s] /\ call[s] \in Call /\ CallIsGrounded(call[s])
    BY <1>1 DEF OnlyMoves, Grounded, CallsAreGrounded, TypeOK
  <2>2. \A x \in executions' \ executions : x.run # call[s].run
    BY <1>1, <2>1 DEF Grounded, CallsAreGrounded
  <2>3. \A k \in Call : CallIsGrounded(k) /\ (\A x \in executions' \ executions : x.run # k.run)
                          => CallIsGrounded(k)'
    BY StaysGrounded
  <2>4. QED
    BY <2>1, <2>2, <2>3 DEF CallIsGrounded, HasSnapshot, Recorded, Matches, ThisBundle
<1>2. ASSUME NEW r \in Threads, NEW s \in Threads, call'[r] # None, call'[s] # None,
             call'[r].run = call'[s].run
      PROVE  r = s
  <2>1. \A q \in Threads : call[q] # None => call[q].run \in Nat /\ call[q].run <= started
    BY DEF Grounded, CallsAreGrounded, CallIsGrounded, TypeOK, Call
  <2>2. QED
    BY <1>2, <2>1 DEF OnlyMoves, Grounded, CallsAreGrounded, TypeOK
<1>3. \A x \in executions' : x.run <= started'
  <2>1. \A x \in executions : x.run \in Nat /\ x.run <= started
    BY DEF Grounded, CallsAreGrounded, TypeOK, Execution
  <2>2. call[t] # None => call[t].run \in Nat /\ call[t].run <= started
    BY DEF Grounded, CallsAreGrounded, CallIsGrounded, TypeOK, Call
  <2>3. QED
    BY <2>1, <2>2 DEF OnlyMoves, TypeOK
<1>4. QED
  BY <1>1, <1>2, <1>3 DEF CallsAreGrounded

\* Growth of the store keeps certificates and executions grounded.
LEMMA GrowthKeeps ==
  ASSUME TypeOK, Grounded, NEW t \in Threads, OnlyMoves(t)
  PROVE  /\ \A b \in bundles : Matches(b.entity, Content[b.result])' # {}
         /\ \A x \in executions :
               /\ \E s \in Matches(x.entity, Content[x.result])' : s.id = x.snapshot
               /\ [id |-> x.bundle, entity |-> x.entity, result |-> x.result] \in bundles'
<1>1. \A e, c : Matches(e, c) \subseteq Matches(e, c)'
  BY DEF OnlyMoves, Matches
<1>2. \A b \in bundles : Matches(b.entity, Content[b.result])' # {}
  BY <1>1 DEF Grounded, CertificatesAreGrounded, Matches
<1>3. QED
  BY <1>1, <1>2 DEF Grounded, ExecutionsAreGrounded, OnlyMoves, Matches

\* One step of a request keeps everything grounded.
LEMMA ProceedKeepsGrounded ==
  ASSUME TypeOK, TypeOK', Grounded, NEW t \in Threads, Proceed(t) \/ Fail(t)
  PROVE  Grounded'
<1> USE PersistenceAssumption
<1>1. call[t] \in Call /\ CallIsGrounded(call[t]) /\ call[t] # None
  BY DEF Proceed, Fail, FindSnapshot, SaveSnapshot, SnapshotForbidden, BundleError,
         SaveBundle, BundleRefused, ReuseBundle, BundleConflict, RecordExecution,
         Respond, At, TypeOK, Grounded, CallsAreGrounded
<1>2. ASSUME UNCHANGED <<bundles, executions, answers, started>>,
             snapshots \subseteq snapshots',
             \A s \in Threads \ {t} : call'[s] = call[s],
             CallIsGrounded(call[t])', call'[t].run = call[t].run
      PROVE  Grounded'
  <2>1. OnlyMoves(t)
    BY <1>2 DEF OnlyMoves, TypeOK
  <2>2. CallsAreGrounded'
    BY <1>1, <1>2, <2>1, MoverSuffices
  <2>3. QED
    BY <1>2, <2>1, <2>2, GrowthKeeps
       DEF Grounded, CertificatesAreGrounded, ExecutionsAreGrounded, EveryAnswerIsRecorded
<1>3. CASE FindSnapshot(t)
  <2>1. CASE call' = [call EXCEPT ![t].step = "save_snapshot"]
    <3>1. call'[t] = [call[t] EXCEPT !.step = "save_snapshot"]
      BY <2>1 DEF TypeOK
    <3>2. UNCHANGED <<snapshots, bundles, executions, answers, started>>
      BY <1>3 DEF FindSnapshot
    <3>3. CallIsGrounded(call[t])'
      BY <1>1, <1>3, <3>1, <3>2 DEF CallIsGrounded, Call, FindSnapshot, At, Recorded
    <3>4. QED
      BY <1>1, <1>2, <2>1, <3>1, <3>2, <3>3 DEF TypeOK, Call
  <2>2. ASSUME NEW s \in Matches(call[t].entity, Content[call[t].result]),
               call' = [call EXCEPT ![t].step = "save_bundle",
                                    ![t].snapshot = s.id,
                                    ![t].reusedSnapshot = TRUE]
        PROVE  Grounded'
    <3>1. call'[t] = [call[t] EXCEPT !.step = "save_bundle", !.snapshot = s.id,
                                     !.reusedSnapshot = TRUE]
      BY <2>2 DEF TypeOK
    <3>2. UNCHANGED <<snapshots, bundles, executions, answers, started>>
      BY <1>3 DEF FindSnapshot
    <3>3. /\ call'[t].run = call[t].run
          /\ call'[t].actor = call[t].actor
          /\ call'[t].entity = call[t].entity
          /\ call'[t].result = call[t].result
          /\ call'[t].step = "save_bundle"
          /\ call'[t].snapshot = s.id
      BY <1>1, <3>1 DEF Call
    <3>4. HasSnapshot(call[t])'
      BY <2>2, <3>2, <3>3 DEF HasSnapshot, Matches
    <3>5. CallIsGrounded(call[t])'
      BY <1>1, <1>3, <3>2, <3>3, <3>4 DEF CallIsGrounded, FindSnapshot, At, Recorded
    <3>6. QED
      BY <1>2, <2>2, <3>2, <3>3, <3>5 DEF TypeOK
  <2>3. QED
    <3>1. \/ call' = [call EXCEPT ![t].step = "save_snapshot"]
          \/ \E s \in Matches(call[t].entity, Content[call[t].result]) :
                call' = [call EXCEPT ![t].step = "save_bundle",
                                     ![t].snapshot = s.id,
                                     ![t].reusedSnapshot = TRUE]
      BY <1>3 DEF FindSnapshot
    <3>2. QED
      BY <2>1, <2>2, <3>1
<1>4. CASE SaveSnapshot(t)
  <2>1. call'[t] = [call[t] EXCEPT !.step = "save_bundle", !.snapshot = call[t].run]
    BY <1>4 DEF SaveSnapshot, TypeOK
  <2>2. /\ call'[t].run = call[t].run
        /\ call'[t].actor = call[t].actor
        /\ call'[t].entity = call[t].entity
        /\ call'[t].result = call[t].result
        /\ call'[t].step = "save_bundle"
        /\ call'[t].snapshot = call[t].run
    BY <1>1, <2>1 DEF Call
  <2>3. HasSnapshot(call[t])'
    <3> DEFINE s == [id |-> call[t].run, entity |-> call[t].entity,
                     content |-> Content[call[t].result]]
    <3>1. s \in snapshots'
      BY <1>4 DEF SaveSnapshot
    <3>2. /\ s.id = call'[t].snapshot
          /\ s.entity = call'[t].entity
          /\ s.content = Content[call'[t].result]
      BY <2>2
    <3> HIDE DEF s
    <3>3. QED
      BY <3>1, <3>2 DEF HasSnapshot, Matches
  <2>4. CallIsGrounded(call[t])'
    BY <1>1, <1>4, <2>2, <2>3 DEF CallIsGrounded, SaveSnapshot, At, Recorded
  <2>5. QED
    BY <1>2, <1>4, <2>2, <2>4 DEF SaveSnapshot, TypeOK
<1>5. CASE BundleRefused(t)
  <2>1. call'[t] = [call[t] EXCEPT !.step = "get_bundle"]
    BY <1>5 DEF BundleRefused, TypeOK
  <2>2. UNCHANGED <<snapshots, bundles, executions, answers, started>>
    BY <1>5 DEF BundleRefused
  <2>3. CallIsGrounded(call[t])'
    BY <1>1, <1>5, <2>1, <2>2
       DEF CallIsGrounded, Call, BundleRefused, At, Recorded, HasSnapshot, Matches
  <2>4. QED
    BY <1>1, <1>2, <1>5, <2>1, <2>2, <2>3 DEF BundleRefused, TypeOK, Call
<1>6. CASE ReuseBundle(t)
  <2>1. call'[t] = [call[t] EXCEPT !.step = "record", !.reusedBundle = TRUE]
    BY <1>6 DEF ReuseBundle, TypeOK
  <2>2. UNCHANGED <<snapshots, bundles, executions, answers, started>>
    BY <1>6 DEF ReuseBundle
  <2>3. /\ call'[t].run = call[t].run
        /\ call'[t].actor = call[t].actor
        /\ call'[t].entity = call[t].entity
        /\ call'[t].result = call[t].result
        /\ call'[t].step = "record"
        /\ call'[t].snapshot = call[t].snapshot
    BY <1>1, <2>1 DEF Call
  <2>4. CallIsGrounded(call[t])'
    BY <1>1, <1>6, <2>2, <2>3
       DEF CallIsGrounded, ReuseBundle, OnRecord, ThisBundle, At, Recorded,
           HasSnapshot, Matches
  <2>5. QED
    BY <1>2, <1>6, <2>2, <2>3, <2>4 DEF ReuseBundle, TypeOK
<1>7. CASE SaveBundle(t)
  <2>1. call'[t] = [call[t] EXCEPT !.step = "record"]
    BY <1>7 DEF SaveBundle, TypeOK
  <2>2. /\ UNCHANGED <<snapshots, executions, answers, started>>
        /\ bundles' = bundles \cup {ThisBundle(call[t])}
    BY <1>7 DEF SaveBundle
  <2>3. /\ call'[t].run = call[t].run
        /\ call'[t].actor = call[t].actor
        /\ call'[t].entity = call[t].entity
        /\ call'[t].result = call[t].result
        /\ call'[t].step = "record"
        /\ call'[t].snapshot = call[t].snapshot
    BY <1>1, <2>1 DEF Call
  <2>4. CallIsGrounded(call[t])'
    BY <1>1, <1>7, <2>2, <2>3
       DEF CallIsGrounded, SaveBundle, ThisBundle, At, Recorded, HasSnapshot, Matches
  <2>5. OnlyMoves(t)
    BY <1>7, <2>2 DEF OnlyMoves, SaveBundle, TypeOK
  <2>6. CallsAreGrounded'
    BY <1>1, <2>2, <2>3, <2>4, <2>5, MoverSuffices
  <2>7. CertificatesAreGrounded'
    <3>1. Matches(call[t].entity, Content[call[t].result])' # {}
      BY <2>3, <2>4 DEF CallIsGrounded, HasSnapshot, Matches
    <3>2. Matches(ThisBundle(call[t]).entity, Content[ThisBundle(call[t]).result]) # {}
      BY <1>1, <1>7 DEF SaveBundle, At, CallIsGrounded, HasSnapshot, ThisBundle
    <3>3. QED
      BY <2>2, <2>5, <3>2, GrowthKeeps DEF CertificatesAreGrounded, Matches
  <2>8. QED
    BY <2>2, <2>5, <2>6, <2>7, GrowthKeeps
       DEF Grounded, ExecutionsAreGrounded, EveryAnswerIsRecorded
<1>8. CASE RecordExecution(t)
  <2> DEFINE x == [ run |-> call[t].run, actor |-> call[t].actor,
                    entity |-> call[t].entity, result |-> call[t].result,
                    snapshot |-> call[t].snapshot, bundle |-> ThisBundle(call[t]).id,
                    reusedSnapshot |-> call[t].reusedSnapshot,
                    reusedBundle |-> call[t].reusedBundle ]
  <2>1. call'[t] = [call[t] EXCEPT !.step = "reply"]
    BY <1>8 DEF RecordExecution, TypeOK
  <2>2. /\ UNCHANGED <<snapshots, bundles, answers, started>>
        /\ executions' = executions \cup {x}
        /\ call[t].step = "record"
    BY <1>8 DEF RecordExecution, At
  <2>3. /\ call'[t].run = call[t].run
        /\ call'[t].actor = call[t].actor
        /\ call'[t].entity = call[t].entity
        /\ call'[t].result = call[t].result
        /\ call'[t].step = "reply"
        /\ call'[t].snapshot = call[t].snapshot
    BY <1>1, <2>1 DEF Call
  <2>4. /\ x.run = call[t].run /\ x.actor = call[t].actor
        /\ x.entity = call[t].entity /\ x.result = call[t].result
        /\ x.snapshot = call[t].snapshot /\ x.bundle = ThisBundle(call[t]).id
    OBVIOUS
  <2>5. /\ HasSnapshot(call[t]) /\ ThisBundle(call[t]) \in bundles
        /\ call[t].actor \in Writers /\ ~Recorded(call[t].run)
        /\ call[t].entity \in MayAnalyse[call[t].actor]
    BY <1>1, <2>2 DEF CallIsGrounded
  <2> HIDE DEF x
  <2>6. CallIsGrounded(call[t])'
    BY <1>1, <2>2, <2>3, <2>4, <2>5
       DEF CallIsGrounded, ThisBundle, Recorded, HasSnapshot, Matches
  <2>7. OnlyMoves(t)
    BY <1>8, <2>2 DEF OnlyMoves, RecordExecution, TypeOK
  <2>8. CallsAreGrounded'
    BY <1>1, <2>2, <2>3, <2>4, <2>5, <2>6, <2>7, MoverSuffices
  <2>9. ExecutionsAreGrounded'
    <3>1. /\ \E s \in Matches(x.entity, Content[x.result]) : s.id = x.snapshot
          /\ [id |-> x.bundle, entity |-> x.entity, result |-> x.result] \in bundles
      BY <2>4, <2>5 DEF HasSnapshot, ThisBundle
    <3>2. QED
      BY <2>2, <2>7, <3>1, GrowthKeeps DEF ExecutionsAreGrounded, Matches
  <2>10. EveryAnswerIsRecorded'
    BY <2>2, <2>4, <2>5 DEF Grounded, EveryAnswerIsRecorded, Recorded
  <2>11. QED
    BY <2>2, <2>7, <2>8, <2>9, <2>10, GrowthKeeps
       DEF Grounded, CertificatesAreGrounded
<1>9. ASSUME NEW status \in Statuses, Reply(t, status),
             status = "ok" => call[t].step = "reply",
             UNCHANGED <<snapshots, bundles, executions, started>>
      PROVE  Grounded'
  <2>1. OnlyMoves(t) /\ call'[t] = None
    BY <1>9 DEF Reply, OnlyMoves, TypeOK
  <2>2. CallsAreGrounded'
    BY <1>9, <2>1, MoverSuffices
  <2>3. status = "ok" => Recorded(call[t].run)
    BY <1>1, <1>9 DEF CallIsGrounded
  <2>4. EveryAnswerIsRecorded'
    BY <1>9, <2>3 DEF Reply, Recorded, Grounded, EveryAnswerIsRecorded
  <2>5. QED
    BY <1>9, <2>1, <2>2, <2>4, GrowthKeeps
       DEF Grounded, CertificatesAreGrounded, ExecutionsAreGrounded
<1>10. QED
  BY <1>3, <1>4, <1>5, <1>6, <1>7, <1>8, <1>9
     DEF Proceed, Fail, SnapshotForbidden, BundleError, BundleConflict, Respond, At

\* Certificates, executions and answers are grounded in every reachable state,
\* whatever races and whatever fails.
THEOREM AlwaysGrounded ==
  Spec => [](CertificatesAreGrounded /\ ExecutionsAreGrounded /\ EveryAnswerIsRecorded)
<1>1. Init => Grounded
  BY DEF Init, Grounded, CallsAreGrounded, CertificatesAreGrounded,
         ExecutionsAreGrounded, EveryAnswerIsRecorded
<1>2. TypeOK /\ TypeOK' /\ Grounded /\ [Next]_vars => Grounded'
  <2> SUFFICES ASSUME TypeOK, TypeOK', Grounded, [Next]_vars PROVE Grounded'
    OBVIOUS
  <2>1. ASSUME NEW t \in Threads, NEW u \in Users, NEW e \in Entities,
               NEW r \in Results, Begin(t, u, e, r)
        PROVE  Grounded'
    <3>1. OnlyMoves(t) /\ UNCHANGED <<snapshots, bundles, executions, answers>>
      BY <2>1 DEF Begin, OnlyMoves, TypeOK
    <3>2. /\ call'[t].run = started + 1 /\ started' = started + 1
          /\ call'[t].step = "find"
          /\ call'[t].entity \in MayAnalyse[call'[t].actor]
      BY <2>1 DEF Begin, TypeOK
    <3>3. ~Recorded(started + 1)
      BY DEF Recorded, Grounded, CallsAreGrounded, TypeOK, Execution
    <3>4. CallIsGrounded(call[t])'
      BY <3>1, <3>2, <3>3 DEF CallIsGrounded, Recorded, TypeOK
    <3>5. CallsAreGrounded'
      BY <3>1, <3>2, <3>4, MoverSuffices
    <3>6. QED
      BY <3>1, <3>5, GrowthKeeps
         DEF Grounded, CertificatesAreGrounded, ExecutionsAreGrounded, EveryAnswerIsRecorded
  <2>2. CASE UNCHANGED vars
    BY <2>2 DEF vars, Grounded, CallsAreGrounded, CallIsGrounded, HasSnapshot, Recorded,
                Matches, CertificatesAreGrounded, ExecutionsAreGrounded, EveryAnswerIsRecorded
  <2>3. QED
    BY <2>1, <2>2, ProceedKeepsGrounded DEF Next
<1>3. Grounded => CertificatesAreGrounded /\ ExecutionsAreGrounded /\ EveryAnswerIsRecorded
  BY DEF Grounded
<1>4. QED
  BY <1>1, <1>2, <1>3, Typing, PTL DEF Spec

-----------------------------------------------------------------------------
(***************************************************************************)
(* Duplicates.  Threads between lookup and save are the only source of     *)
(* rows, and a content that has a row lets no further thread in.           *)
(***************************************************************************)
Gap(e, c) == {t \in Threads : InTheGap(t, e, c)}

\* How one step moves the rows and the gap of a content.
LEMMA GapSteps ==
  ASSUME TypeOK, [Next]_vars, NEW e, NEW c
  PROVE  \/ /\ Matches(e, c)' = Matches(e, c)
            /\ Matches(e, c) = {} \/ Gap(e, c)' \subseteq Gap(e, c)
         \/ \E t \in Gap(e, c) : \E x :
               /\ Matches(e, c)' = Matches(e, c) \cup {x}
               /\ Gap(e, c)' = Gap(e, c) \ {t}
<1> USE PersistenceAssumption
<1>1. ASSUME NEW t \in Threads, snapshots' = snapshots,
             \A s \in Threads \ {t} : call'[s] = call[s],
             call'[t] # None => call'[t].step # "save_snapshot"
      PROVE  /\ Matches(e, c)' = Matches(e, c)
             /\ Gap(e, c)' \subseteq Gap(e, c)
  BY <1>1 DEF Matches, Gap, InTheGap, At
<1>2. ASSUME NEW t \in Threads, NEW u \in Users, NEW f \in Entities,
             NEW r \in Results, Begin(t, u, f, r)
      PROVE  /\ Matches(e, c)' = Matches(e, c)
             /\ Gap(e, c)' \subseteq Gap(e, c)
  <2>1. /\ snapshots' = snapshots
        /\ \A s \in Threads \ {t} : call'[s] = call[s]
        /\ call'[t].step = "find"
    BY <1>2 DEF Begin, TypeOK
  <2>2. QED
    BY <1>1, <2>1
<1>3. ASSUME NEW t \in Threads, FindSnapshot(t)
      PROVE  /\ Matches(e, c)' = Matches(e, c)
             /\ Matches(e, c) = {} \/ Gap(e, c)' \subseteq Gap(e, c)
  <2>1. /\ call[t] \in Call
        /\ snapshots' = snapshots
        /\ \A s \in Threads \ {t} : call'[s] = call[s]
    BY <1>3 DEF FindSnapshot, At, TypeOK
  <2>2. CASE /\ Matches(call[t].entity, Content[call[t].result]) = {}
             /\ call' = [call EXCEPT ![t].step = "save_snapshot"]
    <3>1. call'[t].entity = call[t].entity /\ call'[t].result = call[t].result
      BY <2>1, <2>2 DEF Call, TypeOK
    <3>2. Matches(e, c) # {} => ~(call'[t].entity = e /\ Content[call'[t].result] = c)
      BY <2>2, <3>1
    <3>3. QED
      BY <2>1, <3>2 DEF Matches, Gap, InTheGap, At
  <2>3. ASSUME NEW s \in snapshots,
               call' = [call EXCEPT ![t].step = "save_bundle",
                                    ![t].snapshot = s.id,
                                    ![t].reusedSnapshot = TRUE]
        PROVE  /\ Matches(e, c)' = Matches(e, c)
               /\ Gap(e, c)' \subseteq Gap(e, c)
    <3>1. call'[t].step = "save_bundle"
      BY <2>1, <2>3 DEF Call, TypeOK
    <3>2. QED
      BY <1>1, <2>1, <3>1
  <2>4. QED
    BY <1>3, <2>2, <2>3 DEF FindSnapshot, Matches
<1>4. ASSUME NEW t \in Threads, SaveSnapshot(t)
      PROVE  \/ /\ Matches(e, c)' = Matches(e, c)
                /\ Gap(e, c)' \subseteq Gap(e, c)
             \/ /\ t \in Gap(e, c)
                /\ \E x : Matches(e, c)' = Matches(e, c) \cup {x}
                /\ Gap(e, c)' = Gap(e, c) \ {t}
  <2> DEFINE x == [id |-> call[t].run, entity |-> call[t].entity,
                   content |-> Content[call[t].result]]
  <2>1. /\ call[t] \in Call /\ At(t, "save_snapshot")
        /\ snapshots' = snapshots \cup {x}
        /\ \A s \in Threads \ {t} : call'[s] = call[s]
        /\ call'[t].step = "save_bundle"
    BY <1>4 DEF SaveSnapshot, At, TypeOK, Call
  <2>2. x.entity = call[t].entity /\ x.content = Content[call[t].result]
    OBVIOUS
  <2> HIDE DEF x
  <2>3. CASE x.entity = e /\ x.content = c
    <3>1. Matches(e, c)' = Matches(e, c) \cup {x}
      BY <2>1, <2>3 DEF Matches
    <3>2. t \in Gap(e, c)
      BY <2>1, <2>2, <2>3 DEF Gap, InTheGap
    <3>3. Gap(e, c)' = Gap(e, c) \ {t}
      BY <2>1 DEF Gap, InTheGap, At
    <3>4. QED
      BY <3>1, <3>2, <3>3
  <2>4. CASE ~(x.entity = e /\ x.content = c)
    BY <2>1, <2>2, <2>4 DEF Matches, Gap, InTheGap, At
  <2>5. QED
    BY <2>3, <2>4
<1>5. ASSUME NEW t \in Threads, NEW step \in {"record", "get_bundle", "reply"},
             call[t] \in Call, snapshots' = snapshots,
             \/ call' = [call EXCEPT ![t].step = step]
             \/ call' = [call EXCEPT ![t].step = step, ![t].reusedBundle = TRUE]
      PROVE  /\ Matches(e, c)' = Matches(e, c)
             /\ Gap(e, c)' \subseteq Gap(e, c)
  <2>1. /\ \A s \in Threads \ {t} : call'[s] = call[s]
        /\ call'[t].step = step
    BY <1>5 DEF TypeOK, Call
  <2>2. QED
    BY <1>1, <1>5, <2>1
<1>6. ASSUME NEW t \in Threads,
             SaveBundle(t) \/ BundleRefused(t) \/ ReuseBundle(t) \/ RecordExecution(t)
      PROVE  /\ Matches(e, c)' = Matches(e, c)
             /\ Gap(e, c)' \subseteq Gap(e, c)
  <2>1. call[t] \in Call /\ snapshots' = snapshots
    BY <1>6 DEF SaveBundle, BundleRefused, ReuseBundle, RecordExecution, At, TypeOK
  <2>2. QED
    BY <1>5, <1>6, <2>1 DEF SaveBundle, BundleRefused, ReuseBundle, RecordExecution
<1>7. ASSUME NEW t \in Threads, NEW status, Reply(t, status), snapshots' = snapshots
      PROVE  /\ Matches(e, c)' = Matches(e, c)
             /\ Gap(e, c)' \subseteq Gap(e, c)
  <2>1. /\ \A s \in Threads \ {t} : call'[s] = call[s]
        /\ call'[t] = None
    BY <1>7 DEF Reply, TypeOK
  <2>2. QED
    BY <1>1, <1>7, <2>1
<1>8. CASE UNCHANGED vars
  BY <1>8 DEF vars, Matches, Gap, InTheGap, At
<1>9. ASSUME NEW t \in Threads, Proceed(t) \/ Fail(t)
      PROVE  \/ FindSnapshot(t) \/ SaveSnapshot(t)
             \/ SaveBundle(t) \/ BundleRefused(t) \/ ReuseBundle(t) \/ RecordExecution(t)
             \/ \E status : Reply(t, status) /\ snapshots' = snapshots
  BY <1>9 DEF Proceed, Fail, SnapshotForbidden, BundleError, BundleConflict, Respond
<1>10. QED
  BY <1>2, <1>3, <1>4, <1>6, <1>7, <1>8, <1>9 DEF Next

\* Never more rows of one content than there are threads.
THEOREM DuplicatesStayBounded ==
  ASSUME IsFiniteSet(Threads)
  PROVE  Spec => []DuplicatesAreBounded
<1> DEFINE Rows(e, c) == Cardinality(Matches(e, c))
           Waiting(e, c) == Cardinality(Gap(e, c))
           IInv == /\ IsFiniteSet(snapshots)
                   /\ \A e \in Entities, c \in Contents :
                         \/ Matches(e, c) = {}
                         \/ Rows(e, c) + Waiting(e, c) <= Cardinality(Threads)
<1>1. Init => IInv
  BY FS_EmptySet DEF Init, Matches
<1>2. \A e, c : IsFiniteSet(Gap(e, c)) /\ Waiting(e, c) \in Nat
                /\ Waiting(e, c) <= Cardinality(Threads)
  <2>1. \A e, c : Gap(e, c) \in SUBSET Threads
    BY DEF Gap
  <2>2. QED
    BY <2>1, FS_Subset, FS_CardinalityType
<1>3. TypeOK /\ IInv /\ [Next]_vars => IInv'
  <2> SUFFICES ASSUME TypeOK, IInv, [Next]_vars PROVE IInv'
    OBVIOUS
  <2>1. IsFiniteSet(snapshots')
    <3>1. \/ snapshots' = snapshots
          \/ \E x : snapshots' = snapshots \cup {x}
      BY DEF Next, Begin, Proceed, Fail, FindSnapshot, SaveSnapshot, SnapshotForbidden,
             BundleError, SaveBundle, BundleRefused, ReuseBundle, BundleConflict,
             RecordExecution, Respond, vars
    <3>2. QED
      BY <3>1, FS_AddElement
  <2>2. ASSUME NEW e \in Entities, NEW c \in Contents
        PROVE  \/ Matches(e, c)' = {}
               \/ Rows(e, c)' + Waiting(e, c)' <= Cardinality(Threads)
    <3>1. IsFiniteSet(Matches(e, c)) /\ Rows(e, c) \in Nat
      <4>1. Matches(e, c) \in SUBSET snapshots
        BY DEF Matches
      <4>2. QED
        BY <4>1, FS_Subset, FS_CardinalityType
    <3>2. Cardinality(Threads) \in Nat
      BY FS_CardinalityType
    <3>3. CASE /\ Matches(e, c)' = Matches(e, c)
               /\ Matches(e, c) = {} \/ Gap(e, c)' \subseteq Gap(e, c)
      <4>1. CASE Matches(e, c) = {}
        BY <3>3, <4>1
      <4>2. CASE Matches(e, c) # {} /\ Gap(e, c)' \in SUBSET Gap(e, c)
        <5>1. Cardinality(Gap(e, c)') <= Waiting(e, c)
          BY <1>2, <4>2, FS_Subset
        <5>2. Rows(e, c)' = Rows(e, c)
          BY <3>3
        <5>3. Cardinality(Gap(e, c)') \in Nat
          BY <1>2, <4>2, FS_Subset, FS_CardinalityType
        <5>4. Rows(e, c) + Waiting(e, c) <= Cardinality(Threads)
          BY <4>2
        <5>5. Waiting(e, c) \in Nat /\ Waiting(e, c)' = Cardinality(Gap(e, c)')
          BY <1>2
        <5> HIDE DEF Rows, Waiting
        <5>6. QED
          BY <3>1, <3>2, <5>1, <5>2, <5>3, <5>4, <5>5
      <4>3. QED
        BY <3>3, <4>1, <4>2
    <3>4. ASSUME NEW t \in Gap(e, c), NEW x,
                 Matches(e, c)' = Matches(e, c) \cup {x},
                 Gap(e, c)' = Gap(e, c) \ {t}
          PROVE  Rows(e, c)' + Waiting(e, c)' <= Cardinality(Threads)
      <4>1. Waiting(e, c)' = Waiting(e, c) - 1
        <5>1. Cardinality(Gap(e, c) \ {t}) = Cardinality(Gap(e, c)) - 1
          BY <1>2, <3>4, FS_RemoveElement
        <5>2. Cardinality(Gap(e, c))' = Cardinality(Gap(e, c) \ {t})
          BY <3>4
        <5>3. QED
          BY <5>1, <5>2
      <4>2. Rows(e, c)' <= Rows(e, c) + 1 /\ Rows(e, c)' \in Nat
        <5>1. IsFiniteSet(Matches(e, c) \cup {x})
          BY <3>1, FS_AddElement
        <5>2. Cardinality(Matches(e, c) \cup {x}) \in {Rows(e, c), Rows(e, c) + 1}
          BY <3>1, FS_AddElement
        <5>3. Rows(e, c)' = Cardinality(Matches(e, c) \cup {x})
          BY <3>4
        <5> HIDE DEF Rows
        <5>4. QED
          BY <3>1, <5>2, <5>3
      <4>3. CASE Matches(e, c) = {}
        <5>1. Rows(e, c) = 0
          BY <4>3, FS_EmptySet
        <5>2. Waiting(e, c) <= Cardinality(Threads) /\ Waiting(e, c) \in Nat
          BY <1>2
        <5>3. QED
          BY <3>2, <4>1, <4>2, <5>1, <5>2
      <4>4. CASE Matches(e, c) # {}
        <5>1. Rows(e, c) + Waiting(e, c) <= Cardinality(Threads)
          BY <4>4
        <5>2. Waiting(e, c) \in Nat
          BY <1>2
        <5>3. QED
          BY <3>1, <3>2, <4>1, <4>2, <5>1, <5>2
      <4>5. QED
        BY <4>3, <4>4
    <3>5. QED
      BY <3>3, <3>4, GapSteps
  <2>3. QED
    BY <2>1, <2>2
<1>4. IInv => DuplicatesAreBounded
  <2>1. ASSUME IInv, NEW e \in Entities, NEW c \in Contents
        PROVE  Rows(e, c) <= Cardinality(Threads)
    <3>1. Matches(e, c) \in SUBSET snapshots
      BY DEF Matches
    <3>2. Rows(e, c) \in Nat /\ Cardinality(Threads) \in Nat
      BY <2>1, <3>1, FS_Subset, FS_CardinalityType
    <3>3. Matches(e, c) = {} => Rows(e, c) = 0
      BY FS_EmptySet
    <3>4. Waiting(e, c) \in Nat
      BY <1>2
    <3>5. Matches(e, c) = {} \/ Rows(e, c) + Waiting(e, c) <= Cardinality(Threads)
      BY <2>1
    <3> HIDE DEF Rows, Waiting
    <3>6. QED
      BY <3>2, <3>3, <3>4, <3>5
  <2>2. QED
    BY <2>1 DEF DuplicatesAreBounded
<1>5. QED
  BY <1>1, <1>3, <1>4, Typing, PTL DEF Spec

\* A content with a row and nobody in its gap never gets another row.
THEOREM IdentityIsSettled == Spec => IdentitySettles
<1>1. ASSUME TypeOK, [Next]_vars, NEW e \in Entities, NEW c \in Contents,
             Matches(e, c) # {}, \A t \in Threads : ~InTheGap(t, e, c)
      PROVE  /\ Matches(e, c)' = Matches(e, c)
             /\ \A t \in Threads : ~InTheGap(t, e, c)'
  <2>1. Gap(e, c) = {}
    BY <1>1 DEF Gap
  <2>2. Matches(e, c)' = Matches(e, c) /\ Gap(e, c)' = {}
    BY <1>1, <2>1, GapSteps
  <2>3. QED
    BY <2>2 DEF Gap
<1>2. TypeOK /\ [Next]_vars =>
         [\A e \in Entities, c \in Contents :
             (Matches(e, c) # {} /\ \A t \in Threads : ~InTheGap(t, e, c))
                 => (Matches(e, c)' = Matches(e, c)
                     /\ \A t \in Threads : ~InTheGap(t, e, c)')]_vars
  BY <1>1
<1>3. QED
  BY <1>2, Typing, PTL DEF Spec, IdentitySettles
=============================================================================

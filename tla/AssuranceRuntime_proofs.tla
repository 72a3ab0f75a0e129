------------------------ MODULE AssuranceRuntime_proofs ------------------------
(***************************************************************************)
(* Theorems of AssuranceRuntime, for any assessments, evidence and         *)
(* policies.  RouteInv says what each stage of the pipeline has derived    *)
(* from the assessment; the rest follows from what the engine puts in a    *)
(* result and from the verifier's conditions on it.                        *)
(*                                                                         *)
(* That the verifier accepts every result the engine issues is a fact      *)
(* about two operators, EngineVerifies.  It takes the searches for         *)
(* sufficient evidence apart (the exact one finds a first set in a strict  *)
(* total order, the greedy one only drops what it can), and shows that     *)
(* the findings the verifier makes from the record, in another order and   *)
(* believing what the record does not say, are the engine's.               *)
(*                                                                         *)
(* TroubleNeverHelps compares two assessments: with failures more (the two *)
(* routes), with evidence less (Without), with dimensions less.  The last  *)
(* needs the arithmetic of the disagreement, sums over a finite set by     *)
(* hand (SumsExist, SumsCompare).                                          *)
(***************************************************************************)
EXTENDS AssuranceRuntime, FiniteSetTheorems, SequenceTheorems, WellFoundedInduction,
        TLAPS

\* The result the engine issues for the current proposal.
Issued == Evaluate(AssuranceInput(assessment, proposal, failures), policy)

\* What each stage of the pipeline has derived from the assessment.
RouteInv ==
    /\ policy \in Policies
    /\ stage \in Stages
    /\ proposal \in Decisions
    /\ stage # "idle" => IsAssessment(assessment) /\ assessment.route \in Routes
    /\ stage = "fused" => proposal = Fused(assessment)
    /\ stage \in {"proposed", "reviewed", "evaluated", "authorized"} =>
          failures = FailuresOf(assessment)
    /\ stage = "proposed" =>
          proposal = FailureAwareProposal(Fused(assessment), FailuresOf(assessment))
    /\ stage \in {"reviewed", "evaluated", "authorized"} =>
          proposal = Proposed(assessment)
    /\ stage \in {"evaluated", "authorized"} => result = Issued
    /\ stage = "authorized" => decision = result.final /\ VerifyAssurance(result, policy)

(***************************************************************************)
(* Dispositions.                                                           *)
(***************************************************************************)

\* Every disposition is at least as cautious as itself, and REVIEW and ABSTAIN
\* as everything below them (DISPOSITION_RANK).
LEMMA Caution ==
  /\ \A d \in Decisions : AtLeast(d, d) /\ AtLeast("ABSTAIN", d)
  /\ \A d \in Decisions : d # "ABSTAIN" => AtLeast("REVIEW", d)
<1>1. /\ DispositionRank["PASS"] = 0 /\ DispositionRank["FLAG"] = 1
      /\ DispositionRank["REVIEW"] = 2 /\ DispositionRank["ABSTAIN"] = 3
  BY DEF DispositionRank
<1> QED
  BY <1>1 DEF AtLeast, Decisions

\* Fusion yields a disposition, and an actionable one only from a score and
\* with enough coverage.
LEMMA FusionDecides ==
  ASSUME NEW scores, NEW covered
  PROVE  /\ FusedDecision(scores, covered) \in Decisions
         /\ FusedDecision(scores, covered) # "ABSTAIN" =>
               covered /\ AggregateScore(scores) # None
BY DEF FusedDecision, Decisions

\* Failures and the critic only move a disposition up; without either it stays.
LEMMA StepsEscalate ==
  ASSUME NEW d \in Decisions, NEW failed, NEW rejected
  PROVE  /\ FailureAwareProposal(d, failed) \in Decisions
         /\ AtLeast(FailureAwareProposal(d, failed), d)
         /\ FailureAwareProposal(d, {}) = d
         /\ ReviewedProposal(d, rejected) \in Decisions
         /\ AtLeast(ReviewedProposal(d, rejected), d)
         /\ ReviewedProposal(d, FALSE) = d
         /\ ReviewedProposal(d, rejected) \in {"PASS", "FLAG"} => ReviewedProposal(d, rejected) = d
<1>1. FailureAwareProposal(d, failed) \in Decisions /\ AtLeast(FailureAwareProposal(d, failed), d)
  BY Caution DEF FailureAwareProposal, Decisions
<1>2. FailureAwareProposal(d, {}) = d
  BY DEF FailureAwareProposal
<1>3. ReviewedProposal(d, rejected) \in Decisions /\ AtLeast(ReviewedProposal(d, rejected), d)
  BY Caution DEF ReviewedProposal, Decisions
<1>4. ReviewedProposal(d, FALSE) = d
  BY DEF ReviewedProposal
<1>5. ReviewedProposal(d, rejected) \in {"PASS", "FLAG"} => ReviewedProposal(d, rejected) = d
  BY DEF ReviewedProposal
<1> QED
  BY <1>1, <1>2, <1>3, <1>4, <1>5

(***************************************************************************)
(* The engine and the verifier.                                            *)
(***************************************************************************)

\* What the engine puts into the result it issues.
LEMMA EngineIssues ==
  /\ Issued.proposed = proposal /\ Issued.failures = failures /\ Issued.policy = policy
  /\ Issued.evidence = AssessEvidence(assessment.paths, policy.minimumCoverage)
  /\ Issued.fragility = AnalyzeFragility(assessment.paths,
                           AggregateScore(DimensionScores(assessment.paths)), proposal, policy)
  /\ Issued.final = FinalDecision(proposal,
                                  \/ Issued.evidence.verified = 0
                                  \/ failures \cap BlockingFailures # {},
                                  Issued.blockers # <<>>)
  /\ Issued.maturity = policy.maturity /\ Issued.calibration = "UNCALIBRATED"
  /\ Issued.automation = (/\ Issued.blockers = <<>>
                          /\ Issued.final \in {"PASS", "FLAG"}
                          /\ policy.maturity # "HEURISTIC_POLICY"
                          /\ ~policy.requireCalibration)
  /\ Issued.status = Status(proposal, Issued.final, Issued.automation)
BY DEF Issued, Evaluate, AssuranceInput

\* A verified result is no less cautious than the proposal it is about.
LEMMA VerifiedIsCautious ==
  ASSUME NEW r, NEW p, VerifyAssurance(r, p), r.proposed \in Decisions
  PROVE  r.final \in Decisions /\ AtLeast(r.final, r.proposed)
<1>1. /\ r.proposed = "ABSTAIN" => r.final = "ABSTAIN"
      /\ r.final # r.proposed => r.final \in {"REVIEW", "ABSTAIN"}
  BY DEF VerifyAssurance, DecisionIsPermitted
<1> QED
  BY <1>1, Caution DEF Decisions

(***************************************************************************)
(* The order of the exact search: Precedes is a strict total order on the  *)
(* sets of evidence, so that a first of them exists.                       *)
(***************************************************************************)

\* A nonempty set of naturals has a least element.
LEMMA LeastNatural ==
  ASSUME NEW T, T \subseteq Nat, T # {}
  PROVE  \E x \in T : \A y \in T : x <= y
<1> DEFINE R == OpToRel(<, Nat)
<1>1. \E x \in T : \A y \in T : ~ (<< y, x >> \in R)
  BY NatLessThanWellFounded, WFMin
<1>2. \A x, y \in Nat : y < x => << y, x >> \in R
  BY DEF OpToRel
<1> HIDE DEF R
<1>3. PICK x \in T : \A y \in T : ~ (<< y, x >> \in R)
  BY <1>1
<1>4. ASSUME NEW y \in T PROVE x <= y
  <2>1. x \in Nat /\ y \in Nat /\ ~ (<< y, x >> \in R)
    BY <1>3
  <2>2. ~ (y < x)
    BY <2>1, <1>2
  <2> QED BY <2>1, <2>2
<1> QED
  BY <1>4

\* Min is that element.
LEMMA MinIsLeast ==
  ASSUME NEW T, T \subseteq Nat, T # {}
  PROVE  Min(T) \in T /\ \A y \in T : Min(T) <= y
BY LeastNatural DEF Min

\* What the exact search compares where sizes agree: the first place where two
\* sets differ.
LEMMA FirstDifference ==
  ASSUME NEW S, NEW T, S \subseteq Nat, T \subseteq Nat, S # T
  PROVE  Min(SymDiff(S, T)) \in S
           <=> \E m \in S : m \notin T /\ \A k \in Nat : k < m => (k \in S <=> k \in T)
<1> DEFINE D == SymDiff(S, T)
           d == Min(D)
<1>1. D \subseteq Nat /\ D # {}
  BY DEF SymDiff
<1>2. d \in D /\ \A y \in D : d <= y
  BY <1>1, MinIsLeast
<1>3. \A k : k \in D <=> (k \in S /\ k \notin T) \/ (k \in T /\ k \notin S)
  BY DEF SymDiff
<1> HIDE DEF d, D
<1>4. \A k \in Nat : k < d => (k \in S <=> k \in T)
  BY <1>1, <1>2, <1>3
<1>5. d \in S => d \notin T
  BY <1>2, <1>3
<1>6. ASSUME NEW m \in S, m \notin T, \A k \in Nat : k < m => (k \in S <=> k \in T)
      PROVE  d = m
  <2>1. m \in D /\ d <= m /\ ~(d < m)
    BY <1>1, <1>2, <1>3, <1>6
  <2> QED
    BY <1>1, <1>2, <2>1
<1>7. d \in S <=> \E m \in S : m \notin T /\ \A k \in Nat : k < m => (k \in S <=> k \in T)
  BY <1>4, <1>5, <1>6
<1> QED
  BY <1>7 DEF d, D

\* Subsets of the evidence are finite sets of naturals.
LEMMA EvidenceSets ==
  ASSUME NEW S, S \subseteq Evidence
  PROVE  S \subseteq Nat /\ IsFiniteSet(S) /\ Cardinality(S) \in Nat
<1>1. IsFiniteSet(1..MaxEvidence)
  BY FS_Interval, EvidenceAssumption
<1>2. IsFiniteSet(S)
  BY <1>1, FS_Subset DEF Evidence
<1> QED
  BY <1>2, FS_CardinalityType, EvidenceAssumption DEF Evidence

\* The order of the exact search is a strict total order.
LEMMA SearchOrder ==
  /\ \A S \in SUBSET Evidence : ~Precedes(S, S)
  /\ \A S, T \in SUBSET Evidence : S # T => Precedes(S, T) \/ Precedes(T, S)
  /\ \A S, T, U \in SUBSET Evidence : Precedes(S, T) /\ Precedes(T, U) => Precedes(S, U)
  /\ \A S, T \in SUBSET Evidence : Precedes(S, T) => Cardinality(S) <= Cardinality(T)
<1> DEFINE n(S) == Cardinality(S)
           Before(S, T) == \E m \in S : m \notin T /\ \A k \in Nat : k < m => (k \in S <=> k \in T)
<1>1. \A S \in SUBSET Evidence : S \subseteq Nat /\ n(S) \in Nat
  BY EvidenceSets
<1>2. \A S, T \in SUBSET Evidence :
         Precedes(S, T) <=> n(S) < n(T) \/ (n(S) = n(T) /\ S # T /\ Before(S, T))
  BY <1>1, FirstDifference DEF Precedes
<1>3. \A S, T \in SUBSET Evidence : S # T => Before(S, T) \/ Before(T, S)
  <2> SUFFICES ASSUME NEW S \in SUBSET Evidence, NEW T \in SUBSET Evidence, S # T
               PROVE  Before(S, T) \/ Before(T, S)
    OBVIOUS
  <2>1. SymDiff(S, T) \subseteq Nat /\ SymDiff(S, T) # {} /\ SymDiff(T, S) = SymDiff(S, T)
    BY <1>1 DEF SymDiff
  <2>2. Min(SymDiff(S, T)) \in SymDiff(S, T)
    BY <2>1, MinIsLeast
  <2>3. Min(SymDiff(S, T)) \in S \/ Min(SymDiff(T, S)) \in T
    BY <2>1, <2>2 DEF SymDiff
  <2> QED
    BY <1>1, <2>3, FirstDifference
<1>4. \A S, T, U \in SUBSET Evidence : Before(S, T) /\ Before(T, U) => Before(S, U)
  <2> SUFFICES ASSUME NEW S \in SUBSET Evidence, NEW T \in SUBSET Evidence,
                      NEW U \in SUBSET Evidence, Before(S, T), Before(T, U)
               PROVE  Before(S, U)
    OBVIOUS
  <2>1. PICK m \in S : m \notin T /\ \A k \in Nat : k < m => (k \in S <=> k \in T)
    OBVIOUS
  <2>2. PICK l \in T : l \notin U /\ \A k \in Nat : k < l => (k \in T <=> k \in U)
    OBVIOUS
  <2>3. m \in Nat /\ l \in Nat /\ m # l
    BY <1>1, <2>1, <2>2
  <2>4. CASE m < l
    <3>1. m \notin U /\ \A k \in Nat : k < m => (k \in S <=> k \in U)
      BY <2>1, <2>2, <2>3, <2>4
    <3> QED BY <3>1
  <2>5. CASE l < m
    <3>1. l \in S /\ \A k \in Nat : k < l => (k \in S <=> k \in U)
      BY <2>1, <2>2, <2>3, <2>5
    <3> QED BY <3>1, <2>2
  <2> QED
    BY <2>3, <2>4, <2>5
<1>5. \A S \in SUBSET Evidence : ~Before(S, S)
  OBVIOUS
<1> HIDE DEF n, Before
<1>6. \A S \in SUBSET Evidence : ~Precedes(S, S)
  BY <1>1, <1>2
<1>7. \A S, T \in SUBSET Evidence : S # T => Precedes(S, T) \/ Precedes(T, S)
  BY <1>1, <1>2, <1>3
<1>8. ASSUME NEW S \in SUBSET Evidence, NEW T \in SUBSET Evidence, NEW U \in SUBSET Evidence,
             Precedes(S, T), Precedes(T, U)
      PROVE  Precedes(S, U)
  <2>1. n(S) \in Nat /\ n(T) \in Nat /\ n(U) \in Nat
    BY <1>1
  <2>2. n(S) < n(T) \/ (n(S) = n(T) /\ Before(S, T))
    BY <1>2, <1>8
  <2>3. n(T) < n(U) \/ (n(T) = n(U) /\ Before(T, U))
    BY <1>2, <1>8
  <2>4. CASE n(S) < n(U)
    BY <2>4, <1>2
  <2>5. CASE n(S) = n(U) /\ Before(S, T) /\ Before(T, U)
    BY <2>5, <1>2, <1>4, <1>5
  <2> QED
    BY <2>1, <2>2, <2>3, <2>4, <2>5
<1>9. \A S, T \in SUBSET Evidence : Precedes(S, T) => n(S) <= n(T)
  BY <1>1, <1>2
<1> QED
  BY <1>6, <1>7, <1>8, <1>9 DEF n

\* So a nonempty family of sets of evidence has a first one.
LEMMA FirstExists ==
  ASSUME NEW F, F \subseteq SUBSET Evidence, F # {}
  PROVE  \E S \in F : \A T \in F \ {S} : Precedes(S, T)
<1> DEFINE B(S) == {T \in F : Precedes(T, S)}
           C == {Cardinality(B(S)) : S \in F}
<1>1. IsFiniteSet(F)
  <2>1. IsFiniteSet(Evidence)
    BY EvidenceSets
  <2>2. IsFiniteSet(SUBSET Evidence)
    BY <2>1, FS_SUBSET
  <2> QED BY <2>2, FS_Subset
<1>2. \A S \in F : IsFiniteSet(B(S)) /\ Cardinality(B(S)) \in Nat
  BY <1>1, FS_Subset, FS_CardinalityType
<1>3. PICK S \in F : \A T \in F : Cardinality(B(S)) <= Cardinality(B(T))
  <2>1. C \subseteq Nat /\ C # {}
    BY <1>2
  <2>2. \E x \in C : \A y \in C : x <= y
    BY <2>1, LeastNatural
  <2> QED BY <2>2
<1>4. ASSUME NEW T \in F \ {S} PROVE Precedes(S, T)
  <2> SUFFICES ASSUME Precedes(T, S) PROVE FALSE
    BY SearchOrder
  <2>1. B(T) \subseteq B(S) /\ T \in B(S) /\ T \notin B(T)
    BY SearchOrder
  <2>2. /\ Cardinality(B(T)) <= Cardinality(B(S))
        /\ Cardinality(B(S)) = Cardinality(B(T)) => B(S) = B(T)
    <3>1. IsFiniteSet(B(S)) /\ B(T) \in SUBSET B(S)
      BY <2>1, <1>2
    <3> HIDE DEF B
    <3> QED BY <3>1, FS_Subset
  <2>3. Cardinality(B(S)) <= Cardinality(B(T))
    BY <1>3
  <2>4. Cardinality(B(T)) = Cardinality(B(S))
    <3>1. Cardinality(B(T)) \in Nat /\ Cardinality(B(S)) \in Nat
      BY <1>2
    <3> HIDE DEF B
    <3> QED BY <2>2, <2>3, <3>1
  <2> QED BY <2>1, <2>2, <2>4
<1> QED
  BY <1>4

(***************************************************************************)
(* The two searches for sufficient evidence.                               *)
(***************************************************************************)

\* What is claimed of a sufficient set: it is made of the nodes, it preserves the
\* proposal if it says so, and an exact one is the smallest there is.
SoundSufficient(s, paths, proposed, exact) ==
    LET nodes == Nodes(paths)
        subsets == Cardinality(SUBSET nodes)
        Keeps(S) == RecomputedDecision(paths, S) = proposed
    IN  /\ s.ids \subseteq nodes /\ s.ids # {} /\ s.evaluated > 0
        /\ s.method \in {"EXACT", "GREEDY_APPROXIMATION"} /\ (s.method = "EXACT" <=> exact)
        /\ s.preserves => Keeps(s.ids)
        /\ exact => 
              /\ IF s.preserves THEN s.evaluated <= subsets - 1
                 ELSE s.evaluated = subsets /\ s.ids = nodes
              /\ \A S \in (SUBSET nodes) \ {{}} :
                    Keeps(S) => s.preserves /\ Cardinality(s.ids) <= Cardinality(S)
        /\ ~exact => s.evaluated <= Cardinality(nodes) + 1

\* The exact search finds a smallest set that preserves the proposal, or none is.
LEMMA ExactIsSound ==
  ASSUME NEW paths, NEW proposed, Nodes(paths) \subseteq Evidence, Nodes(paths) # {}
  PROVE  SoundSufficient(ExactSufficient(paths, proposed), paths, proposed, TRUE)
<1> DEFINE nodes == Nodes(paths)
           subsets == Cardinality(SUBSET nodes)
           P == Preserving(paths, proposed)
           Keeps(S) == RecomputedDecision(paths, S) = proposed
           first == CHOOSE S \in P : \A T \in P \ {S} : Precedes(S, T)
           before == {S \in (SUBSET nodes) \ {{}} : Precedes(S, first)}
           s == ExactSufficient(paths, proposed)
<1>1. IsFiniteSet(nodes) /\ IsFiniteSet(SUBSET nodes) /\ subsets \in Nat
  <2>1. IsFiniteSet(nodes)
    BY EvidenceSets
  <2>2. IsFiniteSet(SUBSET nodes)
    BY <2>1, FS_SUBSET
  <2> QED BY <2>1, <2>2, FS_CardinalityType
<1>2. subsets > 0
  <2>1. nodes \in SUBSET nodes
    OBVIOUS
  <2> QED BY <1>1, <2>1, FS_EmptySet
<1>3. \A S : S \in P <=> S \in (SUBSET nodes) \ {{}} /\ Keeps(S)
  BY DEF Preserving
<1>4. CASE P = {}
  <2>1. s = [method |-> "EXACT", ids |-> nodes, preserves |-> FALSE, evaluated |-> subsets]
    BY <1>4 DEF ExactSufficient
  <2>2. /\ s.method = "EXACT" /\ s.ids = nodes /\ s.preserves = FALSE
        /\ s.evaluated = subsets
    BY <2>1
  <2>3. \A S \in (SUBSET nodes) \ {{}} : ~Keeps(S)
    BY <1>3, <1>4
  <2>4. /\ s.method = "EXACT" /\ s.ids = nodes /\ ~s.preserves
        /\ s.evaluated = subsets /\ s.evaluated > 0 /\ s.ids \subseteq nodes
    BY <1>2, <2>2
  <2> HIDE DEF s
  <2> QED
    BY <2>4, <2>3, <1>2, Zenon DEF SoundSufficient, s
<1>5. CASE P # {}
  <2>1. first \in P /\ \A T \in P \ {first} : Precedes(first, T)
    <3>1. P \subseteq SUBSET Evidence
      BY <1>3
    <3>2. \E S \in P : \A T \in P \ {S} : Precedes(S, T)
      BY <1>5, <3>1, FirstExists
    <3> QED BY <3>2
  <2>2. s = [method |-> "EXACT", ids |-> first, preserves |-> TRUE,
             evaluated |-> 1 + Cardinality(before)]
    BY <1>5 DEF ExactSufficient
  <2> HIDE DEF P, first, s
  <2>3. first \in (SUBSET nodes) \ {{}} /\ Keeps(first)
    BY <2>1, <1>3
  <2>4. Cardinality(before) \in Nat /\ 1 + Cardinality(before) <= subsets - 1
    <3>1. first \in SUBSET Evidence /\ ~Precedes(first, first)
      BY <2>3, SearchOrder
    <3>2. before \subseteq ((SUBSET nodes) \ {{}}) \ {first}
      BY <3>1
    <3>3. /\ IsFiniteSet((SUBSET nodes) \ {{}}) 
          /\ Cardinality((SUBSET nodes) \ {{}}) = subsets - 1
      BY <1>1, FS_RemoveElement
    <3>4. /\ IsFiniteSet(((SUBSET nodes) \ {{}}) \ {first})
          /\ Cardinality(((SUBSET nodes) \ {{}}) \ {first}) = Cardinality((SUBSET nodes) \ {{}}) - 1
      BY <3>3, <2>3, FS_RemoveElement
    <3> HIDE DEF before, nodes
    <3>5. /\ Cardinality(before) \in Nat
          /\ Cardinality(before) <= Cardinality(((SUBSET nodes) \ {{}}) \ {first})
      BY <3>2, <3>4, FS_Subset, FS_CardinalityType
    <3> HIDE DEF subsets
    <3> QED BY <3>3, <3>4, <3>5, <1>1
  <2>5. ASSUME NEW S \in (SUBSET nodes) \ {{}}, Keeps(S)
        PROVE  Cardinality(first) <= Cardinality(S)
    <3>1. S \in P
      BY <2>5, <1>3
    <3>2. S \in SUBSET Evidence /\ first \in SUBSET Evidence
      BY <2>3
    <3>3. CASE S = first
      <4>1. Cardinality(first) \in Nat
        BY <3>2, EvidenceSets
      <4> QED BY <4>1, <3>3
    <3>4. CASE S # first
      <4>1. Precedes(first, S)
        BY <3>1, <3>4, <2>1
      <4> QED BY <4>1, <3>2, SearchOrder
    <3> QED BY <3>3, <3>4
  <2> HIDE DEF before
  <2>6. /\ s.ids = first /\ s.method = "EXACT" /\ s.preserves = TRUE
        /\ s.evaluated = 1 + Cardinality(before)
    BY <2>2
  <2>7. s.evaluated > 0 /\ s.evaluated <= subsets - 1
    <3> HIDE DEF subsets
    <3> QED BY <2>4, <2>6
  <2>8. /\ s.ids \subseteq nodes /\ s.ids # {} /\ s.preserves /\ Keeps(s.ids)
        /\ \A S \in (SUBSET nodes) \ {{}} : Keeps(S) => Cardinality(s.ids) <= Cardinality(S)
    BY <2>3, <2>5, <2>6
  <2> QED
    BY <2>6, <2>7, <2>8, Zenon DEF SoundSufficient, s
<1> QED
  BY <1>4, <1>5

\* The greedy pass keeps some of the nodes, and says truly whether they preserve
\* the proposal: each kept[i] is made of nodes and is not empty, by induction.
LEMMA GreedyIsSound ==
  ASSUME NEW paths, NEW proposed, Nodes(paths) \subseteq Evidence, Nodes(paths) # {}
  PROVE  SoundSufficient(GreedySufficient(paths, proposed), paths, proposed, FALSE)
<1> DEFINE nodes == Nodes(paths)
           Trial(k, e) == IF e \in k /\ k # {e} THEN k \ {e} ELSE k
           kept[i \in 0..MaxEvidence] ==
             IF i = 0 THEN Nodes(paths)
             ELSE IF RecomputedDecision(paths, Trial(kept[i-1], i)) = proposed
                  THEN Trial(kept[i-1], i) ELSE kept[i-1]
           tried == {i \in Nodes(paths) : Trial(kept[i-1], i) # kept[i-1]}
           s == GreedySufficient(paths, proposed)
<1>1. s = [ method |-> "GREEDY_APPROXIMATION", ids |-> kept[MaxEvidence],
          preserves |-> RecomputedDecision(paths, kept[MaxEvidence]) = proposed,
          evaluated |-> Cardinality(tried) + 1 ]
  BY DEF GreedySufficient
<1> DEFINE After(k, i) == IF RecomputedDecision(paths, Trial(k, i)) = proposed
                          THEN Trial(k, i) ELSE k
           F(g) == [i \in 0..MaxEvidence |-> IF i = 0 THEN nodes ELSE After(g[i-1], i)]
           Run(g, n) == /\ DOMAIN g = 0..n /\ g[0] = nodes
                        /\ \A i \in 1..n : g[i] = After(g[i-1], i)
<1>2. \E g : Run(g, MaxEvidence)
  <2> DEFINE Stuck == {n \in Nat : ~ \E g : Run(g, n)}
  <2> HIDE DEF After, nodes
  <2>1. 0 \notin Stuck
    <3>1. Run([i \in 0..0 |-> nodes], 0)
      OBVIOUS
    <3> QED BY <3>1
  <2>2. ASSUME NEW n \in Nat \ {0}, n - 1 \notin Stuck PROVE n \notin Stuck
    <3>1. PICK g : Run(g, n - 1)
      BY <2>2
    <3> DEFINE h == [i \in 0..n |-> IF i = n THEN After(g[n-1], n) ELSE g[i]]
    <3>2. DOMAIN h = 0..n /\ h[0] = nodes
      BY <3>1
    <3>3. ASSUME NEW i \in 1..n PROVE h[i] = After(h[i-1], i)
      <4>1. h[i-1] = g[i-1]
        OBVIOUS
      <4>2. CASE i = n
        BY <4>1, <4>2
      <4>3. CASE i # n
        <5>1. i \in 1..(n-1) /\ h[i] = g[i]
          BY <4>3
        <5> QED BY <5>1, <4>1, <3>1
      <4> QED BY <4>2, <4>3
    <3>4. Run(h, n)
      BY <3>2, <3>3
    <3> QED BY <3>4
  <2>3. Stuck = {}
    <3> SUFFICES ASSUME Stuck # {} PROVE FALSE
      OBVIOUS
    <3>1. PICK n \in Stuck : \A m \in Stuck : n <= m
      BY LeastNatural
    <3>2. n \in Nat \ {0}
      BY <2>1
    <3>3. n - 1 \in Nat /\ ~(n <= n - 1)
      BY <3>2
    <3>4. n - 1 \notin Stuck
      BY <3>1, <3>3
    <3> QED BY <2>2, <3>2, <3>4
  <2> QED BY <2>3, EvidenceAssumption
<1>3. kept = F(kept)
  <2>1. PICK g : Run(g, MaxEvidence)
    BY <1>2
  <2> DEFINE h == [i \in 0..MaxEvidence |-> g[i]]
  <2>2. \A i \in 0..MaxEvidence : h[i] = IF i = 0 THEN nodes ELSE After(h[i-1], i)
    <3> TAKE i \in 0..MaxEvidence
    <3> HIDE DEF After, nodes
    <3>1. CASE i = 0
      BY <2>1, <3>1, EvidenceAssumption
    <3>2. CASE i # 0
      <4>1. i \in 1..MaxEvidence /\ i - 1 \in 0..MaxEvidence
        BY <3>2, EvidenceAssumption
      <4>2. h[i] = g[i] /\ h[i-1] = g[i-1]
        BY <4>1
      <4> QED BY <2>1, <4>1, <4>2
    <3> QED BY <3>1, <3>2
  <2>3. h = F(h)
    <3> HIDE DEF After, nodes
    <3>1. h = [i \in 0..MaxEvidence |-> h[i]]
      OBVIOUS
    <3> HIDE DEF h
    <3> QED BY <2>2, <3>1
  <2> HIDE DEF h
  <2>4. \E g1 : g1 = F(g1)
    BY <2>3
  <2> QED BY <2>4, Zenon
<1> HIDE DEF kept
<1>4. \A n \in 0..MaxEvidence : kept[n] \subseteq nodes /\ kept[n] # {}
  <2> DEFINE Lost == {n \in 0..MaxEvidence : ~(kept[n] \subseteq nodes /\ kept[n] # {})}
  <2> SUFFICES ASSUME Lost # {} PROVE FALSE
    OBVIOUS
  <2>0. Lost \subseteq Nat
    OBVIOUS
  <2>1. PICK n \in Lost : \A m \in Lost : n <= m
    BY <2>0, LeastNatural
  <2>2. \A i \in 0..MaxEvidence : kept[i] = IF i = 0 THEN nodes ELSE After(kept[i-1], i)
    <3> HIDE DEF After, nodes
    <3> DEFINE fk == F(kept)
    <3>1. \A i \in 0..MaxEvidence : fk[i] = IF i = 0 THEN nodes ELSE After(kept[i-1], i)
      OBVIOUS
    <3>2. kept = fk
      BY <1>3
    <3> HIDE DEF fk
    <3> QED BY <3>1, <3>2
  <2>3. n # 0
    BY <2>2
  <2>4. n - 1 \in 0..MaxEvidence /\ ~(n <= n - 1)
    <3>1. n \in 0..MaxEvidence
      OBVIOUS
    <3> HIDE DEF Lost
    <3> QED BY <2>3, <3>1, EvidenceAssumption
  <2>5. kept[n-1] \subseteq nodes /\ kept[n-1] # {}
    BY <2>1, <2>4
  <2>6. kept[n] = After(kept[n-1], n)
    BY <2>2, <2>3
  <2>7. kept[n] = kept[n-1] \/ (kept[n] = kept[n-1] \ {n} /\ kept[n-1] # {n} /\ n \in kept[n-1])
    BY <2>6
  <2> QED BY <2>5, <2>7
<1>5. /\ Cardinality(nodes) \in Nat /\ Cardinality(tried) \in Nat
      /\ Cardinality(tried) <= Cardinality(nodes)
  <2>1. IsFiniteSet(nodes) /\ tried \in SUBSET nodes
    BY EvidenceSets
  <2> HIDE DEF tried, nodes
  <2> QED BY <2>1, FS_Subset, FS_CardinalityType
<1>6. kept[MaxEvidence] \subseteq nodes /\ kept[MaxEvidence] # {}
  BY <1>4, EvidenceAssumption
<1> HIDE DEF tried
<1>7. /\ s.method = "GREEDY_APPROXIMATION" /\ s.ids = kept[MaxEvidence]
      /\ s.evaluated = Cardinality(tried) + 1
  BY <1>1
<1>8. s.preserves => RecomputedDecision(paths, kept[MaxEvidence]) = proposed
  <2> DEFINE b == RecomputedDecision(paths, kept[MaxEvidence]) = proposed
  <2>1. s = [ method |-> "GREEDY_APPROXIMATION", ids |-> kept[MaxEvidence],
              preserves |-> b, evaluated |-> Cardinality(tried) + 1 ]
    BY <1>1
  <2> HIDE DEF b, s
  <2>2. s.preserves = b
    BY <2>1
  <2> QED BY <2>2, Zenon DEF b
<1> HIDE DEF s
<1>9. s.evaluated > 0 /\ s.evaluated <= Cardinality(nodes) + 1
  <2> HIDE DEF nodes
  <2> QED BY <1>5, <1>7
<1>10. s.preserves => RecomputedDecision(paths, s.ids) = proposed
  BY <1>7, <1>8, Zenon
<1> QED
  BY <1>6, <1>7, <1>9, <1>10 DEF SoundSufficient, s

(***************************************************************************)
(* What a list of findings lists, and that the verifier, which sees the    *)
(* record only and makes its findings in another order, makes the same.    *)
(***************************************************************************)

\* The reasons and blockers a finding can add.
Codes ==
    { "INSUFFICIENT_VERIFIED_EVIDENCE", "EVIDENCE_FRAGILITY_HIGH",
      "EVIDENCE_FRAGILITY_NOT_ESTIMABLE", "OUTSIDE_VALIDATED_DISTRIBUTION",
      "DISTRIBUTION_VALIDITY_UNKNOWN", "REPORTING_OBSERVABILITY_ANOMALY",
      "HIGH_MODEL_DISAGREEMENT", "RUNTIME_FAILURE_REQUIRES_REVIEW",
      "ASSURANCE_POLICY_UNCALIBRATED", "CALIBRATION_SCOPE_MISMATCH",
      "PROPOSED_DECISION_WITHHELD",
      "evidence", "fragility", "fragility_unknown", "distribution",
      "distribution_unknown", "distribution_warning", "disagreement", "runtime_failure" }

\* Lists of findings.
Findings == [reasons : Seq(Codes), blockers : Seq(Codes)]

\* What is listed in two lists one after the other is listed in one of them.
LEMMA ListedJoined ==
  ASSUME NEW s \in Seq(Codes), NEW t \in Seq(Codes)
  PROVE  /\ s \o t \in Seq(Codes)
         /\ \A x : Listed(x, s \o t) <=> Listed(x, s) \/ Listed(x, t)
         /\ s \o << >> = s
         /\ s = << >> <=> \A x \in Codes : ~Listed(x, s)
<1> DEFINE u == s \o t
           m == Len(s)
           n == Len(t)
<1>1. m \in Nat /\ n \in Nat /\ DOMAIN s = 1..m /\ DOMAIN t = 1..n
  BY LenProperties
<1>2. /\ u \in Seq(Codes) /\ Len(u) = m + n
      /\ \A i \in 1..(m + n) : u[i] = IF i <= m THEN s[i] ELSE t[i - m]
  BY ConcatProperties
<1>3. DOMAIN u = 1..(m + n)
  BY <1>2, LenProperties
<1> HIDE DEF u, m, n
<1>4. ASSUME NEW x PROVE Listed(x, u) <=> Listed(x, s) \/ Listed(x, t)
  <2>1. ASSUME NEW i \in DOMAIN u, u[i] = x PROVE Listed(x, s) \/ Listed(x, t)
    <3>1. CASE i <= m
      <4>1. i \in DOMAIN s /\ s[i] = x
        BY <1>1, <1>2, <1>3, <2>1, <3>1
      <4> QED BY <4>1 DEF Listed
    <3>2. CASE ~(i <= m)
      <4>1. i - m \in DOMAIN t /\ t[i - m] = x
        BY <1>1, <1>2, <1>3, <2>1, <3>2
      <4> QED BY <4>1 DEF Listed
    <3> QED BY <3>1, <3>2
  <2>2. ASSUME NEW i \in DOMAIN s, s[i] = x PROVE Listed(x, u)
    <3>1. i \in DOMAIN u /\ u[i] = x
      BY <1>1, <1>2, <1>3, <2>2
    <3> QED BY <3>1 DEF Listed
  <2>3. ASSUME NEW i \in DOMAIN t, t[i] = x PROVE Listed(x, u)
    <3>1. i + m \in 1..(m + n) /\ ~(i + m <= m) /\ (i + m) - m = i
      BY <1>1
    <3>2. i + m \in DOMAIN u /\ u[i + m] = x
      BY <3>1, <1>2, <1>3, <2>3
    <3> QED BY <3>2 DEF Listed
  <2> QED BY <2>1, <2>2, <2>3 DEF Listed
<1>5. s \o << >> = s
  BY ConcatEmptySeq
<1>6. s = << >> <=> \A x \in Codes : ~Listed(x, s)
  <2>1. s = << >> => \A x \in Codes : ~Listed(x, s)
    BY DEF Listed
  <2>2. ASSUME s # << >> PROVE \E x \in Codes : Listed(x, s)
    <3>1. m > 0
      BY <2>2, <1>1, EmptySeq DEF m
    <3>2. 1 \in DOMAIN s /\ s[1] \in Codes
      BY <3>1, <1>1, ElementOfSeq DEF m
    <3> QED BY <3>2 DEF Listed
  <2> QED BY <2>1, <2>2
<1> QED BY <1>2, <1>4, <1>5, <1>6 DEF u

\* A finding lists its reason and its blockers when it is made, and nothing otherwise.
LEMMA FindingLists ==
  ASSUME NEW made, NEW reason \in Codes, NEW blocks \in Seq(Codes)
  PROVE  LET f == Finding(made, reason, blocks)
         IN  /\ f \in Findings
             /\ \A x : Listed(x, f.reasons) <=> made /\ x = reason
             /\ \A x : Listed(x, f.blockers) <=> made /\ Listed(x, blocks)
             /\ ~made => f.reasons = << >> /\ f.blockers = << >>
<1> DEFINE f == Finding(made, reason, blocks)
<1>1. CASE made
  <2>1. f.reasons = << reason >> /\ f.blockers = blocks /\ f \in Findings
    BY <1>1 DEF Finding, Findings
  <2>2. DOMAIN << reason >> = {1} /\ << reason >>[1] = reason
    OBVIOUS
  <2> QED BY <1>1, <2>1, <2>2 DEF Listed
<1>2. CASE ~made
  <2>1. f.reasons = << >> /\ f.blockers = << >> /\ f \in Findings
    BY <1>2 DEF Finding, Findings
  <2>2. DOMAIN << >> = {}
    OBVIOUS
  <2> QED BY <1>2, <2>1, <2>2 DEF Listed
<1> QED BY <1>1, <1>2

\* Findings appended list what either lists.
LEMMA Appended ==
  ASSUME NEW f \in Findings, NEW g \in Findings
  PROVE  /\ f ++ g \in Findings
         /\ \A x : Listed(x, (f ++ g).reasons) <=> Listed(x, f.reasons) \/ Listed(x, g.reasons)
         /\ \A x : Listed(x, (f ++ g).blockers) <=> Listed(x, f.blockers) \/ Listed(x, g.blockers)
         /\ g.reasons = << >> /\ g.blockers = << >> => f ++ g = f
<1>1. /\ f.reasons \in Seq(Codes) /\ f.blockers \in Seq(Codes)
      /\ g.reasons \in Seq(Codes) /\ g.blockers \in Seq(Codes)
      /\ f = [reasons |-> f.reasons, blockers |-> f.blockers]
  BY DEF Findings
<1> DEFINE rs == f.reasons \o g.reasons
           bs == f.blockers \o g.blockers
<1>2. rs \in Seq(Codes) /\ \A x : Listed(x, rs) <=> Listed(x, f.reasons) \/ Listed(x, g.reasons)
  BY <1>1, ListedJoined
<1>3. bs \in Seq(Codes) /\ \A x : Listed(x, bs) <=> Listed(x, f.blockers) \/ Listed(x, g.blockers)
  BY <1>1, ListedJoined
<1>4. f.reasons \o << >> = f.reasons /\ f.blockers \o << >> = f.blockers
  BY <1>1, ListedJoined
<1>5. f ++ g = [reasons |-> rs, blockers |-> bs]
  BY DEF ++
<1>6. g.reasons = << >> /\ g.blockers = << >> => f ++ g = f
  BY <1>1, <1>4, <1>5
<1> HIDE DEF rs, bs
<1> QED BY <1>2, <1>3, <1>5, <1>6 DEF Findings

\* The names below are among them, alone or in a list.
LEMMA CodesListed ==
  /\ \A x \in Codes : << x >> \in Seq(Codes) /\ \A y : Listed(y, << x >>) <=> y = x
  /\ << >> \in Seq(Codes) /\ \A y : ~Listed(y, << >>)
<1>1. ASSUME NEW x \in Codes
      PROVE  << x >> \in Seq(Codes) /\ \A y : Listed(y, << x >>) <=> y = x
  <2>1. << x >> \in Seq(Codes) /\ DOMAIN << x >> = {1} /\ << x >>[1] = x
    OBVIOUS
  <2> QED BY <2>1 DEF Listed
<1>2. << >> \in Seq(Codes) /\ DOMAIN << >> = {}
  OBVIOUS
<1> QED BY <1>1, <1>2 DEF Listed

\* g lists what f lists and, if it was made, one finding more.
Adds(g, f, made, reason, blocks) ==
  /\ g \in Findings
  /\ \A x : Listed(x, g.reasons) <=> Listed(x, f.reasons) \/ (made /\ x = reason)
  /\ \A x : Listed(x, g.blockers) <=> Listed(x, f.blockers) \/ (made /\ Listed(x, blocks))

\* A finding is added to others, and leaves them as they are if it was not made.
LEMMA OneMore ==
  ASSUME NEW f \in Findings, NEW made, NEW reason \in Codes, NEW blocks \in Seq(Codes)
  PROVE  /\ Adds(f ++ Finding(made, reason, blocks), f, made, reason, blocks)
         /\ ~made => f ++ Finding(made, reason, blocks) = f
<1> DEFINE n == Finding(made, reason, blocks)
<1>1. /\ n \in Findings
      /\ \A x : Listed(x, n.reasons) <=> made /\ x = reason
      /\ \A x : Listed(x, n.blockers) <=> made /\ Listed(x, blocks)
      /\ ~made => n.reasons = << >> /\ n.blockers = << >>
  BY FindingLists
<1> HIDE DEF n
<1>2. /\ f ++ n \in Findings
      /\ \A x : Listed(x, (f ++ n).reasons) <=> Listed(x, f.reasons) \/ Listed(x, n.reasons)
      /\ \A x : Listed(x, (f ++ n).blockers) <=> Listed(x, f.blockers) \/ Listed(x, n.blockers)
      /\ n.reasons = << >> /\ n.blockers = << >> => f ++ n = f
  BY <1>1, Appended
<1>3. \A x : Listed(x, (f ++ n).reasons) <=> Listed(x, f.reasons) \/ (made /\ x = reason)
  BY <1>1, <1>2
<1>4. \A x : Listed(x, (f ++ n).blockers) <=> Listed(x, f.blockers) \/ (made /\ Listed(x, blocks))
  BY <1>1, <1>2
<1>5. ~made => f ++ n = f
  BY <1>1, <1>2
<1> QED BY <1>2, <1>3, <1>4, <1>5 DEF n, Adds

\* A finding depends on its condition only.
LEMMA SameFinding ==
  ASSUME NEW c, NEW d, c <=> d, NEW reason, NEW blocks
  PROVE  Finding(c, reason, blocks) = Finding(d, reason, blocks)
BY DEF Finding

\* The names of what can stand in the way of an actionable decision.
Blocks ==
    { "evidence", "fragility", "fragility_unknown", "distribution", "distribution_unknown",
      "distribution_warning", "disagreement", "runtime_failure" }

\* What the findings of the engine list.
LEMMA EngineLists ==
  ASSUME NEW value, NEW e, NEW f, NEW d, NEW p
  PROVE  LET F == EngineFindings(value, e, f, d, p)
             Blocked(x) == Listed(x, F.blockers)
         IN  /\ F \in Findings
             /\ \A x : Blocked(x) => x \in Blocks
             /\ Blocked("evidence") <=> e.state # "VERIFIED"
             /\ Blocked("fragility") <=> f.state = "FRAGILE"
             /\ Blocked("fragility_unknown") <=> f.state = "NOT_ESTIMABLE" /\ p.reviewNotEstimable
             /\ Blocked("distribution") <=> d.state = "OUTSIDE_REFERENCE"
             /\ Blocked("distribution_unknown") <=>
                  d.state = "UNKNOWN" /\ p.requireReference /\ p.reviewUnknownDistribution
             /\ Blocked("distribution_warning") <=> d.state = "WARNING"
             /\ Blocked("disagreement") <=> Disagrees(value.scores, p.maximumDisagreement)
             /\ Blocked("runtime_failure") <=> value.failures # {}
             /\ Listed("DISTRIBUTION_VALIDITY_UNKNOWN", F.reasons) <=>
                  d.state = "UNKNOWN" /\ p.requireReference
             /\ Listed("ASSURANCE_POLICY_UNCALIBRATED", F.reasons) <=>
                  value.calibration = "UNCALIBRATED"
<1> DEFINE c1 == e.state # "VERIFIED"
           c2 == f.state = "FRAGILE"
           c3 == f.state = "NOT_ESTIMABLE" /\ p.reviewNotEstimable
           c4 == d.state = "OUTSIDE_REFERENCE"
           c5 == d.state = "UNKNOWN" /\ p.requireReference
           c6 == d.state = "WARNING"
           c7 == Disagrees(value.scores, p.maximumDisagreement)
           c8 == value.failures # {}
           c9 == value.calibration = "UNCALIBRATED"
           c10 == value.calibration # "UNCALIBRATED" /\ p.maturity = "HEURISTIC_POLICY"
           c11 == value.proposed = "ABSTAIN"
           r1 == "INSUFFICIENT_VERIFIED_EVIDENCE"
           r2 == "EVIDENCE_FRAGILITY_HIGH"
           r3 == "EVIDENCE_FRAGILITY_NOT_ESTIMABLE"
           r4 == "OUTSIDE_VALIDATED_DISTRIBUTION"
           r5 == "DISTRIBUTION_VALIDITY_UNKNOWN"
           r6 == "REPORTING_OBSERVABILITY_ANOMALY"
           r7 == "HIGH_MODEL_DISAGREEMENT"
           r8 == "RUNTIME_FAILURE_REQUIRES_REVIEW"
           r9 == "ASSURANCE_POLICY_UNCALIBRATED"
           r10 == "CALIBRATION_SCOPE_MISMATCH"
           r11 == "PROPOSED_DECISION_WITHHELD"
           b1 == << "evidence" >>
           b2 == << "fragility" >>
           b3 == << "fragility_unknown" >>
           b4 == << "distribution" >>
           b5 == IF p.reviewUnknownDistribution THEN << "distribution_unknown" >> ELSE << >>
           b6 == << "distribution_warning" >>
           b7 == << "disagreement" >>
           b8 == << "runtime_failure" >>
           b9 == << >>
           b10 == << >>
           b11 == << >>
           P1 == Finding(c1, r1, b1)
           P2 == P1 ++ Finding(c2, r2, b2)
           P3 == P2 ++ Finding(c3, r3, b3)
           P4 == P3 ++ Finding(c4, r4, b4)
           P5 == P4 ++ Finding(c5, r5, b5)
           P6 == P5 ++ Finding(c6, r6, b6)
           P7 == P6 ++ Finding(c7, r7, b7)
           P8 == P7 ++ Finding(c8, r8, b8)
           P9 == P8 ++ Finding(c9, r9, b9)
           P10 == P9 ++ Finding(c10, r10, b10)
           P11 == P10 ++ Finding(c11, r11, b11)
<1>0. EngineFindings(value, e, f, d, p) = P11
  BY DEF EngineFindings
<1>r. {r1, r2, r3, r4, r5, r6, r7, r8, r9, r10, r11} \subseteq Codes
  BY DEF Codes
<1>b1. b1 \in Seq(Codes) /\ \A y : Listed(y, b1) <=> y = "evidence"
  <2>1. "evidence" \in Codes
    BY DEF Codes
  <2> QED BY <2>1, CodesListed
<1>b2. b2 \in Seq(Codes) /\ \A y : Listed(y, b2) <=> y = "fragility"
  <2>1. "fragility" \in Codes
    BY DEF Codes
  <2> QED BY <2>1, CodesListed
<1>b3. b3 \in Seq(Codes) /\ \A y : Listed(y, b3) <=> y = "fragility_unknown"
  <2>1. "fragility_unknown" \in Codes
    BY DEF Codes
  <2> QED BY <2>1, CodesListed
<1>b4. b4 \in Seq(Codes) /\ \A y : Listed(y, b4) <=> y = "distribution"
  <2>1. "distribution" \in Codes
    BY DEF Codes
  <2> QED BY <2>1, CodesListed
<1>b5. /\ b5 \in Seq(Codes)
       /\ \A y : Listed(y, b5) <=> p.reviewUnknownDistribution /\ y = "distribution_unknown"
  <2>1. "distribution_unknown" \in Codes
    BY DEF Codes
  <2> QED BY <2>1, CodesListed
<1>b6. b6 \in Seq(Codes) /\ \A y : Listed(y, b6) <=> y = "distribution_warning"
  <2>1. "distribution_warning" \in Codes
    BY DEF Codes
  <2> QED BY <2>1, CodesListed
<1>b7. b7 \in Seq(Codes) /\ \A y : Listed(y, b7) <=> y = "disagreement"
  <2>1. "disagreement" \in Codes
    BY DEF Codes
  <2> QED BY <2>1, CodesListed
<1>b8. b8 \in Seq(Codes) /\ \A y : Listed(y, b8) <=> y = "runtime_failure"
  <2>1. "runtime_failure" \in Codes
    BY DEF Codes
  <2> QED BY <2>1, CodesListed
<1>b9. b9 \in Seq(Codes) /\ \A y : Listed(y, b9) <=> FALSE
  BY CodesListed
<1>b10. b10 \in Seq(Codes) /\ \A y : Listed(y, b10) <=> FALSE
  BY CodesListed
<1>b11. b11 \in Seq(Codes) /\ \A y : Listed(y, b11) <=> FALSE
  BY CodesListed
<1> HIDE DEF c1, c2, c3, c4, c5, c6, c7, c8, c9, c10, c11,
             r1, r2, r3, r4, r5, r6, r7, r8, r9, r10, r11,
             b1, b2, b3, b4, b5, b6, b7, b8, b9, b10, b11
<1>1. /\ P1 \in Findings
      /\ \A x : Listed(x, P1.reasons) <=> c1 /\ x = r1
      /\ \A x : Listed(x, P1.blockers) <=> c1 /\ Listed(x, b1)
  BY <1>r, <1>b1, FindingLists
<1> HIDE DEF P1
<1>2. Adds(P2, P1, c2, r2, b2) /\ P2 \in Findings
  <2>1. P1 \in Findings /\ r2 \in Codes /\ b2 \in Seq(Codes)
    BY <1>1, <1>r, <1>b2
  <2>2. Adds(P2, P1, c2, r2, b2)
    BY <2>1, OneMore DEF P2
  <2> QED BY <2>2 DEF Adds
<1> HIDE DEF P2
<1>3. Adds(P3, P2, c3, r3, b3) /\ P3 \in Findings
  <2>1. P2 \in Findings /\ r3 \in Codes /\ b3 \in Seq(Codes)
    BY <1>2, <1>r, <1>b3
  <2>2. Adds(P3, P2, c3, r3, b3)
    BY <2>1, OneMore DEF P3
  <2> QED BY <2>2 DEF Adds
<1> HIDE DEF P3
<1>4. Adds(P4, P3, c4, r4, b4) /\ P4 \in Findings
  <2>1. P3 \in Findings /\ r4 \in Codes /\ b4 \in Seq(Codes)
    BY <1>3, <1>r, <1>b4
  <2>2. Adds(P4, P3, c4, r4, b4)
    BY <2>1, OneMore DEF P4
  <2> QED BY <2>2 DEF Adds
<1> HIDE DEF P4
<1>5. Adds(P5, P4, c5, r5, b5) /\ P5 \in Findings
  <2>1. P4 \in Findings /\ r5 \in Codes /\ b5 \in Seq(Codes)
    BY <1>4, <1>r, <1>b5
  <2>2. Adds(P5, P4, c5, r5, b5)
    BY <2>1, OneMore DEF P5
  <2> QED BY <2>2 DEF Adds
<1> HIDE DEF P5
<1>6. Adds(P6, P5, c6, r6, b6) /\ P6 \in Findings
  <2>1. P5 \in Findings /\ r6 \in Codes /\ b6 \in Seq(Codes)
    BY <1>5, <1>r, <1>b6
  <2>2. Adds(P6, P5, c6, r6, b6)
    BY <2>1, OneMore DEF P6
  <2> QED BY <2>2 DEF Adds
<1> HIDE DEF P6
<1>7. Adds(P7, P6, c7, r7, b7) /\ P7 \in Findings
  <2>1. P6 \in Findings /\ r7 \in Codes /\ b7 \in Seq(Codes)
    BY <1>6, <1>r, <1>b7
  <2>2. Adds(P7, P6, c7, r7, b7)
    BY <2>1, OneMore DEF P7
  <2> QED BY <2>2 DEF Adds
<1> HIDE DEF P7
<1>8. Adds(P8, P7, c8, r8, b8) /\ P8 \in Findings
  <2>1. P7 \in Findings /\ r8 \in Codes /\ b8 \in Seq(Codes)
    BY <1>7, <1>r, <1>b8
  <2>2. Adds(P8, P7, c8, r8, b8)
    BY <2>1, OneMore DEF P8
  <2> QED BY <2>2 DEF Adds
<1> HIDE DEF P8
<1>9. Adds(P9, P8, c9, r9, b9) /\ P9 \in Findings
  <2>1. P8 \in Findings /\ r9 \in Codes /\ b9 \in Seq(Codes)
    BY <1>8, <1>r, <1>b9
  <2>2. Adds(P9, P8, c9, r9, b9)
    BY <2>1, OneMore DEF P9
  <2> QED BY <2>2 DEF Adds
<1> HIDE DEF P9
<1>10. Adds(P10, P9, c10, r10, b10) /\ P10 \in Findings
  <2>1. P9 \in Findings /\ r10 \in Codes /\ b10 \in Seq(Codes)
    BY <1>9, <1>r, <1>b10
  <2>2. Adds(P10, P9, c10, r10, b10)
    BY <2>1, OneMore DEF P10
  <2> QED BY <2>2 DEF Adds
<1> HIDE DEF P10
<1>11. Adds(P11, P10, c11, r11, b11) /\ P11 \in Findings
  <2>1. P10 \in Findings /\ r11 \in Codes /\ b11 \in Seq(Codes)
    BY <1>10, <1>r, <1>b11
  <2>2. Adds(P11, P10, c11, r11, b11)
    BY <2>1, OneMore DEF P11
  <2> QED BY <2>2 DEF Adds
<1> HIDE DEF P11
<1>12. \A x : Listed(x, P11.reasons) <=>
         \/ (c1 /\ x = r1)
         \/ (c2 /\ x = r2)
         \/ (c3 /\ x = r3)
         \/ (c4 /\ x = r4)
         \/ (c5 /\ x = r5)
         \/ (c6 /\ x = r6)
         \/ (c7 /\ x = r7)
         \/ (c8 /\ x = r8)
         \/ (c9 /\ x = r9)
         \/ (c10 /\ x = r10)
         \/ (c11 /\ x = r11)
  BY <1>1, <1>2, <1>3, <1>4, <1>5, <1>6, <1>7, <1>8, <1>9, <1>10, <1>11 DEF Adds
<1>13. \A x : Listed(x, P11.blockers) <=>
         \/ (c1 /\ Listed(x, b1))
         \/ (c2 /\ Listed(x, b2))
         \/ (c3 /\ Listed(x, b3))
         \/ (c4 /\ Listed(x, b4))
         \/ (c5 /\ Listed(x, b5))
         \/ (c6 /\ Listed(x, b6))
         \/ (c7 /\ Listed(x, b7))
         \/ (c8 /\ Listed(x, b8))
         \/ (c9 /\ Listed(x, b9))
         \/ (c10 /\ Listed(x, b10))
         \/ (c11 /\ Listed(x, b11))
  BY <1>1, <1>2, <1>3, <1>4, <1>5, <1>6, <1>7, <1>8, <1>9, <1>10, <1>11 DEF Adds
<1>m. ASSUME NEW x
      PROVE  Listed(x, P11.blockers) <=>
               \/ (c1 /\ x = "evidence")
               \/ (c2 /\ x = "fragility")
               \/ (c3 /\ x = "fragility_unknown")
               \/ (c4 /\ x = "distribution")
               \/ (c5 /\ p.reviewUnknownDistribution /\ x = "distribution_unknown")
               \/ (c6 /\ x = "distribution_warning")
               \/ (c7 /\ x = "disagreement")
               \/ (c8 /\ x = "runtime_failure")
  <2>1. /\ Listed(x, b1) <=> x = "evidence"
        /\ Listed(x, b2) <=> x = "fragility"
        /\ Listed(x, b3) <=> x = "fragility_unknown"
        /\ Listed(x, b4) <=> x = "distribution"
        /\ Listed(x, b5) <=> p.reviewUnknownDistribution /\ x = "distribution_unknown"
        /\ Listed(x, b6) <=> x = "distribution_warning"
        /\ Listed(x, b7) <=> x = "disagreement"
        /\ Listed(x, b8) <=> x = "runtime_failure"
        /\ ~Listed(x, b9) /\ ~Listed(x, b10) /\ ~Listed(x, b11)
    BY <1>b1, <1>b2, <1>b3, <1>b4, <1>b5, <1>b6, <1>b7, <1>b8, <1>b9, <1>b10, <1>b11
  <2> QED BY <1>13, <2>1
<1>14.
  /\ Listed("evidence", P11.blockers) <=> c1
  /\ Listed("fragility", P11.blockers) <=> c2
  /\ Listed("fragility_unknown", P11.blockers) <=> c3
  /\ Listed("distribution", P11.blockers) <=> c4
  /\ Listed("distribution_unknown", P11.blockers) <=> c5 /\ p.reviewUnknownDistribution
  /\ Listed("distribution_warning", P11.blockers) <=> c6
  /\ Listed("disagreement", P11.blockers) <=> c7
  /\ Listed("runtime_failure", P11.blockers) <=> c8
  BY <1>m
<1>15. /\ Listed("DISTRIBUTION_VALIDITY_UNKNOWN", P11.reasons) <=> c5
       /\ Listed("ASSURANCE_POLICY_UNCALIBRATED", P11.reasons) <=> c9
  BY <1>12 DEF r1, r2, r3, r4, r5, r6, r7, r8, r9, r10, r11
<1>16. EngineFindings(value, e, f, d, p) = P11
  BY <1>0
<1> DEFINE F == EngineFindings(value, e, f, d, p)
<1>17. F \in Findings /\ \A x : Listed(x, F.blockers) => x \in Blocks
  BY <1>11, <1>m, <1>16 DEF Blocks
<1>18. /\ Listed("evidence", F.blockers) <=> c1
       /\ Listed("fragility", F.blockers) <=> c2
       /\ Listed("fragility_unknown", F.blockers) <=> c3
       /\ Listed("distribution", F.blockers) <=> c4
       /\ Listed("distribution_unknown", F.blockers) <=> c5 /\ p.reviewUnknownDistribution
       /\ Listed("distribution_warning", F.blockers) <=> c6
       /\ Listed("disagreement", F.blockers) <=> c7
       /\ Listed("runtime_failure", F.blockers) <=> c8
  BY <1>14, <1>16
<1>19. /\ Listed("DISTRIBUTION_VALIDITY_UNKNOWN", F.reasons) <=> c5
       /\ Listed("ASSURANCE_POLICY_UNCALIBRATED", F.reasons) <=> c9
  BY <1>15, <1>16
<1> HIDE DEF F
<1>20. /\ F \in Findings
       /\ \A x : Listed(x, F.blockers) => x \in Blocks
       /\ Listed("evidence", F.blockers) <=> e.state # "VERIFIED"
       /\ Listed("fragility", F.blockers) <=> f.state = "FRAGILE"
       /\ Listed("fragility_unknown", F.blockers) <=>
            f.state = "NOT_ESTIMABLE" /\ p.reviewNotEstimable
       /\ Listed("distribution", F.blockers) <=> d.state = "OUTSIDE_REFERENCE"
       /\ Listed("distribution_unknown", F.blockers) <=>
            d.state = "UNKNOWN" /\ p.requireReference /\ p.reviewUnknownDistribution
       /\ Listed("distribution_warning", F.blockers) <=> d.state = "WARNING"
       /\ Listed("disagreement", F.blockers) <=> Disagrees(value.scores, p.maximumDisagreement)
       /\ Listed("runtime_failure", F.blockers) <=> value.failures # {}
       /\ Listed("DISTRIBUTION_VALIDITY_UNKNOWN", F.reasons) <=>
            d.state = "UNKNOWN" /\ p.requireReference
       /\ Listed("ASSURANCE_POLICY_UNCALIBRATED", F.reasons) <=> value.calibration = "UNCALIBRATED"
  BY <1>17, <1>18, <1>19, Zenon DEF c1, c2, c3, c4, c5, c6, c7, c8, c9
<1> QED BY <1>20 DEF F

\* No finding.
Nothing == [reasons |-> << >>, blockers |-> << >>]

\* Of two findings one of which is none the order does not matter.
LEMMA Exclusive ==
  ASSUME NEW f \in Findings, NEW g \in Findings, NEW h \in Findings, g = Nothing \/ h = Nothing
  PROVE  (f ++ g) ++ h = (f ++ h) ++ g
<1>1. Nothing.reasons = << >> /\ Nothing.blockers = << >>
  BY DEF Nothing
<1>2. ASSUME NEW x \in Findings, NEW y \in Findings, y = Nothing PROVE x ++ y = x
  BY <1>1, <1>2, Appended
<1>3. f ++ g \in Findings /\ f ++ h \in Findings
  BY Appended
<1>4. CASE g = Nothing
  <2>1. f ++ g = f /\ (f ++ h) ++ g = f ++ h
    BY <1>2, <1>3, <1>4
  <2> QED BY <2>1
<1>5. CASE h = Nothing
  <2>1. f ++ h = f /\ (f ++ g) ++ h = f ++ g
    BY <1>2, <1>3, <1>5
  <2> QED BY <2>1
<1> QED BY <1>4, <1>5

\* From the record of a result, with the policy it was issued under or without
\* one, the verifier derives the findings the engine made.
LEMMA VerifierAgrees ==
  ASSUME NEW value, NEW p, NEW r, NEW q, q = p \/ q = NoPolicy,
         r.failures = value.failures, r.calibration = value.calibration,
         r.maturity = p.maturity, r.proposed = value.proposed,
         r.reasons = EngineFindings(value, r.evidence, r.fragility, r.distribution, p).reasons,
         r.blockers = EngineFindings(value, r.evidence, r.fragility, r.distribution, p).blockers
  PROVE  VerifierFindings(r, q) = EngineFindings(value, r.evidence, r.fragility, r.distribution, p)
<1> DEFINE c3 == r.fragility.state = "NOT_ESTIMABLE" /\ p.reviewNotEstimable
           c5 == r.distribution.state = "UNKNOWN" /\ p.requireReference
           c7 == Disagrees(value.scores, p.maximumDisagreement)
           b5 == IF p.reviewUnknownDistribution THEN << "distribution_unknown" >> ELSE << >>
           v3 == /\ r.fragility.state = "NOT_ESTIMABLE"
                 /\ IF q = NoPolicy THEN Listed("fragility_unknown", r.blockers)
                    ELSE q.reviewNotEstimable
           v5 == /\ r.distribution.state = "UNKNOWN"
                 /\ IF q = NoPolicy THEN Listed("DISTRIBUTION_VALIDITY_UNKNOWN", r.reasons)
                    ELSE q.requireReference
           v7 == Listed("disagreement", r.blockers)
           w5 == IF IF q = NoPolicy THEN Listed("distribution_unknown", r.blockers)
                    ELSE q.reviewUnknownDistribution
                 THEN << "distribution_unknown" >> ELSE << >>
           F3 == Finding(c3, "EVIDENCE_FRAGILITY_NOT_ESTIMABLE", << "fragility_unknown" >>)
           F5 == Finding(c5, "DISTRIBUTION_VALIDITY_UNKNOWN", b5)
           F6 == Finding(r.distribution.state = "WARNING",
                         "REPORTING_OBSERVABILITY_ANOMALY", << "distribution_warning" >>)
           F7 == Finding(c7, "HIGH_MODEL_DISAGREEMENT", << "disagreement" >>)
           G3 == Finding(v3, "EVIDENCE_FRAGILITY_NOT_ESTIMABLE", << "fragility_unknown" >>)
           G5 == Finding(v5, "DISTRIBUTION_VALIDITY_UNKNOWN", w5)
           G7 == Finding(v7, "HIGH_MODEL_DISAGREEMENT", << "disagreement" >>)
           T1 == Finding(r.evidence.state # "VERIFIED",
                         "INSUFFICIENT_VERIFIED_EVIDENCE", << "evidence" >>)
           T2 == T1 ++ Finding(r.fragility.state = "FRAGILE",
                               "EVIDENCE_FRAGILITY_HIGH", << "fragility" >>)
           F4 == Finding(r.distribution.state = "OUTSIDE_REFERENCE",
                         "OUTSIDE_VALIDATED_DISTRIBUTION", << "distribution" >>)
           F8 == Finding(r.failures # {}, "RUNTIME_FAILURE_REQUIRES_REVIEW", << "runtime_failure" >>)
           F9 == Finding(r.calibration = "UNCALIBRATED", "ASSURANCE_POLICY_UNCALIBRATED", << >>)
           F10 == Finding(r.calibration # "UNCALIBRATED" /\ r.maturity = "HEURISTIC_POLICY",
                          "CALIBRATION_SCOPE_MISMATCH", << >>)
           F11 == Finding(r.proposed = "ABSTAIN", "PROPOSED_DECISION_WITHHELD", << >>)
           T4 == (T2 ++ F3) ++ F4
<1>1. EngineFindings(value, r.evidence, r.fragility, r.distribution, p)
        = ((((((T4 ++ F5) ++ F6) ++ F7) ++ F8) ++ F9) ++ F10) ++ F11
  BY DEF EngineFindings
<1>2. VerifierFindings(r, q)
        = (((((((((T2 ++ G3) ++ F4) ++ F6) ++ G5) ++ G7) ++ F8) ++ F9) ++ F10) ++ F11)
  BY DEF VerifierFindings
<1>3. /\ Listed("fragility_unknown", r.blockers) <=> c3
      /\ Listed("distribution_unknown", r.blockers) <=> c5 /\ p.reviewUnknownDistribution
      /\ Listed("disagreement", r.blockers) <=> c7
      /\ Listed("DISTRIBUTION_VALIDITY_UNKNOWN", r.reasons) <=> c5
  BY EngineLists
<1>4. G3 = F3
  <2>1. v3 <=> c3
    BY <1>3
  <2> QED BY <2>1 DEF Finding
<1>5. G7 = F7
  BY <1>3 DEF Finding
<1>6. G5 = F5
  <2>1. v5 <=> c5
    BY <1>3
  <2>2. c5 => w5 = b5
    BY <1>3
  <2> QED BY <2>1, <2>2 DEF Finding
<1>7. (T4 ++ F6) ++ F5 = (T4 ++ F5) ++ F6
  <2>1. /\ << "evidence" >> \in Seq(Codes) /\ << "fragility" >> \in Seq(Codes)
        /\ << "fragility_unknown" >> \in Seq(Codes) /\ << "distribution" >> \in Seq(Codes)
        /\ << "distribution_warning" >> \in Seq(Codes) /\ b5 \in Seq(Codes)
    <3>1. {"evidence", "fragility", "fragility_unknown", "distribution",
           "distribution_unknown", "distribution_warning"} \subseteq Codes
      BY DEF Codes
    <3> QED BY <3>1, CodesListed
  <2>2. {"INSUFFICIENT_VERIFIED_EVIDENCE", "EVIDENCE_FRAGILITY_HIGH",
         "EVIDENCE_FRAGILITY_NOT_ESTIMABLE", "OUTSIDE_VALIDATED_DISTRIBUTION",
         "DISTRIBUTION_VALIDITY_UNKNOWN", "REPORTING_OBSERVABILITY_ANOMALY"} \subseteq Codes
    BY DEF Codes
  <2>3. T1 \in Findings
    BY <2>1, <2>2, FindingLists
  <2> HIDE DEF T1
  <2>4. T2 \in Findings
    BY <2>1, <2>2, <2>3, OneMore DEF Adds
  <2> HIDE DEF T2
  <2>5. T2 ++ F3 \in Findings
    BY <2>1, <2>2, <2>4, OneMore DEF Adds
  <2> DEFINE T3 == T2 ++ F3
  <2> HIDE DEF T3
  <2>6. T3 ++ F4 \in Findings
    BY <2>1, <2>2, <2>5, OneMore DEF Adds, T3
  <2>7. T4 \in Findings
    BY <2>6 DEF T3
  <2>8. ~(c5 /\ r.distribution.state = "WARNING")
    OBVIOUS
  <2>9. F5 \in Findings /\ F6 \in Findings
    BY <2>1, <2>2, FindingLists
  <2>10. F5 = Nothing \/ F6 = Nothing
    BY <2>8 DEF Finding, Nothing
  <2> HIDE DEF T4, F5, F6
  <2> QED BY <2>7, <2>9, <2>10, Exclusive
<1> HIDE DEF F3, F4, F5, F6, F7, F8, F9, F10, F11, G3, G5, G7, T2
<1> QED BY <1>1, <1>2, <1>4, <1>5, <1>6, <1>7

(***************************************************************************)
(* The verifier accepts what the engine issues.                            *)
(***************************************************************************)

\* R records what the engine derives of a proposal d about a, with the findings made.
Records(R, a, d, failed, p) ==
  LET F == EngineFindings(AssuranceInput(a, d, failed), R.evidence, R.fragility, R.distribution, p)
  IN  /\ R.proposed = d /\ R.failures = failed /\ R.policy = p
      /\ R.maturity = p.maturity /\ R.calibration = "UNCALIBRATED"
      /\ R.evidence = AssessEvidence(a.paths, p.minimumCoverage)
      /\ R.fragility = AnalyzeFragility(a.paths, AggregateScore(DimensionScores(a.paths)), d, p)
      /\ R.distribution = AssessDistribution(a.reference)
      /\ R.sufficient = SufficientEvidence(a.paths, d, p)
      /\ R.reasons = F.reasons /\ R.blockers = F.blockers
      /\ R.final = FinalDecision(d, \/ R.evidence.verified = 0
                                    \/ failed \cap BlockingFailures # {},
                                 R.blockers # << >>)
      /\ R.automation = (/\ R.blockers = << >>
                         /\ R.final \in {"PASS", "FLAG"}
                         /\ p.maturity # "HEURISTIC_POLICY"
                         /\ ~p.requireCalibration)
      /\ R.status = Status(d, R.final, R.automation)

\* The result of the engine does.
LEMMA ResultHolds ==
  ASSUME NEW a, NEW d, NEW failed, NEW p
  PROVE  Records(Evaluate(AssuranceInput(a, d, failed), p), a, d, failed, p)
BY DEF Evaluate, AssuranceInput, Records

\* The paths of an assessment: how many are verified, and what they cite.
LEMMA PathsOf ==
  ASSUME NEW a, IsAssessment(a)
  PROVE  LET n == Cardinality(a.paths)
             v == Cardinality(Verified(a.paths))
         IN  /\ n \in Nat /\ v \in Nat /\ v <= n
             /\ v = 0 <=> Nodes(a.paths) = {}
             /\ Nodes(a.paths) \subseteq Evidence
             /\ Retained(a.paths, {}) = {}
<1> DEFINE n == Cardinality(a.paths)
           v == Cardinality(Verified(a.paths))
<1>1. IsFiniteSet(a.paths) /\ Verified(a.paths) \in SUBSET a.paths
  BY DEF IsAssessment, Verified
<1>2. IsFiniteSet(Verified(a.paths)) /\ v <= n
  BY <1>1, FS_Subset
<1>3. n \in Nat /\ v \in Nat
  BY <1>1, <1>2, FS_CardinalityType
<1>4. v = 0 <=> Verified(a.paths) = {}
  <2> DEFINE V == Verified(a.paths)
  <2>1. IsFiniteSet(V)
    BY <1>2
  <2> HIDE DEF V
  <2>2. Cardinality(V) = 0 <=> V = {}
    BY <2>1, FS_EmptySet
  <2> QED BY <2>2 DEF V
<1>5. \A x \in Verified(a.paths) : x.ids # {} /\ x.ids \subseteq Evidence
  BY DEF IsAssessment, Verified
<1>6. Verified(a.paths) = {} <=> Nodes(a.paths) = {}
  <2> HIDE DEF Verified
  <2> QED BY <1>5 DEF Nodes
<1>7. Nodes(a.paths) \subseteq Evidence
  <2> HIDE DEF Verified
  <2> QED BY <1>5 DEF Nodes
<1>8. Retained(a.paths, {}) = {}
  BY <1>5 DEF Retained
<1> QED BY <1>2, <1>3, <1>4, <1>6, <1>7, <1>8

\* Without any path fusion abstains, and has no score to compare.
LEMMA NothingRetained ==
  ASSUME NEW paths, NEW S, Retained(paths, S) = {}
  PROVE  RecomputedDecision(paths, S) = "ABSTAIN" /\ RecomputedScore(paths, S) = None
<1>1. DOMAIN DimensionScores({}) = {}
  BY DEF DimensionScores
<1>2. AggregateScore(DimensionScores({})) = None
  BY <1>1 DEF AggregateScore
<1> QED BY <1>2 DEF RecomputedDecision, RecomputedScore, FusedDecision

\* The recorded evidence agrees with itself.
LEMMA EvidenceAgrees ==
  ASSUME NEW a, IsAssessment(a), NEW p, NEW r, NEW q, q = p \/ q = NoPolicy,
         p.minimumCoverage \in 0..100, NoPolicy # p,
         r.evidence = AssessEvidence(a.paths, p.minimumCoverage)
  PROVE  EvidenceIsConsistent(r, q)
<1> DEFINE n == Cardinality(a.paths)
           v == Cardinality(Verified(a.paths))
           c == p.minimumCoverage
           e == r.evidence
<1>1. /\ n \in Nat /\ v \in Nat /\ v <= n
      /\ v = 0 <=> Nodes(a.paths) = {}
  BY PathsOf
<1>2. e = [ state |-> IF n = 0 THEN "UNKNOWN"
                    ELSE IF v = 0 THEN "INSUFFICIENT"
                    ELSE IF ~Covers(v, n, c) \/ v < n
                    THEN "PARTIAL" ELSE "VERIFIED",
          material |-> n, verified |-> v, ids |-> Nodes(a.paths) ]
  BY DEF AssessEvidence
<1>3. v = n /\ n # 0 => Covers(v, n, c)
  <2> SUFFICES ASSUME v = n, n # 0 PROVE Covers(n, n, c)
    OBVIOUS
  <2>1. n > 0 /\ c \in 0..100
    BY <1>1
  <2> HIDE DEF n, c
  <2>2. n * (100 - c) >= 0
    BY <2>1, <1>1
  <2>3. n * 100 >= c * n
    BY <2>1, <2>2, <1>1
  <2> QED BY <2>1, <2>3 DEF Covers
<1> HIDE DEF n, v, c, e
<1>4. /\ e.material = n /\ e.verified = v /\ e.ids = Nodes(a.paths)
      /\ e.state = IF n = 0 THEN "UNKNOWN"
                    ELSE IF v = 0 THEN "INSUFFICIENT"
                    ELSE IF ~Covers(v, n, c) \/ v < n
                    THEN "PARTIAL" ELSE "VERIFIED"
  BY <1>2
<1>5. e.state = IF n = 0 THEN "UNKNOWN"
                     ELSE IF v = 0 THEN "INSUFFICIENT"
                     ELSE IF \/ v < n
                             \/ Expects(q, ~Covers(v, n, q.minimumCoverage))
                     THEN "PARTIAL" ELSE "VERIFIED"
  <2>1. CASE q = NoPolicy
    BY <1>1, <1>3, <1>4, <2>1 DEF Expects
  <2>2. CASE q = p
    BY <1>1, <1>3, <1>4, <2>2 DEF Expects, c
  <2> QED BY <2>1, <2>2
<1>6. (v = 0) = (Nodes(a.paths) = {})
  BY <1>1
<1> QED BY <1>1, <1>4, <1>5, <1>6 DEF EvidenceIsConsistent, e

\* The recorded fragility is that of the recorded ablations.
LEMMA FragilityAgrees ==
  ASSUME NEW a, IsAssessment(a), NEW p, NEW r, NEW q, q = p \/ q = NoPolicy,
         r.evidence.ids = Nodes(a.paths), NEW score,
         r.fragility = AnalyzeFragility(a.paths, score, r.proposed, p)
  PROVE  FragilityIsConsistent(r, q)
<1> DEFINE f == r.fragility
           nodes == Nodes(a.paths)
           A == Ablations(a.paths, score)
<1>1. /\ f.ablations = A /\ f.flips = Flips(A, r.proposed) /\ f.largest = LargestImpact(A)
      /\ f.state = IF nodes = {} THEN "NOT_ESTIMABLE"
                    ELSE IF f.flips > 0 \/ Exceeds(f.largest, p.fragileDelta)
                    THEN "FRAGILE"
                    ELSE IF Exceeds(f.largest, p.sensitiveDelta)
                    THEN "SENSITIVE" ELSE "STABLE"
  BY DEF AnalyzeFragility
<1>2. DOMAIN A = nodes
  BY DEF Ablations
<1>3. ASSUME NEW e \in nodes, nodes = {e}
      PROVE  A[e].decision = "ABSTAIN" /\ A[e].impact = None
  <2>1. nodes \ {e} = {}
    BY <1>3
  <2>2. /\ RecomputedDecision(a.paths, nodes \ {e}) = "ABSTAIN"
        /\ RecomputedScore(a.paths, nodes \ {e}) = None
    BY <2>1, PathsOf, NothingRetained
  <2>3. A[e] = [ decision |-> RecomputedDecision(a.paths, nodes \ {e}),
                 impact |-> IF score = None \/ RecomputedScore(a.paths, nodes \ {e}) = None
                            THEN None
                            ELSE Distance(RecomputedScore(a.paths, nodes \ {e}), score) ]
    BY DEF Ablations
  <2> QED BY <2>2, <2>3
<1> HIDE DEF f, A, nodes
<1>4. f.flips > 0 => nodes = {} \/ f.state = "FRAGILE"
  BY <1>1
<1>5. nodes # {} => f.state # "NOT_ESTIMABLE"
  BY <1>1
<1>6. r.evidence.ids = nodes
  BY DEF nodes
<1> QED BY <1>1, <1>2, <1>3, <1>4, <1>5, <1>6 DEF FragilityIsConsistent, f

\* What is recorded of the sufficient evidence is what either search yields.
LEMMA SufficientAgrees ==
  ASSUME NEW a, IsAssessment(a), NEW p, NEW r, NEW q, q = p \/ q = NoPolicy,
         r.evidence.ids = Nodes(a.paths),
         r.sufficient = SufficientEvidence(a.paths, r.proposed, p)
  PROVE  /\ SufficientIsConsistent(r, q)
         /\ r.sufficient.preserves =>
               RecomputedDecision(a.paths, r.sufficient.ids) = r.proposed
         /\ r.sufficient.method = "EXACT" =>
               \A S \in (SUBSET Nodes(a.paths)) \ {{}} :
                  RecomputedDecision(a.paths, S) = r.proposed =>
                    r.sufficient.preserves /\ Cardinality(r.sufficient.ids) <= Cardinality(S)
<1> DEFINE s == r.sufficient
           nodes == Nodes(a.paths)
<1>1. nodes \subseteq Evidence
  BY PathsOf
<1>2. CASE nodes = {}
  <2>1. s = [method |-> "NOT_ESTIMABLE", ids |-> {}, preserves |-> FALSE, evaluated |-> 0]
    BY <1>2 DEF SufficientEvidence
  <2>2. s.ids = {} /\ ~s.preserves /\ s.method # "EXACT"
    BY <2>1
  <2> QED BY <1>2, <2>1, <2>2 DEF SufficientIsConsistent
<1>3. CASE nodes # {}
  <2> DEFINE exact == Cardinality(nodes) <= p.maximumExact
  <2>1. SoundSufficient(s, a.paths, r.proposed, exact)
    <3>1. CASE exact
      <4>1. s = ExactSufficient(a.paths, r.proposed)
        BY <1>3, <3>1 DEF SufficientEvidence
      <4>2. SoundSufficient(s, a.paths, r.proposed, TRUE)
        BY <1>1, <1>3, <4>1, ExactIsSound
      <4> QED BY <3>1, <4>2 DEF SoundSufficient
    <3>2. CASE ~exact
      <4>1. s = GreedySufficient(a.paths, r.proposed)
        BY <1>3, <3>2 DEF SufficientEvidence
      <4>2. SoundSufficient(s, a.paths, r.proposed, FALSE)
        BY <1>1, <1>3, <4>1, GreedyIsSound
      <4> QED BY <3>2, <4>2 DEF SoundSufficient
    <3> QED BY <3>1, <3>2
  <2> HIDE DEF s
  <2>2. q # NoPolicy => ((s.method = "EXACT") = (Cardinality(nodes) <= q.maximumExact))
    BY <2>1 DEF SoundSufficient
  <2>3. r.evidence.ids = nodes
    OBVIOUS
  <2> HIDE DEF nodes
  <2>4. SufficientIsConsistent(r, q)
    BY <1>3, <2>1, <2>2, <2>3 DEF SufficientIsConsistent, SoundSufficient, s, nodes
  <2> QED BY <2>1, <2>4 DEF SoundSufficient, s, nodes
<1> QED BY <1>2, <1>3

\* What is recorded of the reference agrees with itself.
LEMMA DistributionAgrees ==
  ASSUME NEW a, IsAssessment(a), NEW r, r.distribution = AssessDistribution(a.reference)
  PROVE  DistributionIsConsistent(r)
<1> DEFINE d == r.distribution
           f == a.reference
<1>1. CASE f = None
  <2>1. d.state = "UNKNOWN" /\ d.named = FALSE /\ d.evaluated = 0 /\ d.outside = 0
    BY <1>1 DEF AssessDistribution
  <2> QED BY <2>1 DEF DistributionIsConsistent
<1>2. CASE f # None
  <2>1. f.evaluated \in Nat /\ f.outside \in 0..f.evaluated
    <3>1. a.reference # None =>
             a.reference.evaluated \in Nat /\ a.reference.outside \in 0..a.reference.evaluated
      BY DEF IsAssessment
    <3> QED BY <1>2, <3>1
  <2>2. /\ d.named = TRUE /\ d.evaluated = f.evaluated /\ d.outside = f.outside
        /\ d.state = "IN_REFERENCE" => ~(f.outside > 0)
    BY <1>2 DEF AssessDistribution
  <2> HIDE DEF d, f
  <2> QED BY <2>1, <2>2 DEF DistributionIsConsistent, d
<1> QED BY <1>1, <1>2

\* The recorded decision is one its evidence permits.
LEMMA DecisionAgrees ==
  ASSUME NEW a, NEW d \in Decisions, NEW failed, NEW p, NoPolicy # p,
         NEW q, q = p \/ q = NoPolicy
  PROVE  DecisionIsPermitted(Evaluate(AssuranceInput(a, d, failed), p), q)
<1> DEFINE v == AssuranceInput(a, d, failed)
           R == Evaluate(v, p)
           F == EngineFindings(v, R.evidence, R.fragility, R.distribution, p)
           blocked == R.blockers # << >>
           abstain == R.evidence.verified = 0 \/ failed \cap BlockingFailures # {}
<1>0. Records(R, a, d, failed, p)
  BY ResultHolds
<1> HIDE DEF R
<1>1. /\ R.proposed = d /\ R.failures = failed /\ R.maturity = p.maturity
      /\ R.calibration = "UNCALIBRATED"
      /\ R.reasons = F.reasons /\ R.blockers = F.blockers
      /\ R.final = FinalDecision(d, abstain, blocked)
      /\ R.automation = (/\ R.blockers = << >>
                         /\ R.final \in {"PASS", "FLAG"}
                         /\ p.maturity # "HEURISTIC_POLICY"
                         /\ ~p.requireCalibration)
      /\ R.status = Status(d, R.final, R.automation)
  BY <1>0 DEF Records
<1>2. v.failures = failed /\ v.calibration = "UNCALIBRATED"
  BY DEF AssuranceInput
<1>3. /\ Listed("evidence", F.blockers) <=> R.evidence.state # "VERIFIED"
      /\ Listed("fragility", F.blockers) <=> R.fragility.state = "FRAGILE"
      /\ Listed("fragility_unknown", F.blockers) <=>
           R.fragility.state = "NOT_ESTIMABLE" /\ p.reviewNotEstimable
      /\ Listed("distribution", F.blockers) <=> R.distribution.state = "OUTSIDE_REFERENCE"
      /\ Listed("distribution_unknown", F.blockers) <=>
           R.distribution.state = "UNKNOWN" /\ p.requireReference /\ p.reviewUnknownDistribution
      /\ Listed("distribution_warning", F.blockers) <=> R.distribution.state = "WARNING"
      /\ Listed("runtime_failure", F.blockers) <=> v.failures # {}
      /\ Listed("ASSURANCE_POLICY_UNCALIBRATED", F.reasons) <=> v.calibration = "UNCALIBRATED"
  BY EngineLists
<1> HIDE DEF v, F
<1>4. ASSUME NEW x, Listed(x, R.blockers) PROVE blocked
  <2>1. \A y : ~Listed(y, << >>)
    BY CodesListed
  <2> QED BY <1>4, <2>1
<1>5. ~blocked =>
        /\ R.evidence.state = "VERIFIED" /\ R.fragility.state # "FRAGILE"
        /\ ~(R.fragility.state = "NOT_ESTIMABLE" /\ p.reviewNotEstimable)
        /\ R.distribution.state \notin {"WARNING", "OUTSIDE_REFERENCE"}
        /\ ~(R.distribution.state = "UNKNOWN"
             /\ p.requireReference /\ p.reviewUnknownDistribution)
        /\ failed = {}
  BY <1>1, <1>2, <1>3, <1>4
<1>6. /\ R.final \in {"PASS", "FLAG"} => ~blocked /\ R.final = d
      /\ R.evidence.verified = 0 \/ d = "ABSTAIN" => R.final = "ABSTAIN"
      /\ R.final # d => R.final \in {"REVIEW", "ABSTAIN"}
  BY <1>1 DEF FinalDecision, Decisions
<1>7. R.automation => /\ ~blocked /\ R.final \in {"PASS", "FLAG"}
                      /\ p.maturity # "HEURISTIC_POLICY" /\ ~p.requireCalibration
  BY <1>1
<1>8. Listed("ASSURANCE_POLICY_UNCALIBRATED", R.reasons)
  BY <1>1, <1>2, <1>3
<1>9. R.final \in {"PASS", "FLAG"} =>
        /\ R.evidence.state = "VERIFIED"
        /\ R.blockers = << >> /\ R.failures = {}
        /\ R.distribution.state \notin {"WARNING", "OUTSIDE_REFERENCE"}
        /\ ~(R.distribution.state = "UNKNOWN"
             /\ Expects(q, q.requireReference /\ q.reviewUnknownDistribution))
  BY <1>1, <1>5, <1>6 DEF Expects
<1>10. \/ R.fragility.state = "FRAGILE"
       \/ R.fragility.state = "NOT_ESTIMABLE" /\ Expects(q, q.reviewNotEstimable)
       => ~R.automation /\ R.final \notin {"PASS", "FLAG"}
  BY <1>5, <1>6, <1>7 DEF Expects
<1>11. R.automation =>
         /\ R.final \in {"PASS", "FLAG"}
         /\ R.maturity # "HEURISTIC_POLICY"
         /\ ~(R.calibration = "UNCALIBRATED" /\ Expects(q, q.requireCalibration))
  BY <1>1, <1>7 DEF Expects
<1>12. R.final # R.proposed => R.final \in {"REVIEW", "ABSTAIN"} /\ ~R.automation
  BY <1>1, <1>6, <1>7
<1>13. /\ R.evidence.verified = 0 \/ R.proposed = "ABSTAIN" => R.final = "ABSTAIN"
       /\ R.status = Status(R.proposed, R.final, R.automation)
  BY <1>1, <1>6
<1>14. DecisionIsPermitted(R, q)
  BY <1>8, <1>9, <1>10, <1>11, <1>12, <1>13, Zenon DEF DecisionIsPermitted
<1> QED BY <1>14 DEF R, v

\* The verifier derives the recorded blockers, reasons and decision again.
LEMMA TransitionAgrees ==
  ASSUME NEW a, NEW d \in Decisions, NEW failed, NEW p, NoPolicy # p,
         NEW q, q = p \/ q = NoPolicy
  PROVE  TransitionIsDerived(Evaluate(AssuranceInput(a, d, failed), p), q)
<1> DEFINE v == AssuranceInput(a, d, failed)
           R == Evaluate(v, p)
           F == EngineFindings(v, R.evidence, R.fragility, R.distribution, p)
<1>0. Records(R, a, d, failed, p)
  BY ResultHolds
<1> HIDE DEF R
<1>1. /\ R.proposed = d /\ R.failures = failed /\ R.maturity = p.maturity
      /\ R.calibration = "UNCALIBRATED"
      /\ R.reasons = F.reasons /\ R.blockers = F.blockers
      /\ R.final = FinalDecision(d, \/ R.evidence.verified = 0
                                    \/ failed \cap BlockingFailures # {},
                                 R.blockers # << >>)
      /\ R.automation = (/\ R.blockers = << >>
                         /\ R.final \in {"PASS", "FLAG"}
                         /\ p.maturity # "HEURISTIC_POLICY"
                         /\ ~p.requireCalibration)
  BY <1>0 DEF Records
<1>2. v.failures = failed /\ v.calibration = "UNCALIBRATED" /\ v.proposed = d
  BY DEF AssuranceInput
<1> HIDE DEF v
<1>3. VerifierFindings(R, q) = F
  BY <1>1, <1>2, VerifierAgrees
<1> HIDE DEF F
<1>4. R.final = FinalDecision(R.proposed, \/ R.evidence.verified = 0
                                          \/ R.failures \cap BlockingFailures # {},
                              R.blockers # << >>)
  BY <1>1
<1>5. q # NoPolicy =>
        R.automation = (/\ R.blockers = << >>
                        /\ R.final \in {"PASS", "FLAG"}
                        /\ R.maturity # "HEURISTIC_POLICY"
                        /\ \/ R.calibration # "UNCALIBRATED"
                           \/ ~q.requireCalibration)
  BY <1>1
<1>6. R.blockers = VerifierFindings(R, q).blockers /\ R.reasons = VerifierFindings(R, q).reasons
  BY <1>1, <1>3
<1>7. TransitionIsDerived(R, q)
  BY <1>4, <1>5, <1>6, Zenon DEF TransitionIsDerived
<1> QED BY <1>7 DEF R, v

\* Whatever the engine issues for an assessment the verifier accepts, with the
\* policy it was issued under and without one.
LEMMA EngineVerifies ==
  ASSUME NEW a, IsAssessment(a), NEW d \in Decisions, NEW failed,
         NEW p \in AssurancePolicy, NoPolicy # p, NEW q, q = p \/ q = NoPolicy
  PROVE  VerifyAssurance(Evaluate(AssuranceInput(a, d, failed), p), q)
<1> DEFINE R == Evaluate(AssuranceInput(a, d, failed), p)
<1>0. Records(R, a, d, failed, p)
  BY ResultHolds
<1>1. /\ R.policy = p /\ R.maturity = p.maturity /\ R.proposed = d
      /\ R.evidence = AssessEvidence(a.paths, p.minimumCoverage)
      /\ R.fragility = AnalyzeFragility(a.paths, AggregateScore(DimensionScores(a.paths)), d, p)
      /\ R.distribution = AssessDistribution(a.reference)
      /\ R.sufficient = SufficientEvidence(a.paths, d, p)
  BY <1>0 DEF Records
<1>2. DecisionIsPermitted(R, q) /\ TransitionIsDerived(R, q)
  BY DecisionAgrees, TransitionAgrees
<1> HIDE DEF R
<1>3. R.evidence.ids = Nodes(a.paths)
  BY <1>1 DEF AssessEvidence
<1>4. p.minimumCoverage \in 0..100
  BY DEF AssurancePolicy
<1>5. EvidenceIsConsistent(R, q)
  BY <1>1, <1>4, EvidenceAgrees
<1>6. FragilityIsConsistent(R, q)
  BY <1>1, <1>3, FragilityAgrees
<1>7. SufficientIsConsistent(R, q)
  BY <1>1, <1>3, SufficientAgrees
<1>8. DistributionIsConsistent(R)
  BY <1>1, DistributionAgrees
<1>9. PolicyMatches(R, q)
  BY <1>1 DEF PolicyMatches
<1>10. VerifyAssurance(R, q)
  BY <1>2, <1>5, <1>6, <1>7, <1>8, <1>9 DEF VerifyAssurance
<1> QED BY <1>10 DEF R

(***************************************************************************)
(* The invariant.                                                          *)
(***************************************************************************)

\* Every step of the pipeline derives what its stage promises.
LEMMA RouteInductive ==
  /\ Init => RouteInv
  /\ RouteInv /\ [Next]_vars => RouteInv'
<1>1. Init => RouteInv
  BY DEF Init, RouteInv, Stages, Decisions
<1>2. RouteInv /\ [Next]_vars => RouteInv'
  <2> SUFFICES ASSUME RouteInv, [Next]_vars PROVE RouteInv'
    OBVIOUS
  <2>1. ASSUME NEW a \in Assessments[policy], Assess(a) PROVE RouteInv'
    <3>1. Fused(a) \in Decisions
      BY FusionDecides DEF Fused
    <3>2. IsAssessment(a) /\ a.route \in Routes
      BY AssessmentAssumption DEF RouteInv
    <3> QED
      BY <2>1, <3>1, <3>2 DEF Assess, RouteInv, Stages
  <2>2. CASE Degrade
    <3>1. FailureAwareProposal(proposal, FailuresOf(assessment)) \in Decisions
      BY StepsEscalate DEF RouteInv
    <3> QED
      BY <2>2, <3>1 DEF Degrade, RouteInv, Stages
  <2>3. CASE Review
    <3>1. ReviewedProposal(proposal, CriticRejects(assessment)) \in Decisions
      BY StepsEscalate DEF RouteInv
    <3>2. ReviewedProposal(proposal, CriticRejects(assessment)) = Proposed(assessment)
      <4>1. (assessment.route = "agent" /\ CriticRejects(assessment)) = CriticRejects(assessment)
        BY <2>3 DEF Review, CriticRejects
      <4>2. proposal = FailureAwareProposal(Fused(assessment), FailuresOf(assessment))
        BY <2>3 DEF Review, RouteInv
      <4> QED
        BY <4>1, <4>2 DEF Proposed
    <3> QED
      BY <2>3, <3>1, <3>2 DEF Review, RouteInv, Stages
  <2>4. CASE EvaluateProposal
    <3>1. stage \in {"proposed", "reviewed"} /\ (stage = "proposed" => assessment.route # "agent")
      BY <2>4 DEF EvaluateProposal
    <3>2. proposal = Proposed(assessment)
      <4>1. CASE stage = "reviewed"
        BY <4>1 DEF RouteInv
      <4>2. CASE stage = "proposed"
        <5>1. ReviewedProposal(proposal, FALSE) = proposal
          BY StepsEscalate DEF RouteInv
        <5> QED
          BY <4>2, <5>1, <3>1 DEF RouteInv, Proposed
      <4> QED
        BY <3>1, <4>1, <4>2
    <3>3. result' = Issued'
      BY <2>4 DEF EvaluateProposal, Issued
    <3> QED
      BY <2>4, <3>1, <3>2, <3>3 DEF EvaluateProposal, RouteInv, Stages
  <2>5. CASE Authorize
    <3>1. Issued' = Issued
      BY <2>5 DEF Authorize, Issued
    <3> QED
      BY <2>5, <3>1 DEF Authorize, RouteInv, Stages
  <2>6. CASE Certify
    BY <2>6 DEF Certify, AgentStatus, RouteInv, Stages
  <2>7. CASE Store
    BY <2>7 DEF Store, RouteInv, Stages, Terminal
  <2>8. ASSUME NEW p \in Policies, Redeploy(p) PROVE RouteInv'
    BY <2>8 DEF Redeploy, RouteInv, Stages
  <2>9. CASE UNCHANGED vars
    <3>1. Issued' = Issued
      BY <2>9 DEF vars, Issued
    <3> QED
      BY <2>9, <3>1 DEF vars, RouteInv
  <2> QED
    BY <2>1, <2>2, <2>3, <2>4, <2>5, <2>6, <2>7, <2>8, <2>9 DEF Next
<1> QED
  BY <1>1, <1>2

\* RouteInv holds throughout.
LEMMA RouteAlways == Spec => []RouteInv
BY RouteInductive, PTL DEF Spec

(***************************************************************************)
(* OnlyEscalates.                                                          *)
(***************************************************************************)

\* From fusion to the authorized decision no step softens a disposition,
\* whatever the engine concludes: the verifier refuses what would.
THEOREM NeverSoftened == Spec => OnlyEscalates
<1> DEFINE Step == /\ stage # "idle" => AtLeast(proposal', proposal)
                   /\ stage' = "authorized" => AtLeast(decision', proposal)
<1>1. RouteInv /\ RouteInv' /\ [Next]_vars => [Step]_vars
  <2> SUFFICES ASSUME RouteInv, RouteInv', Next PROVE Step
    OBVIOUS
  <2>0. proposal \in Decisions /\ AtLeast(proposal, proposal)
    BY Caution DEF RouteInv
  <2>1. ASSUME NEW a \in Assessments[policy], Assess(a) PROVE Step
    BY <2>1 DEF Assess
  <2>2. CASE Degrade
    BY <2>2, <2>0, StepsEscalate DEF Degrade
  <2>3. CASE Review
    BY <2>3, <2>0, StepsEscalate DEF Review
  <2>4. CASE EvaluateProposal
    BY <2>4, <2>0 DEF EvaluateProposal
  <2>5. CASE Authorize
    <3>1. result = Issued
      BY <2>5 DEF Authorize, RouteInv
    <3>2. result.proposed = proposal
      BY <3>1, EngineIssues
    <3>3. VerifyAssurance(result, policy) => AtLeast(result.final, proposal)
      BY <3>2, <2>0, VerifiedIsCautious
    <3> QED
      BY <2>5, <2>0, <3>3 DEF Authorize
  <2>6. CASE Certify
    BY <2>6, <2>0 DEF Certify, AgentStatus
  <2>7. CASE Store
    BY <2>7, <2>0 DEF Store
  <2>8. ASSUME NEW p \in Policies, Redeploy(p) PROVE Step
    BY <2>8, <2>0 DEF Redeploy
  <2> QED
    BY <2>1, <2>2, <2>3, <2>4, <2>5, <2>6, <2>7, <2>8 DEF Next
<1> QED
  BY <1>1, RouteAlways, PTL DEF Spec, OnlyEscalates

(***************************************************************************)
(* AuthorizedIsSupported.                                                  *)
(***************************************************************************)

\* The evidence a verified path cites is finite.
LEMMA NodesAreFinite ==
  ASSUME NEW a, IsAssessment(a)
  PROVE  IsFiniteSet(Nodes(a.paths))
<1>1. Nodes(a.paths) \subseteq 1..MaxEvidence
  BY DEF IsAssessment, Nodes, Verified, Evidence
<1>2. IsFiniteSet(1..MaxEvidence)
  BY FS_Interval, EvidenceAssumption
<1> QED
  BY <1>1, <1>2, FS_Subset

\* Evidence that is assessed as verified is that of every material path.
LEMMA VerifiedIsWhole ==
  ASSUME NEW paths, NEW minimum, IsFiniteSet(paths),
         AssessEvidence(paths, minimum).state = "VERIFIED"
  PROVE  Verified(paths) = paths /\ paths # {}
<1>1. Verified(paths) \subseteq paths
  BY DEF Verified
<1>2. /\ Cardinality(paths) \in Nat /\ Cardinality(Verified(paths)) \in Nat
      /\ Cardinality(Verified(paths)) <= Cardinality(paths)
  BY <1>1, FS_Subset, FS_CardinalityType
<1>3. /\ ~(Cardinality(Verified(paths)) < Cardinality(paths))
      /\ Cardinality(paths) # 0
  BY DEF AssessEvidence
<1>4. Cardinality(Verified(paths)) = Cardinality(paths)
  BY <1>2, <1>3
<1> QED
  BY <1>1, <1>3, <1>4, FS_Subset, FS_EmptySet

\* With every node in place, fusing again gives what fusion gave.
LEMMA WholeRecomputes ==
  ASSUME NEW paths, IsFiniteSet(paths), Verified(paths) = paths, paths # {}
  PROVE  RecomputedDecision(paths, Nodes(paths))
           = FusedDecision(DimensionScores(paths), TRUE)
<1>1. Retained(paths, Nodes(paths)) = paths
  BY DEF Retained, Nodes
<1>2. Covers(Cardinality(paths), Cardinality(paths), DecisionPolicy.minimumCoverage) = TRUE
  <2> DEFINE n == Cardinality(paths)
             c == DecisionPolicy.minimumCoverage
  <2>1. n \in Nat /\ n > 0
    BY FS_CardinalityType, FS_EmptySet
  <2>2. c \in 0..100
    BY DecisionPolicyAssumption
  <2>3. n * 100 >= c * n
    <3> HIDE DEF n, c
    <3>1. n * (100 - c) >= 0
      BY <2>1, <2>2
    <3> QED
      BY <3>1, <2>1, <2>2
  <2> QED
    BY <2>1, <2>3 DEF Covers
<1> QED
  BY <1>1, <1>2 DEF RecomputedDecision

\* Without flips the loss of any one node leaves the proposal standing.
LEMMA NoFlipIsStable ==
  ASSUME NEW paths, NEW score, NEW proposed, NEW p, IsFiniteSet(Nodes(paths)),
         AnalyzeFragility(paths, score, proposed, p).state
            \notin {"FRAGILE", "NOT_ESTIMABLE"},
         NEW e \in Nodes(paths)
  PROVE  RecomputedDecision(paths, Nodes(paths) \ {e}) = proposed
<1> DEFINE A == Ablations(paths, score)
           flipped == {x \in Nodes(paths) : A[x].decision # proposed}
<1>1. DOMAIN A = Nodes(paths)
  BY DEF Ablations
<1>2. Flips(A, proposed) = Cardinality(flipped)
  BY <1>1 DEF Flips
<1>3. Cardinality(flipped) \in Nat /\ (Cardinality(flipped) = 0 <=> flipped = {})
  BY FS_Subset, FS_CardinalityType, FS_EmptySet
<1>4. ~(Flips(A, proposed) > 0)
  BY DEF AnalyzeFragility
<1>5. flipped = {}
  BY <1>2, <1>3, <1>4
<1>6. A[e].decision = RecomputedDecision(paths, Nodes(paths) \ {e})
  BY DEF Ablations
<1> QED
  BY <1>5, <1>6

\* An authorized PASS or FLAG rests on verified paths only, follows from their
\* evidence alone and survives the loss of any one piece of it.
THEOREM AuthorizationIsSupported == Spec => []AuthorizedIsSupported
<1>1. RouteInv => AuthorizedIsSupported
  <2> SUFFICES ASSUME RouteInv, stage = "authorized", decision \in {"PASS", "FLAG"}
               PROVE  /\ failures = {}
                      /\ Verified(assessment.paths) = assessment.paths
                      /\ \A lost \in {{}} \cup {{e} : e \in Nodes(assessment.paths)} :
                            RecomputedDecision(assessment.paths,
                                               Nodes(assessment.paths) \ lost) = decision
    BY DEF AuthorizedIsSupported
  <2> DEFINE paths == assessment.paths
  <2>1. /\ IsAssessment(assessment) /\ IsFiniteSet(paths)
        /\ proposal \in Decisions /\ proposal = Proposed(assessment)
        /\ failures = FailuresOf(assessment)
        /\ decision = result.final /\ VerifyAssurance(result, policy)
        /\ result = Issued
    BY DEF RouteInv, IsAssessment
  <2>2. /\ result.proposed = proposal /\ result.failures = failures
        /\ result.evidence = AssessEvidence(paths, policy.minimumCoverage)
        /\ result.fragility = AnalyzeFragility(paths, AggregateScore(DimensionScores(paths)),
                                               proposal, policy)
    BY <2>1, EngineIssues
  <2>3. /\ result.evidence.state = "VERIFIED" /\ result.failures = {}
        /\ result.fragility.state # "FRAGILE"
        /\ result.proposed = result.final
    BY <2>1 DEF VerifyAssurance, DecisionIsPermitted
  <2>4. Verified(paths) = paths /\ paths # {}
    BY <2>1, <2>2, <2>3, VerifiedIsWhole
  <2>5. RecomputedDecision(paths, Nodes(paths)) = decision
    <3>1. failures = {} /\ proposal = decision
      BY <2>1, <2>2, <2>3
    <3>2. Fused(assessment) \in Decisions
      BY FusionDecides DEF Fused
    <3>3. FailureAwareProposal(Fused(assessment), failures) = Fused(assessment)
      BY <3>1, <3>2, StepsEscalate
    <3>4. proposal = ReviewedProposal(Fused(assessment),
                         assessment.route = "agent" /\ CriticRejects(assessment))
      BY <2>1, <3>3 DEF Proposed
    <3>5. proposal = Fused(assessment)
      BY <3>1, <3>2, <3>4, StepsEscalate
    <3>6. assessment.covered = TRUE
      BY <2>1, <3>1, <3>5, FusionDecides DEF Fused
    <3> QED
      BY <2>1, <2>4, <3>1, <3>5, <3>6, WholeRecomputes DEF Fused
  <2>6. ASSUME NEW e \in Nodes(paths)
        PROVE  RecomputedDecision(paths, Nodes(paths) \ {e}) = decision
    <3>1. result.fragility.state # "NOT_ESTIMABLE"
      BY <2>2, <2>6 DEF AnalyzeFragility
    <3>2. IsFiniteSet(Nodes(paths))
      BY <2>1, NodesAreFinite
    <3>3. RecomputedDecision(paths, Nodes(paths) \ {e}) = proposal
      BY <2>2, <2>3, <3>1, <3>2, NoFlipIsStable
    <3> QED
      BY <3>3, <2>1, <2>2, <2>3
  <2> QED
    BY <2>1, <2>2, <2>3, <2>4, <2>5, <2>6
<1> QED
  BY <1>1, RouteAlways, PTL

(***************************************************************************)
(* VerifierPinsTheDecision.                                                *)
(***************************************************************************)

\* A result is a record with the three fields a forger would change.
LEMMA IssuedIsRecord ==
  /\ Issued = [field \in DOMAIN Issued |-> Issued[field]]
  /\ {"final", "automation", "status"} \subseteq DOMAIN Issued
<1> DEFINE v == AssuranceInput(assessment, proposal, failures)
           R == Evaluate(v, policy)
           evidence == AssessEvidence(v.paths, policy.minimumCoverage)
           fragility == AnalyzeFragility(v.paths, v.score, v.proposed, policy)
           distribution == AssessDistribution(v.reference)
           findings == EngineFindings(v, evidence, fragility, distribution, policy)
           final == FinalDecision(v.proposed,
                                  \/ evidence.verified = 0
                                  \/ v.failures \cap BlockingFailures # {},
                                  findings.blockers # << >>)
           automation == /\ findings.blockers = << >>
                         /\ final \in {"PASS", "FLAG"}
                         /\ policy.maturity # "HEURISTIC_POLICY"
                         /\ \/ v.calibration # "UNCALIBRATED"
                            \/ ~policy.requireCalibration
           sufficient == SufficientEvidence(v.paths, v.proposed, policy)
<1>1. R = [ proposed |-> v.proposed, final |-> final, automation |-> automation,
            status |-> Status(v.proposed, final, automation),
            evidence |-> evidence, fragility |-> fragility,
            distribution |-> distribution, sufficient |-> sufficient,
            maturity |-> policy.maturity, calibration |-> v.calibration,
            reasons |-> findings.reasons, blockers |-> findings.blockers,
            failures |-> v.failures, policy |-> policy ]
  BY Zenon DEF Evaluate
<1> HIDE DEF v, R, evidence, fragility, distribution, findings, final, automation, sufficient
<1>2. R = [field \in DOMAIN R |-> R[field]] /\ {"final", "automation", "status"} \subseteq DOMAIN R
  BY <1>1
<1> QED
  BY <1>2 DEF R, v, Issued

\* A record that differs from an issued one in its decision, its automation
\* flag or its status is refused, and so is the issued one under any policy
\* but the one it was issued under.
THEOREM VerifierPins == Spec => []VerifierPinsTheDecision
<1>1. RouteInv => VerifierPinsTheDecision
  <2> SUFFICES ASSUME RouteInv, stage = "evaluated",
                      NEW final \in Decisions, NEW automation \in BOOLEAN,
                      NEW status \in {"PASSED", "RESTRICTED", "FAILED"}, NEW q \in Policies,
                      VerifyAssurance([Issued EXCEPT !.final = final, !.automation = automation,
                                                     !.status = status], q)
               PROVE  /\ [Issued EXCEPT !.final = final, !.automation = automation,
                                        !.status = status] = Issued
                      /\ q = policy
    BY DEF VerifierPinsTheDecision, RouteInv
  <2> DEFINE altered == [Issued EXCEPT !.final = final, !.automation = automation,
                                       !.status = status]
  <2>1. /\ altered.final = final /\ altered.automation = automation /\ altered.status = status
        /\ altered.proposed = Issued.proposed /\ altered.evidence = Issued.evidence
        /\ altered.maturity = Issued.maturity /\ altered.calibration = Issued.calibration
        /\ altered.blockers = Issued.blockers /\ altered.failures = Issued.failures
        /\ altered.policy = Issued.policy
    BY IssuedIsRecord
  <2>2. q # NoPolicy
    BY PolicyAssumption
  <2>3. final = Issued.final /\ automation = Issued.automation /\ status = Issued.status
        /\ q = policy
    <3> HIDE DEF altered
    <3>0. VerifyAssurance(altered, q)
      BY DEF altered
    <3>1. q = policy
      BY <2>1, <2>2, <3>0, EngineIssues DEF VerifyAssurance, PolicyMatches
    <3>2. final = Issued.final
      BY <2>1, <3>0, EngineIssues, ZenonT(60) DEF VerifyAssurance, TransitionIsDerived
    <3>3. automation = Issued.automation
      BY <2>1, <2>2, <3>0, <3>1, <3>2, EngineIssues, ZenonT(60) DEF VerifyAssurance, TransitionIsDerived
    <3>4. status = Issued.status
      BY <2>1, <3>0, <3>2, <3>3, EngineIssues DEF VerifyAssurance, DecisionIsPermitted
    <3> QED
      BY <3>1, <3>2, <3>3, <3>4
  <2>4. altered = Issued
    BY <2>3, IssuedIsRecord
  <2> QED
    BY <2>3, <2>4
<1> QED
  BY <1>1, RouteAlways, PTL

(***************************************************************************)
(* TypeOK.                                                                 *)
(***************************************************************************)

\* A certificate exists once the analysis is stored, and not before.
TypeInv == TypeOK /\ (stage # "stored" => certificate = None)

\* The values each step writes have their type.
LEMMA TypeInductive ==
  /\ Init => TypeInv
  /\ RouteInv /\ RouteInv' /\ TypeInv /\ [Next]_vars => TypeInv'
<1> USE DEF TypeInv, TypeOK
<1>1. Init => TypeInv
  BY DEF Init, Stages, Decisions
<1>2. RouteInv /\ RouteInv' /\ TypeInv /\ [Next]_vars => TypeInv'
  <2> SUFFICES ASSUME RouteInv, RouteInv', TypeInv, [Next]_vars PROVE TypeInv'
    OBVIOUS
  <2>0. policy' \in Policies /\ stage' \in Stages /\ proposal' \in Decisions
    BY DEF RouteInv
  <2>1. ASSUME NEW a \in Assessments[policy], Assess(a) PROVE TypeInv'
    BY <2>0, <2>1 DEF Assess
  <2>2. CASE Degrade
    <3>1. FailuresOf(assessment) \subseteq BlockingFailures \cup ReviewFailures
      BY DEF FailuresOf, BlockingFailures, ReviewFailures
    <3> QED
      BY <2>0, <2>2, <3>1 DEF Degrade
  <2>3. CASE Review
    BY <2>0, <2>3 DEF Review, CriticRejects
  <2>4. CASE EvaluateProposal
    <3>1. result' = Issued
      BY <2>4 DEF EvaluateProposal, Issued
    <3>2. Issued.policy \in Policies /\ Issued.final \in Decisions
      BY EngineIssues DEF FinalDecision, Decisions
    <3>3. stage # "stored" /\ certificate' = None
      BY <2>4 DEF EvaluateProposal
    <3> QED
      BY <2>0, <2>4, <3>1, <3>2, <3>3 DEF EvaluateProposal
  <2>5. CASE Authorize
    <3>1. VerifyAssurance(result, policy) => result.final \in Decisions
      <4>1. result = Issued
        BY <2>5 DEF Authorize, RouteInv
      <4> QED
        BY <4>1, EngineIssues DEF FinalDecision, Decisions
    <3> QED
      BY <2>0, <2>5, <3>1 DEF Authorize
  <2>6. CASE Certify
    BY <2>0, <2>6 DEF Certify, AgentStatus
  <2>7. CASE Store
    BY <2>0, <2>7 DEF Store, Terminal
  <2>8. ASSUME NEW p \in Policies, Redeploy(p) PROVE TypeInv'
    BY <2>0, <2>8 DEF Redeploy
  <2>9. CASE UNCHANGED vars
    BY <2>9 DEF vars
  <2> QED
    BY <2>1, <2>2, <2>3, <2>4, <2>5, <2>6, <2>7, <2>8, <2>9 DEF Next
<1> QED
  BY <1>1, <1>2

\* Every variable keeps to what the code can put there, under any policies.
THEOREM Typing == Spec => []TypeOK
<1>1. TypeInv => TypeOK
  BY DEF TypeInv
<1> QED
  BY <1>1, TypeInductive, RouteAlways, PTL DEF Spec

(***************************************************************************)
(* EngineStandsByItsResults.                                               *)
(***************************************************************************)

\* No stage fails, and up to its storage an analysis keeps the result issued.
StandInv ==
    /\ RouteInv
    /\ stage # "failed"
    /\ stage \in {"authorized", "published"} \cup Terminal =>
          result = Issued /\ decision = result.final

\* What is issued passes every check on its way: that of authorize, of the
\* certificate's builder, of the service and of the repository.
LEMMA IssuedPasses ==
  ASSUME policy \in Policies, proposal \in Decisions, IsAssessment(assessment)
  PROVE  LET bundle == [assurance |-> Issued, paths |-> assessment.paths]
         IN  /\ VerifyAssurance(Issued, policy)
             /\ MayBuild(Issued, proposal, Issued.final, policy)
             /\ VerifyBundle(bundle, policy) /\ VerifyBundle(bundle, NoPolicy)
<1> DEFINE bundle == [assurance |-> Issued, paths |-> assessment.paths]
           actual == AssessEvidence(assessment.paths, 40)
<1>1. policy \in AssurancePolicy /\ NoPolicy # policy
  BY PolicyAssumption
<1>2. VerifyAssurance(Issued, policy) /\ VerifyAssurance(Issued, NoPolicy)
  BY <1>1, EngineVerifies DEF Issued
<1>3. Issued.evidence = AssessEvidence(assessment.paths, policy.minimumCoverage)
      /\ Issued.proposed = proposal
  BY EngineIssues
<1>4. /\ actual["material"] = Issued.evidence["material"]
      /\ actual["verified"] = Issued.evidence["verified"]
      /\ actual["ids"] = Issued.evidence["ids"]
  BY <1>3 DEF AssessEvidence
<1>5. bundle.assurance = Issued /\ bundle.paths = assessment.paths
  OBVIOUS
<1> HIDE DEF bundle
<1>6. VerifyBundle(bundle, policy) /\ VerifyBundle(bundle, NoPolicy)
  BY <1>2, <1>4, <1>5 DEF VerifyBundle
<1> QED
  BY <1>2, <1>3, <1>6 DEF MayBuild, bundle

\* No step fails an analysis.
LEMMA StandInductive ==
  /\ Init => StandInv
  /\ StandInv /\ [Next]_vars => StandInv'
<1>1. Init => StandInv
  BY RouteInductive DEF Init, StandInv, Terminal
<1>2. StandInv /\ [Next]_vars => StandInv'
  <2> SUFFICES ASSUME StandInv, [Next]_vars PROVE StandInv'
    OBVIOUS
  <2>0. RouteInv /\ RouteInv'
    BY RouteInductive DEF StandInv
  <2>1. ASSUME NEW a \in Assessments[policy], Assess(a) PROVE StandInv'
    BY <2>0, <2>1 DEF Assess, StandInv, Terminal
  <2>2. CASE Degrade
    BY <2>0, <2>2 DEF Degrade, StandInv, Terminal
  <2>3. CASE Review
    BY <2>0, <2>3 DEF Review, StandInv, Terminal
  <2>4. CASE EvaluateProposal
    BY <2>0, <2>4 DEF EvaluateProposal, StandInv, Terminal
  <2>5. CASE Authorize
    <3>1. result = Issued /\ Issued' = Issued
      BY <2>0, <2>5 DEF Authorize, RouteInv, Issued
    <3>2. VerifyAssurance(result, policy)
      BY <2>0, <2>5, <3>1, IssuedPasses DEF Authorize, RouteInv
    <3> QED
      BY <2>0, <2>5, <3>1, <3>2 DEF Authorize, StandInv
  <2>6. CASE Certify
    <3>1. /\ result = Issued /\ decision = result.final /\ Issued' = Issued
          /\ result' = result /\ decision' = decision
      BY <2>6 DEF Certify, StandInv, Issued
    <3>2. MayBuild(result, proposal, decision, policy)
      BY <2>0, <2>6, <3>1, IssuedPasses DEF Certify, RouteInv
    <3>3. stage' # "failed"
      BY <2>6, <3>2 DEF Certify, AgentStatus
    <3> QED
      BY <2>0, <3>1, <3>3 DEF StandInv
  <2>7. CASE Store
    <3>1. result = Issued /\ stage \in Terminal
      BY <2>7 DEF Store, StandInv
    <3>2. stage' = "stored"
      BY <2>0, <2>7, <3>1, IssuedPasses DEF Store, RouteInv, Terminal
    <3> QED
      BY <2>0, <3>2 DEF StandInv, Terminal
  <2>8. ASSUME NEW p \in Policies, Redeploy(p) PROVE StandInv'
    BY <2>0, <2>8 DEF Redeploy, StandInv, Terminal
  <2>9. CASE UNCHANGED vars
    <3>1. Issued' = Issued
      BY <2>9 DEF vars, Issued
    <3> QED
      BY <2>0, <2>9, <3>1 DEF vars, StandInv
  <2> QED
    BY <2>1, <2>2, <2>3, <2>4, <2>5, <2>6, <2>7, <2>8, <2>9 DEF Next
<1> QED
  BY <1>1, <1>2

\* The engine and the verifier agree, whatever the assessment and the policy: no
\* analysis fails, and what a result claims of its sufficient evidence is so.
THEOREM EngineAlwaysStands == Spec => []EngineStandsByItsResults
<1>1. StandInv => EngineStandsByItsResults
  <2> SUFFICES ASSUME StandInv, stage = "evaluated"
               PROVE  LET s == result.sufficient
                          Keeps(S) == RecomputedDecision(assessment.paths, S) = proposal
                      IN  /\ s.preserves => Keeps(s.ids)
                          /\ s.method = "EXACT" =>
                               \A S \in (SUBSET Nodes(assessment.paths)) \ {{}} :
                                  Keeps(S) => s.preserves /\ Cardinality(s.ids) <= Cardinality(S)
    BY DEF EngineStandsByItsResults, SufficientIsMinimal, StandInv
  <2>1. IsAssessment(assessment) /\ result = Issued
    BY DEF StandInv, RouteInv
  <2>2. Records(result, assessment, proposal, failures, policy)
    BY <2>1, ResultHolds DEF Issued
  <2>3. /\ result.proposed = proposal
        /\ result.evidence.ids = Nodes(assessment.paths)
        /\ result.sufficient = SufficientEvidence(assessment.paths, proposal, policy)
    BY <2>2 DEF Records, AssessEvidence
  <2> QED
    BY <2>1, <2>3, SufficientAgrees
<1> QED
  BY <1>1, StandInductive, PTL DEF Spec

(***************************************************************************)
(* AgentIsNeverLaxer.                                                      *)
(***************************************************************************)

\* What stands in the way of a proposal still does when more has failed.
LEMMA MoreFailuresBlock ==
  ASSUME NEW a, NEW b, a.paths = b.paths, a.reference = b.reference,
         NEW d, NEW more, NEW less, less \subseteq more, NEW p,
         Evaluate(AssuranceInput(b, d, less), p).blockers # << >>
  PROVE  Evaluate(AssuranceInput(a, d, more), p).blockers # << >>
<1> DEFINE v == AssuranceInput(a, d, more)
           w == AssuranceInput(b, d, less)
           R == Evaluate(v, p)
           Q == Evaluate(w, p)
           F == EngineFindings(v, R.evidence, R.fragility, R.distribution, p)
           G == EngineFindings(w, Q.evidence, Q.fragility, Q.distribution, p)
<1>1. v.scores = w.scores /\ v.failures = more /\ w.failures = less
  BY DEF AssuranceInput
<1>2. Records(R, a, d, more, p) /\ Records(Q, b, d, less, p)
  BY ResultHolds
<1> HIDE DEF R, Q
<1>3. /\ R.evidence = Q.evidence /\ R.fragility = Q.fragility /\ R.distribution = Q.distribution
      /\ R.blockers = F.blockers /\ Q.blockers = G.blockers
  BY <1>2 DEF Records
<1> HIDE DEF v, w
<1>4. \A x : Listed(x, G.blockers) => Listed(x, F.blockers)
  <2>1. ASSUME NEW x, x \in Blocks, Listed(x, G.blockers) PROVE Listed(x, F.blockers)
    <3>1. /\ Listed("evidence", G.blockers) => Listed("evidence", F.blockers)
          /\ Listed("fragility", G.blockers) => Listed("fragility", F.blockers)
          /\ Listed("fragility_unknown", G.blockers) => Listed("fragility_unknown", F.blockers)
      BY <1>3, EngineLists
    <3>2. /\ Listed("distribution", G.blockers) => Listed("distribution", F.blockers)
          /\ Listed("distribution_unknown", G.blockers)
               => Listed("distribution_unknown", F.blockers)
          /\ Listed("distribution_warning", G.blockers)
               => Listed("distribution_warning", F.blockers)
      BY <1>3, EngineLists
    <3>3. Listed("disagreement", G.blockers) => Listed("disagreement", F.blockers)
      BY <1>1, EngineLists
    <3>4. Listed("runtime_failure", G.blockers) => Listed("runtime_failure", F.blockers)
      BY <1>1, EngineLists
    <3> QED BY <2>1, <3>1, <3>2, <3>3, <3>4 DEF Blocks
  <2>2. \A x : Listed(x, G.blockers) => x \in Blocks
    BY EngineLists
  <2> QED BY <2>1, <2>2
<1>5. G.blockers \in Seq(Codes) /\ F.blockers \in Seq(Codes)
  BY EngineLists DEF Findings
<1> HIDE DEF F, G
<1>6. Q.blockers # << >>
  BY DEF Q, w
<1>7. PICK x \in Codes : Listed(x, G.blockers)
  BY <1>3, <1>5, <1>6, ListedJoined
<1>8. F.blockers # << >>
  BY <1>4, <1>5, <1>7, ListedJoined
<1>9. R.blockers # << >>
  BY <1>3, <1>8
<1> QED BY <1>9 DEF R, v

\* Of one assessment taken along both routes, the agent's outcome is at least as
\* cautious.
LEMMA RoutesCompare ==
  ASSUME NEW a, NEW b, NEW p, a.route = "agent", b.route = "deterministic",
         a.paths = b.paths, a.covered = b.covered, a.reference = b.reference,
         a.narrative = b.narrative, a.narrative \in {"usable", "silent"}
  PROVE  AtLeast(Outcome(a, p).final, Outcome(b, p).final)
<1> DEFINE fa == FailuresOf(a)
           fb == FailuresOf(b)
           d == Fused(b)
           pa == Proposed(a)
           pb == Proposed(b)
           R == Evaluate(AssuranceInput(a, pa, fa), p)
           Q == Evaluate(AssuranceInput(b, pb, fb), p)
<1>1. fb \subseteq fa /\ fb \subseteq {"llm_unavailable"} /\ fb \cap BlockingFailures = {}
  BY DEF FailuresOf, SemanticFailures, BlockingFailures
<1>2. d \in Decisions /\ Fused(a) = d
  BY FusionDecides DEF Fused
<1>3. /\ pa = ReviewedProposal(FailureAwareProposal(d, fa), CriticRejects(a))
      /\ pb = FailureAwareProposal(d, fb)
  <2>1. FailureAwareProposal(d, fb) \in Decisions
    BY <1>2, StepsEscalate
  <2>2. pb = ReviewedProposal(FailureAwareProposal(d, fb), FALSE)
    BY DEF Proposed
  <2>3. (a.route = "agent" /\ CriticRejects(a)) = CriticRejects(a)
    BY DEF CriticRejects
  <2>4. pa = ReviewedProposal(FailureAwareProposal(d, fa), CriticRejects(a))
    BY <1>2, <2>3 DEF Proposed
  <2> QED BY <2>1, <2>2, <2>4, StepsEscalate
<1> HIDE DEF fa, fb, d
<1>4. DispositionRank["PASS"] = 0 /\ DispositionRank["FLAG"] = 1
      /\ DispositionRank["REVIEW"] = 2 /\ DispositionRank["ABSTAIN"] = 3
  BY DEF DispositionRank
<1>5. /\ pa \in Decisions /\ pb \in Decisions
      /\ pb = "ABSTAIN" => pa = "ABSTAIN"
      /\ pa = pb \/ pa \in {"REVIEW", "ABSTAIN"}
  <2> DEFINE qa == FailureAwareProposal(d, fa)
  <2>1. /\ qa \in Decisions /\ pb \in Decisions
        /\ pb = "ABSTAIN" => qa = "ABSTAIN"
        /\ qa = pb \/ qa \in {"REVIEW", "ABSTAIN"}
    <3>1. ASSUME NEW f
          PROVE  FailureAwareProposal(d, f) =
                   IF f \cap BlockingFailures # {} THEN "ABSTAIN"
                   ELSE IF f # {} /\ d # "ABSTAIN" THEN "REVIEW" ELSE d
      <4>1. /\ AtLeast("ABSTAIN", d) /\ AtLeast(d, d)
            /\ d # "ABSTAIN" => AtLeast("REVIEW", d)
            /\ d = "ABSTAIN" => ~AtLeast("REVIEW", d)
        BY <1>2, <1>4, Caution DEF AtLeast
      <4> QED BY <4>1 DEF FailureAwareProposal
    <3>2. pb = IF fb # {} /\ d # "ABSTAIN" THEN "REVIEW" ELSE d
      BY <1>1, <1>3, <3>1
    <3>3. fb # {} => fa # {}
      BY <1>1
    <3> QED BY <1>2, <3>1, <3>2, <3>3 DEF Decisions
  <2> HIDE DEF qa
  <2>2. pa = ReviewedProposal(qa, CriticRejects(a))
    BY <1>3 DEF qa
  <2> HIDE DEF pa, pb
  <2> QED BY <1>4, <2>1, <2>2 DEF ReviewedProposal, AtLeast, Decisions
<1>6. pa = pb /\ Q.blockers # << >> => R.blockers # << >>
  <2> HIDE DEF pa, pb
  <2> SUFFICES ASSUME pa = pb, Q.blockers # << >> PROVE R.blockers # << >>
    OBVIOUS
  <2>1. Evaluate(AssuranceInput(b, pa, fb), p).blockers # << >>
    OBVIOUS
  <2> HIDE DEF R, Q
  <2>2. fb \subseteq fa /\ a.paths = b.paths /\ a.reference = b.reference
    BY <1>1
  <2>3. Evaluate(AssuranceInput(a, pa, fa), p).blockers # << >>
    BY <2>1, <2>2, MoreFailuresBlock
  <2> QED BY <2>3 DEF R
<1>7. Records(R, a, pa, fa, p) /\ Records(Q, b, pb, fb, p)
  BY ResultHolds
<1> HIDE DEF R, Q, pa, pb
<1>8. /\ R.evidence.verified = Q.evidence.verified
      /\ R.final = FinalDecision(pa, \/ R.evidence.verified = 0
                                     \/ fa \cap BlockingFailures # {},
                                 R.blockers # << >>)
      /\ Q.final = FinalDecision(pb, \/ Q.evidence.verified = 0
                                     \/ fb \cap BlockingFailures # {},
                                 Q.blockers # << >>)
  BY <1>7 DEF Records
<1>9. AtLeast(R.final, Q.final)
  <2>1. Q.final = "ABSTAIN" => R.final = "ABSTAIN"
    BY <1>1, <1>5, <1>8 DEF FinalDecision, Decisions
  <2>2. Q.final = "REVIEW" => R.final \in {"REVIEW", "ABSTAIN"}
    <3>1. CASE pa \in {"REVIEW", "ABSTAIN"}
      BY <1>8, <3>1 DEF FinalDecision
    <3>2. CASE pa = pb /\ pa \in {"PASS", "FLAG"}
      <4>1. Q.final = "REVIEW" => Q.blockers # << >>
        BY <1>8, <3>2 DEF FinalDecision
      <4>2. R.blockers # << >> => R.final \in {"REVIEW", "ABSTAIN"}
        BY <1>8 DEF FinalDecision
      <4> QED BY <1>6, <3>2, <4>1, <4>2
    <3> QED BY <1>5, <3>1, <3>2 DEF Decisions
  <2>3. R.final \in Decisions /\ Q.final \in Decisions
    BY <1>5, <1>8 DEF FinalDecision, Decisions
  <2>4. R.final = Q.final \/ R.final \in {"REVIEW", "ABSTAIN"}
    <3>1. CASE pa \in {"REVIEW", "ABSTAIN"}
      BY <1>8, <3>1 DEF FinalDecision
    <3>2. CASE pa = pb /\ pa \in {"PASS", "FLAG"}
      <4>1. R.final = pa \/ R.final \in {"REVIEW", "ABSTAIN"}
        BY <1>8 DEF FinalDecision
      <4>2. R.final = pa => Q.evidence.verified # 0 /\ R.blockers = << >>
        BY <1>8, <3>2 DEF FinalDecision
      <4>3. R.final = pa => Q.final = pb
        BY <1>1, <1>6, <1>8, <3>2, <4>2 DEF FinalDecision
      <4> QED BY <3>2, <4>1, <4>3
    <3> QED BY <1>5, <3>1, <3>2 DEF Decisions
  <2> QED BY <1>4, <2>1, <2>2, <2>3, <2>4 DEF AtLeast, Decisions
<1> QED BY <1>9 DEF R, Q, pa, pb, fa, fb, Outcome

\* The third part of TroubleNeverHelps, for any policies: on the assessment under
\* way the agent route ends at least as cautiously as the deterministic one.
THEOREM AgentNeverLaxer == Spec => []AgentIsNeverLaxer
<1>1. RouteInv => AgentIsNeverLaxer
  <2> SUFFICES ASSUME RouteInv, stage = "fused", assessment.narrative \in {"usable", "silent"}
               PROVE  AtLeast(Outcome([assessment EXCEPT !.route = "agent"], policy).final,
                              Outcome([assessment EXCEPT !.route = "deterministic"], policy).final)
    BY DEF AgentIsNeverLaxer
  <2>1. DOMAIN assessment = {"route", "paths", "covered", "narrative", "reference"}
    BY DEF RouteInv, IsAssessment
  <2> DEFINE a == [assessment EXCEPT !.route = "agent"]
             b == [assessment EXCEPT !.route = "deterministic"]
  <2>2. /\ a.route = "agent" /\ b.route = "deterministic"
        /\ a.paths = assessment.paths /\ b.paths = assessment.paths
        /\ a.covered = assessment.covered /\ b.covered = assessment.covered
        /\ a.reference = assessment.reference /\ b.reference = assessment.reference
        /\ a.narrative = assessment.narrative /\ b.narrative = assessment.narrative
    BY <2>1
  <2> HIDE DEF a, b
  <2>3. AtLeast(Outcome(a, policy).final, Outcome(b, policy).final)
    BY <2>2, RoutesCompare
  <2> QED BY <2>3 DEF a, b
<1> QED
  BY <1>1, RouteAlways, PTL

(***************************************************************************)
(* RemovalNeverImproves.                                                   *)
(***************************************************************************)

\* A disposition compared with the ones in between.
LEMMA Ranks ==
  ASSUME NEW d \in Decisions
  PROVE  /\ AtLeast("ABSTAIN", d) /\ AtLeast(d, d)
         /\ d # "ABSTAIN" => AtLeast("REVIEW", d)
         /\ d = "ABSTAIN" => ~AtLeast("REVIEW", d)
         /\ AtLeast(d, "REVIEW") <=> d \notin {"PASS", "FLAG"}
<1>1. DispositionRank["PASS"] = 0 /\ DispositionRank["FLAG"] = 1
      /\ DispositionRank["REVIEW"] = 2 /\ DispositionRank["ABSTAIN"] = 3
  BY DEF DispositionRank
<1> QED BY <1>1 DEF AtLeast, Decisions

\* A proposal after failures, and after the critic, without comparing ranks.
LEMMA AfterFailures ==
  ASSUME NEW d \in Decisions, NEW failed
  PROVE  FailureAwareProposal(d, failed) =
           IF failed \cap BlockingFailures # {} THEN "ABSTAIN"
           ELSE IF failed # {} /\ d # "ABSTAIN" THEN "REVIEW" ELSE d
BY Ranks DEF FailureAwareProposal

LEMMA AfterCritic ==
  ASSUME NEW d \in Decisions, NEW rejected
  PROVE  d = "ABSTAIN" <=> ReviewedProposal(d, rejected) = "ABSTAIN"
BY Ranks DEF ReviewedProposal

\* What a proposal leads to, whatever the policy.
LEMMA OutcomeIs ==
  ASSUME NEW a, NEW p
  PROVE  LET R == Outcome(a, p)
         IN  /\ Fused(a) \in Decisions /\ Proposed(a) \in Decisions
             /\ R.final \in Decisions
             /\ Proposed(a) = "ABSTAIN" => R.final = "ABSTAIN"
             /\ R.evidence = AssessEvidence(a.paths, p.minimumCoverage)
             /\ R.evidence.state # "VERIFIED" => R.blockers # << >>
             /\ R.final = FinalDecision(Proposed(a), \/ R.evidence.verified = 0
                                                     \/ FailuresOf(a) \cap BlockingFailures # {},
                                        R.blockers # << >>)
<1> DEFINE d == Proposed(a)
           v == AssuranceInput(a, d, FailuresOf(a))
           R == Evaluate(v, p)
           F == EngineFindings(v, R.evidence, R.fragility, R.distribution, p)
<1>1. Fused(a) \in Decisions
  BY FusionDecides DEF Fused
<1>2. d \in Decisions
  <2>1. FailureAwareProposal(Fused(a), FailuresOf(a)) \in Decisions
    BY <1>1, StepsEscalate
  <2> QED BY <2>1, StepsEscalate DEF Proposed
<1>3. Records(R, a, d, FailuresOf(a), p)
  BY ResultHolds
<1> HIDE DEF R
<1>4. R.evidence.state # "VERIFIED" => R.blockers # << >>
  <2>1. F.blockers = R.blockers
    BY <1>3 DEF Records
  <2>2. F.blockers \in Seq(Codes) /\ (R.evidence.state # "VERIFIED" => Listed("evidence", F.blockers))
    BY EngineLists DEF Findings
  <2> HIDE DEF F
  <2>3. ~Listed("evidence", << >>)
    BY CodesListed
  <2> QED BY <2>1, <2>2, <2>3
<1>5. /\ R.evidence = AssessEvidence(a.paths, p.minimumCoverage)
      /\ R.final = FinalDecision(d, \/ R.evidence.verified = 0
                                    \/ FailuresOf(a) \cap BlockingFailures # {},
                                 R.blockers # << >>)
  BY <1>3 DEF Records
<1>6. Outcome(a, p) = R
  BY DEF Outcome, R
<1> HIDE DEF d
<1>7. R.final \in Decisions /\ (d = "ABSTAIN" => R.final = "ABSTAIN")
  BY <1>2, <1>5 DEF FinalDecision, Decisions
<1> QED BY <1>1, <1>2, <1>4, <1>5, <1>6, <1>7 DEF d

\* What is left when a path has lost its evidence: the same paths, dimensions and
\* scores, and one that is not verified any more.
LEMMA EvidenceGone ==
  ASSUME NEW a, IsAssessment(a), NEW removed, Without(a.paths, removed) # a.paths
  PROVE  LET rest == Without(a.paths, removed)
         IN  /\ DimensionScores(rest) = DimensionScores(a.paths)
             /\ Verified(a.paths) # {} /\ Verified(rest) # rest
             /\ \A p \in a.paths : p.kind = "tension" => \E q \in rest : q.kind = "tension"
             /\ \A p \in a.paths : p.kind = "rule" /\ ~p.verified =>
                    \E q \in rest : q.kind = "rule" /\ ~q.verified
<1> DEFINE P == a.paths
           rest == Without(P, removed)
           Left(p) == IF p.ids \cap removed = {} THEN p
                      ELSE [p EXCEPT !.ids = {}, !.verified = FALSE]
<1>1. rest = {Left(p) : p \in P}
  BY DEF Without
<1>2. \A p \in P : /\ DOMAIN p = {"reason", "kind", "dim", "ids", "verified", "score"}
                   /\ p.verified = (p.ids # {})
  BY DEF IsAssessment
<1>3. ASSUME NEW p \in P
      PROVE  /\ Left(p).dim = p.dim /\ Left(p).score = p.score /\ Left(p).kind = p.kind
             /\ ~p.verified => Left(p) = p
             /\ Left(p) = p \/ (~Left(p).verified /\ p.verified)
  BY <1>2
<1> HIDE DEF Left, rest
<1>4. {p.dim : p \in rest} = {p.dim : p \in P}
  BY <1>1, <1>3
<1>5. ASSUME NEW d
      PROVE  {p.score : p \in {q \in rest : q.dim = d}} = {p.score : p \in {q \in P : q.dim = d}}
  BY <1>1, <1>3
<1>6. DimensionScores(rest) = DimensionScores(P)
  BY <1>4, <1>5 DEF DimensionScores
<1>7. PICK p \in P : Left(p) # p
  BY <1>1 DEF rest
<1>8. Left(p) \in rest /\ ~Left(p).verified /\ p.verified
  BY <1>1, <1>3, <1>7
<1>9. Verified(P) # {} /\ Verified(rest) # rest
  BY <1>8 DEF Verified
<1>10. \A q \in P : q.kind = "tension" => \E r \in rest : r.kind = "tension"
  BY <1>1, <1>3
<1>11. \A q \in P : q.kind = "rule" /\ ~q.verified => \E r \in rest : r.kind = "rule" /\ ~r.verified
  BY <1>1, <1>3
<1> QED BY <1>6, <1>9, <1>10, <1>11 DEF rest

\* Of two assessments that differ in the evidence some path has lost, the one with
\* less of it ends at least as cautiously.
LEMMA RemovalCompares ==
  ASSUME NEW a, IsAssessment(a), NEW removed, NEW r, IsAssessment(r), NEW p,
         r.paths = Without(a.paths, removed), r.paths # a.paths,
         r.route = a.route, r.covered = a.covered, r.narrative = a.narrative
  PROVE  AtLeast(Outcome(r, p).final, Outcome(a, p).final)
<1> DEFINE fa == FailuresOf(a)
           fr == FailuresOf(r)
           d == Fused(a)
           ca == a.route = "agent" /\ CriticRejects(a)
           cr == r.route = "agent" /\ CriticRejects(r)
<1>1. /\ DimensionScores(r.paths) = DimensionScores(a.paths)
      /\ Verified(a.paths) # {} /\ Verified(r.paths) # r.paths
      /\ HasTension(a) => HasTension(r)
      /\ CriticRejects(a) => CriticRejects(r)
  BY EvidenceGone DEF HasTension, CriticRejects
<1>2. /\ fa \subseteq fr /\ fa \cap BlockingFailures = {}
  BY <1>1 DEF FailuresOf, BlockingFailures
<1>3. d \in Decisions /\ Fused(r) = d
  BY <1>1, OutcomeIs DEF Fused
<1>4. ca \in BOOLEAN /\ cr \in BOOLEAN /\ (ca => cr)
  BY <1>1 DEF CriticRejects
<1> HIDE DEF fa, fr, d, ca, cr
<1>5. Proposed(a) = "ABSTAIN" => Proposed(r) = "ABSTAIN"
  <2> DEFINE qa == FailureAwareProposal(d, fa)
             qr == FailureAwareProposal(d, fr)
  <2>1. qa \in Decisions /\ qr \in Decisions
    BY <1>3, StepsEscalate
  <2>2. qa = "ABSTAIN" => d = "ABSTAIN"
    BY <1>2, <1>3, AfterFailures
  <2>3. d = "ABSTAIN" => qr = "ABSTAIN"
    BY <1>3, AfterFailures
  <2>4. Proposed(a) = ReviewedProposal(qa, ca) /\ Proposed(r) = ReviewedProposal(qr, cr)
    BY <1>3 DEF Proposed, d, fa, fr, ca, cr
  <2> HIDE DEF qa, qr
  <2>5. /\ ReviewedProposal(qa, ca) = "ABSTAIN" => qa = "ABSTAIN"
        /\ qr = "ABSTAIN" => ReviewedProposal(qr, cr) = "ABSTAIN"
    BY <2>1, AfterCritic
  <2> QED BY <2>2, <2>3, <2>4, <2>5
<1> DEFINE R == Outcome(r, p)
           Q == Outcome(a, p)
<1>6. R.final \in {"REVIEW", "ABSTAIN"}
  <2>1. R.evidence.state # "VERIFIED"
    <3> DEFINE v == Verified(r.paths)
    <3>1. IsFiniteSet(r.paths) /\ v \in SUBSET r.paths /\ v # r.paths
      BY <1>1 DEF IsAssessment, Verified
    <3> HIDE DEF v
    <3>2. /\ Cardinality(v) \in Nat /\ Cardinality(r.paths) \in Nat
          /\ Cardinality(v) < Cardinality(r.paths)
      BY <3>1, FS_Subset, FS_CardinalityType
    <3>3. AssessEvidence(r.paths, p.minimumCoverage).state # "VERIFIED"
      BY <3>2 DEF AssessEvidence, v
    <3> QED BY <3>3, OutcomeIs
  <2>2. R.blockers # << >> /\ Proposed(r) \in Decisions
    BY <2>1, OutcomeIs
  <2>3. R.final = FinalDecision(Proposed(r), \/ R.evidence.verified = 0
                                             \/ FailuresOf(r) \cap BlockingFailures # {},
                                R.blockers # << >>)
    BY OutcomeIs
  <2> HIDE DEF R
  <2> QED BY <2>2, <2>3 DEF FinalDecision
<1>7. Q.final = "ABSTAIN" => R.final = "ABSTAIN"
  <2>1. Q.final = FinalDecision(Proposed(a), \/ Q.evidence.verified = 0
                                             \/ fa \cap BlockingFailures # {},
                                Q.blockers # << >>)
    BY OutcomeIs DEF fa
  <2>2. Q.evidence.verified # 0
    <3> DEFINE v == Verified(a.paths)
    <3>1. IsFiniteSet(a.paths) /\ v \in SUBSET a.paths /\ v # {}
      BY <1>1 DEF IsAssessment, Verified
    <3> HIDE DEF v
    <3>2. Cardinality(v) # 0
      BY <3>1, FS_Subset, FS_EmptySet
    <3>3. AssessEvidence(a.paths, p.minimumCoverage).verified # 0
      BY <3>2 DEF AssessEvidence, v
    <3> QED BY <3>3, OutcomeIs
  <2>3. Proposed(r) = "ABSTAIN" => R.final = "ABSTAIN"
    BY OutcomeIs
  <2> HIDE DEF R, Q
  <2> QED BY <1>2, <1>5, <2>1, <2>2, <2>3 DEF FinalDecision
<1>8. Q.final \in Decisions
  BY OutcomeIs
<1> HIDE DEF R, Q
<1>9. AtLeast(R.final, Q.final)
  BY <1>6, <1>7, <1>8, Caution
<1> QED BY <1>9 DEF R, Q

\* The first part of TroubleNeverHelps, for any policies: whatever evidence is
\* taken away, the outcome is at least as cautious.
THEOREM RemovalNeverHelps == Spec => []RemovalNeverImproves
<1>1. RouteInv => RemovalNeverImproves
  <2> SUFFICES ASSUME RouteInv, stage = "fused",
                      NEW removed \in SUBSET Nodes(assessment.paths),
                      NEW covered \in {FALSE, assessment.covered},
                      IsAssessment([assessment EXCEPT !.paths = Without(@, removed),
                                                      !.covered = covered])
               PROVE  AtLeast(Outcome([assessment EXCEPT !.paths = Without(@, removed),
                                                         !.covered = covered], policy).final,
                              Outcome(assessment, policy).final)
    BY DEF RemovalNeverImproves
  <2> DEFINE r == [assessment EXCEPT !.paths = Without(@, removed), !.covered = covered]
  <2>1. IsAssessment(assessment) /\ IsAssessment(r)
    BY DEF RouteInv
  <2>2. DOMAIN assessment = {"route", "paths", "covered", "narrative", "reference"}
    BY <2>1 DEF IsAssessment
  <2>3. /\ r.paths = Without(assessment.paths, removed) /\ r.covered = covered
        /\ r.route = assessment.route /\ r.narrative = assessment.narrative
        /\ r.reference = assessment.reference
    BY <2>2
  <2>4. CASE covered = FALSE
    <3> HIDE DEF r
    <3>1. Fused(r) = "ABSTAIN"
      BY <2>3, <2>4 DEF Fused, FusedDecision
    <3>2. \A failed : FailureAwareProposal("ABSTAIN", failed) = "ABSTAIN"
      BY AfterFailures DEF Decisions
    <3>3. Proposed(r) = "ABSTAIN"
      BY <3>1, <3>2, AfterCritic DEF Proposed, Decisions
    <3>4. Outcome(r, policy).final = "ABSTAIN" /\ Outcome(assessment, policy).final \in Decisions
      BY <3>3, OutcomeIs
    <3> QED BY <3>4, Caution DEF r
  <2>5. CASE covered = assessment.covered /\ r.paths # assessment.paths
    <3> HIDE DEF r
    <3>1. AtLeast(Outcome(r, policy).final, Outcome(assessment, policy).final)
      BY <2>1, <2>3, <2>5, RemovalCompares
    <3> QED BY <3>1 DEF r
  <2>6. CASE covered = assessment.covered /\ r.paths = assessment.paths
    <3> HIDE DEF r
    <3>1. r.covered = assessment.covered /\ r.reference = assessment.reference
      BY <2>3, <2>6
    <3>2. /\ Fused(r) = Fused(assessment) /\ FailuresOf(r) = FailuresOf(assessment)
          /\ CriticRejects(r) = CriticRejects(assessment)
      BY <2>3, <2>6, <3>1 DEF Fused, FailuresOf, HasTension, CriticRejects
    <3>3. Proposed(r) = Proposed(assessment)
      BY <2>3, <3>2 DEF Proposed
    <3>4. AssuranceInput(r, Proposed(r), FailuresOf(r))
            = AssuranceInput(assessment, Proposed(assessment), FailuresOf(assessment))
      BY <2>3, <2>6, <3>1, <3>2, <3>3 DEF AssuranceInput
    <3>5. /\ Outcome(r, policy) = Outcome(assessment, policy)
          /\ Outcome(assessment, policy).final \in Decisions
      BY <3>4, OutcomeIs DEF Outcome
    <3> QED BY <3>5, Caution DEF r
  <2> QED BY <2>4, <2>5, <2>6
<1> QED
  BY <1>1, RouteAlways, PTL

(***************************************************************************)
(* AdverseNeverClears.  The aggregate is a floor and an uplift, both of    *)
(* which only grow with the dimensions; that scores which pass agree is    *)
(* arithmetic on sums over the dimensions (SumsCompare).                   *)
(***************************************************************************)

\* Max is the greatest of scores.
LEMMA MaxIsMost ==
  ASSUME NEW T, T \subseteq 0..100, T # {}
  PROVE  Max(T) \in T /\ \A y \in T : Max(T) >= y
<1> DEFINE U == {100 - x : x \in T}
<1>1. U \subseteq Nat /\ U # {}
  <2>1. \A x \in T : 100 - x \in Nat
    OBVIOUS
  <2> QED BY <2>1
<1>2. PICK u \in U : \A y \in U : u <= y
  BY <1>1, LeastNatural
<1>3. PICK x \in T : u = 100 - x
  OBVIOUS
<1>4. \A y \in T : x >= y
  <2> TAKE y \in T
  <2>1. u <= 100 - y /\ x \in 0..100 /\ y \in 0..100
    BY <1>2
  <2> QED BY <1>3, <2>1
<1> HIDE DEF U
<1> QED BY <1>4 DEF Max

\* The least of two numbers, and the greatest of two.
LEMMA TwoNumbers ==
  ASSUME NEW m \in Int, NEW n \in Int
  PROVE  /\ Min({m, n}) = IF m <= n THEN m ELSE n
         /\ Max({m, n}) = IF m <= n THEN n ELSE m
<1> DEFINE l == IF m <= n THEN m ELSE n
           h == IF m <= n THEN n ELSE m
<1>1. /\ l \in {m, n} /\ \A y \in {m, n} : l <= y
      /\ h \in {m, n} /\ \A y \in {m, n} : h >= y
  OBVIOUS
<1>2. \A x \in {m, n} : /\ (\A y \in {m, n} : x <= y) => x = l
                        /\ (\A y \in {m, n} : x >= y) => x = h
  OBVIOUS
<1> HIDE DEF l, h
<1>3. Min({m, n}) = l
  BY <1>1, <1>2 DEF Min
<1>4. Max({m, n}) = h
  BY <1>1, <1>2 DEF Max
<1> QED BY <1>3, <1>4 DEF l, h

\* A factor keeps an order.
LEMMA FactorKeeps ==
  ASSUME NEW k \in Nat, NEW m \in Int, NEW n \in Int, m <= n
  PROVE  k * m <= k * n /\ k * m \in Int
<1>1. k * (n - m) >= 0 /\ k * (n - m) = k * n - k * m
  OBVIOUS
<1>2. k * n \in Int /\ k * m \in Int
  OBVIOUS
<1> QED BY <1>1, <1>2

\* The scores of an assessment.
IsScores(scores) ==
    /\ scores = [d \in DOMAIN scores |-> scores[d]]
    /\ IsFiniteSet(DOMAIN scores)
    /\ \A d \in DOMAIN scores : scores[d] \in 0..100

\* The scores of the dimensions in D.
Fewer(scores, D) == [d \in D |-> scores[d]]

LEMMA ScoresOf ==
  ASSUME NEW a, IsAssessment(a)
  PROVE  IsScores(DimensionScores(a.paths))
<1> DEFINE P == a.paths
           dims == {p.dim : p \in P}
           values(d) == {p.score : p \in {q \in P : q.dim = d}}
           scores == DimensionScores(P)
<1>1. scores = [d \in dims |-> Max(values(d))]
  BY DEF DimensionScores
<1>2. IsFiniteSet(dims)
  <2>1. IsFiniteSet(P)
    BY DEF IsAssessment
  <2> DEFINE f == [p \in P |-> p.dim]
  <2>2. f \in [P -> dims] /\ \A d \in dims : \E p \in P : f[p] = d
    OBVIOUS
  <2>3. f \in Surjection(P, dims)
    BY <2>2 DEF Surjection
  <2> QED BY <2>1, <2>3, FS_Surjection
<1>3. ASSUME NEW d \in dims PROVE Max(values(d)) \in 0..100
  <2>1. values(d) \subseteq 0..100 /\ values(d) # {}
    BY DEF IsAssessment
  <2> HIDE DEF values
  <2> QED BY <2>1, MaxIsMost
<1> HIDE DEF scores, dims, values
<1> QED BY <1>1, <1>2, <1>3 DEF IsScores, scores

LEMMA FewerScores ==
  ASSUME NEW scores, IsScores(scores), NEW D \in SUBSET DOMAIN scores
  PROVE  /\ IsScores(Fewer(scores, D)) /\ DOMAIN Fewer(scores, D) = D
         /\ \A d \in D : Fewer(scores, D)[d] = scores[d]
BY FS_Subset DEF IsScores, Fewer

\* The uplift is a number, and does not shrink with further elevated dimensions.
LEMMA UpliftGrows ==
  ASSUME NEW scores, IsScores(scores), NEW D \in SUBSET DOMAIN scores
  PROVE  /\ Uplift(scores) \in Nat /\ Uplift(Fewer(scores, D)) \in Nat
         /\ Uplift(Fewer(scores, D)) <= Uplift(scores)
<1> DEFINE few == Fewer(scores, D)
           m == Cardinality(Elevated(few))
           n == Cardinality(Elevated(scores))
           u == DecisionPolicy.uplift
           cap == DecisionPolicy.upliftCap
<1>1. Elevated(few) \subseteq Elevated(scores)
  BY FewerScores DEF Elevated
<1>2. m \in Nat /\ n \in Nat /\ m <= n
  <2>1. IsFiniteSet(Elevated(scores))
    BY FS_Subset DEF Elevated, IsScores
  <2> QED BY <1>1, <2>1, FS_Subset, FS_CardinalityType
<1>3. u \in Nat /\ cap \in Nat
  BY DecisionPolicyAssumption
<1> HIDE DEF m, n, u, cap, few
<1> DEFINE i == Max({0, m - 1})
           j == Max({0, n - 1})
<1>4. i \in Nat /\ j \in Nat /\ i <= j
  <2>1. 0 \in Int /\ m - 1 \in Int /\ n - 1 \in Int
    BY <1>2
  <2>2. /\ i = IF 0 <= m - 1 THEN m - 1 ELSE 0
        /\ j = IF 0 <= n - 1 THEN n - 1 ELSE 0
    BY <2>1, TwoNumbers
  <2> HIDE DEF i, j
  <2> QED BY <1>2, <2>2
<1> HIDE DEF i, j
<1>5. u * i \in Nat /\ u * j \in Nat /\ u * i <= u * j
  <2>1. u * 0 <= u * i /\ u * i <= u * j /\ u * i \in Int /\ u * 0 = 0
    BY <1>3, <1>4, FactorKeeps
  <2>2. u * j \in Int
    BY <1>3, <1>4
  <2> QED BY <2>1, <2>2
<1>6. /\ Min({cap, u * i}) \in Nat /\ Min({cap, u * j}) \in Nat
      /\ Min({cap, u * i}) <= Min({cap, u * j})
  <2>1. /\ Min({cap, u * i}) = IF cap <= u * i THEN cap ELSE u * i
        /\ Min({cap, u * j}) = IF cap <= u * j THEN cap ELSE u * j
    BY <1>3, <1>5, TwoNumbers
  <2> QED BY <1>3, <1>5, <2>1
<1> QED BY <1>6 DEF Uplift, i, j, m, n, u, cap, few

\* The aggregate is at least every score, and does not shrink with dimensions.
LEMMA AggregateGrows ==
  ASSUME NEW scores, IsScores(scores), NEW D \in (SUBSET DOMAIN scores) \ {{}}
  PROVE  LET total == AggregateScore(scores)
             less == AggregateScore(Fewer(scores, D))
         IN  /\ total \in Int /\ less \in Int /\ less <= total
             /\ \A d \in DOMAIN scores : scores[d] <= total
<1> DEFINE few == Fewer(scores, D)
           A == {scores[d] : d \in DOMAIN scores}
           B == {few[d] : d \in DOMAIN few}
           up == Uplift(scores)
           lift == Uplift(few)
<1>1. B \subseteq A /\ A \subseteq 0..100 /\ B # {} /\ A # {} /\ DOMAIN few # {}
  BY FewerScores DEF IsScores
<1>2. /\ Max(A) \in A /\ \A y \in A : Max(A) >= y
      /\ Max(B) \in B
  BY <1>1, MaxIsMost
<1>3. up \in Nat /\ lift \in Nat /\ lift <= up
  BY UpliftGrows
<1>4. \A d \in DOMAIN scores : scores[d] \in A
  OBVIOUS
<1>5. /\ AggregateScore(scores) = Min({100, Max(A) + up})
      /\ AggregateScore(few) = Min({100, Max(B) + lift})
  BY <1>1 DEF AggregateScore
<1> HIDE DEF few, A, B, up, lift
<1>6. /\ Max(A) \in 0..100 /\ Max(B) \in 0..100 /\ Max(B) <= Max(A)
  BY <1>1, <1>2
<1>7. /\ Min({100, Max(A) + up}) \in Int /\ Min({100, Max(B) + lift}) \in Int
      /\ Min({100, Max(B) + lift}) <= Min({100, Max(A) + up})
      /\ Max(A) <= Min({100, Max(A) + up})
  <2> DEFINE x == Max(A) + up
             y == Max(B) + lift
  <2>1. x \in Int /\ y \in Int /\ y <= x /\ Max(A) <= x
    BY <1>3, <1>6
  <2> HIDE DEF x, y
  <2>2. /\ Min({100, x}) = IF 100 <= x THEN 100 ELSE x
        /\ Min({100, y}) = IF 100 <= y THEN 100 ELSE y
    BY <2>1, TwoNumbers
  <2>3. /\ Min({100, x}) \in Int /\ Min({100, y}) \in Int
        /\ Min({100, y}) <= Min({100, x}) /\ Max(A) <= Min({100, x})
    BY <1>6, <2>1, <2>2
  <2> QED BY <2>3 DEF x, y
<1>8. \A d \in DOMAIN scores : scores[d] <= Min({100, Max(A) + up})
  <2> DEFINE t == Min({100, Max(A) + up})
             s == Max(A)
  <2>1. t \in Int /\ s \in Int /\ s <= t
    BY <1>6, <1>7
  <2>2. \A d \in DOMAIN scores : scores[d] \in 0..100 /\ s >= scores[d]
    BY <1>1, <1>2, <1>4
  <2> HIDE DEF t, s
  <2>3. \A d \in DOMAIN scores : scores[d] <= t
    BY <2>1, <2>2
  <2> QED BY <2>3 DEF t
<1> QED BY <1>5, <1>7, <1>8 DEF few

\* The sums of the values of w over the subsets of S, by taking one element after
\* the other.
One(s) == CHOOSE x \in s : TRUE
SumStep(w, g, s) == IF s = {} THEN 0 ELSE w[One(s)] + g[s \ {One(s)}]

AreSums(g, w, S) == g = [s \in SUBSET S |-> SumStep(w, g, s)]

\* They exist: subset by subset, by size.
LEMMA SumsExist ==
  ASSUME NEW S, IsFiniteSet(S), NEW w
  PROVE  \E g : AreSums(g, w, S)
<1> DEFINE Small(n) == {s \in SUBSET S : Cardinality(s) <= n}
           Run(g, n) == g = [s \in Small(n) |-> SumStep(w, g, s)]
           Stuck == {n \in Nat : ~ \E g : Run(g, n)}
<1>1. ASSUME NEW s \in SUBSET S
      PROVE  /\ IsFiniteSet(s) /\ Cardinality(s) \in Nat /\ Cardinality(s) <= Cardinality(S)
             /\ Cardinality(s) = 0 <=> s = {}
             /\ s # {} => /\ One(s) \in s /\ s \ {One(s)} \in SUBSET S
                          /\ Cardinality(s \ {One(s)}) = Cardinality(s) - 1
  <2>1. IsFiniteSet(s) /\ Cardinality(s) <= Cardinality(S)
    BY FS_Subset
  <2>2. Cardinality(s) \in Nat /\ (Cardinality(s) = 0 <=> s = {})
    BY <2>1, FS_CardinalityType, FS_EmptySet
  <2>3. s # {} => One(s) \in s
    BY DEF One
  <2>4. s # {} => Cardinality(s \ {One(s)}) = Cardinality(s) - 1
    BY <2>1, <2>3, FS_RemoveElement
  <2> QED BY <2>1, <2>2, <2>3, <2>4
<1>2. 0 \notin Stuck
  <2> DEFINE g == [s \in Small(0) |-> 0]
  <2>1. ASSUME NEW s \in Small(0) PROVE s = {}
    <3>1. s \in SUBSET S /\ Cardinality(s) <= 0
      OBVIOUS
    <3>2. Cardinality(s) \in Nat /\ (Cardinality(s) = 0 <=> s = {})
      BY <1>1
    <3> HIDE DEF Small
    <3> QED BY <3>1, <3>2
  <2>2. \A h : \A s \in Small(0) : SumStep(w, h, s) = 0
    BY <2>1 DEF SumStep
  <2> HIDE DEF Small
  <2>3. Run(g, 0)
    BY <2>2
  <2> HIDE DEF g, Run
  <2> QED BY <2>3
<1>3. ASSUME NEW n \in Nat \ {0}, n - 1 \notin Stuck PROVE n \notin Stuck
  <2>1. n - 1 \in Nat
    OBVIOUS
  <2>2. PICK g : Run(g, n - 1)
    BY <1>3, <2>1
  <2> DEFINE h == [s \in Small(n) |-> SumStep(w, g, s)]
  <2>3. ASSUME NEW s \in Small(n) PROVE SumStep(w, g, s) = SumStep(w, h, s)
    <3>1. CASE s = {}
      BY <3>1 DEF SumStep
    <3>2. CASE s # {}
      <4> DEFINE t == s \ {One(s)}
      <4>1. t \in SUBSET S /\ Cardinality(t) \in Nat /\ Cardinality(t) <= n - 1
        <5>1. /\ t \in SUBSET S /\ Cardinality(t) = Cardinality(s) - 1
              /\ Cardinality(s) \in Nat /\ Cardinality(s) <= n /\ Cardinality(t) \in Nat
          BY <1>1, <3>2
        <5> HIDE DEF t
        <5> QED BY <5>1
      <4>2. t \in Small(n - 1) /\ t \in Small(n)
        <5> HIDE DEF t
        <5> QED BY <4>1
      <4>3. g[t] = SumStep(w, g, t)
        <5> HIDE DEF Small, t
        <5>1. [x \in Small(n - 1) |-> SumStep(w, g, x)][t] = SumStep(w, g, t)
          BY <4>2
        <5> QED BY <2>2, <5>1
      <4>4. h[t] = SumStep(w, g, t)
        <5> HIDE DEF Small, t
        <5> QED BY <4>2
      <4> HIDE DEF h
      <4> QED BY <3>2, <4>3, <4>4 DEF SumStep
    <3> QED BY <3>1, <3>2
  <2> HIDE DEF Small
  <2>4. h = [s \in Small(n) |-> SumStep(w, h, s)]
    <3> DEFINE k == [s \in Small(n) |-> SumStep(w, h, s)]
    <3>1. DOMAIN h = Small(n) /\ \A s \in Small(n) : h[s] = SumStep(w, g, s)
      OBVIOUS
    <3>2. h = [s \in Small(n) |-> h[s]]
      OBVIOUS
    <3> HIDE DEF h
    <3>3. \A s \in Small(n) : h[s] = SumStep(w, h, s)
      BY <2>3, <3>1
    <3> QED BY <3>2, <3>3
  <2> HIDE DEF h
  <2> QED BY <2>4
<1>4. Stuck = {}
  <2> SUFFICES ASSUME Stuck # {} PROVE FALSE
    OBVIOUS
  <2>0. Stuck \subseteq Nat
    OBVIOUS
  <2> HIDE DEF Stuck
  <2>1. PICK n \in Stuck : \A m \in Stuck : n <= m
    BY <2>0, LeastNatural
  <2>2. n \in Nat \ {0}
    BY <1>2, <2>0
  <2>3. n - 1 \in Nat /\ ~(n <= n - 1)
    BY <2>2
  <2>4. n - 1 \notin Stuck
    BY <2>1, <2>3
  <2> QED BY <1>3, <2>2, <2>4
<1>5. Cardinality(S) \in Nat /\ Small(Cardinality(S)) = SUBSET S
  BY <1>1, FS_CardinalityType
<1>6. PICK g : Run(g, Cardinality(S))
  BY <1>4, <1>5
<1>7. g = [s \in SUBSET S |-> SumStep(w, g, s)]
  <2> HIDE DEF Small
  <2> QED BY <1>5, <1>6
<1> QED BY <1>7 DEF AreSums

\* The sum and the sum of the squares of the values of f over S.
SumOf(f, S) == MapThenSumSet(LAMBDA d : f[d], S)
SquaresOf(f, S) == MapThenSumSet(LAMBDA d : f[d] * f[d], S)

\* The sum of numbers up to t, and that of their squares, which is at most t times
\* as much; by induction over the subsets.
LEMMA SumsCompare ==
  ASSUME NEW S, IsFiniteSet(S), NEW t \in Nat, NEW f, \A d \in S : f[d] \in 0..t
  PROVE  /\ SumOf(f, S) \in Nat /\ SquaresOf(f, S) \in Nat
         /\ SquaresOf(f, S) <= t * SumOf(f, S)
<1> DEFINE sum[s \in SUBSET S] ==
             IF s = {} THEN 0
             ELSE LET x == CHOOSE y \in s : TRUE IN f[x] + sum[s \ {x}]
           squares[s \in SUBSET S] ==
             IF s = {} THEN 0
             ELSE LET x == CHOOSE y \in s : TRUE IN f[x] * f[x] + squares[s \ {x}]
<1>1. SumOf(f, S) = sum[S] /\ SquaresOf(f, S) = squares[S]
  BY DEF SumOf, SquaresOf, MapThenSumSet, MapThenFoldSet
<1> DEFINE sq == [d \in S |-> f[d] * f[d]]
           F(g) == [s \in SUBSET S |-> IF s = {} THEN 0
                                       ELSE LET x == CHOOSE y \in s : TRUE IN f[x] + g[s \ {x}]]
           G(g) == [s \in SUBSET S |-> IF s = {} THEN 0
                                       ELSE LET x == CHOOSE y \in s : TRUE
                                            IN  f[x] * f[x] + g[s \ {x}]]
<1>2. sum = F(sum)
  <2>1. PICK g : AreSums(g, f, S)
    BY SumsExist
  <2>2. [s \in SUBSET S |-> SumStep(f, g, s)] = F(g)
    BY DEF SumStep, One
  <2>3. \E h : h = F(h)
    BY <2>1, <2>2, Zenon DEF AreSums
  <2> QED BY <2>3, Zenon
<1>3. squares = G(squares)
  <2>1. PICK g : AreSums(g, sq, S)
    <3> HIDE DEF sq
    <3> QED BY SumsExist
  <2>2. \A s \in SUBSET S : s # {} => sq[One(s)] = f[One(s)] * f[One(s)]
    BY DEF One
  <2>3. [s \in SUBSET S |-> SumStep(sq, g, s)] = G(g)
    <3> HIDE DEF sq
    <3> QED BY <2>2 DEF SumStep, One
  <2>4. \E h : h = G(h)
    BY <2>1, <2>3, Zenon DEF AreSums
  <2> QED BY <2>4, Zenon
<1> HIDE DEF sum, squares
<1>4. ASSUME NEW s \in SUBSET S
      PROVE  /\ s = {} => sum[s] = 0 /\ squares[s] = 0
             /\ s # {} => \E x \in s : /\ sum[s] = f[x] + sum[s \ {x}]
                                       /\ squares[s] = f[x] * f[x] + squares[s \ {x}]
  <2> DEFINE x == CHOOSE y \in s : TRUE
  <2>1. /\ sum[s] = IF s = {} THEN 0 ELSE f[x] + sum[s \ {x}]
        /\ squares[s] = IF s = {} THEN 0 ELSE f[x] * f[x] + squares[s \ {x}]
    <3> DEFINE a == F(sum)
               b == G(squares)
    <3>1. /\ a[s] = IF s = {} THEN 0 ELSE f[x] + sum[s \ {x}]
          /\ b[s] = IF s = {} THEN 0 ELSE f[x] * f[x] + squares[s \ {x}]
      OBVIOUS
    <3>2. sum = a /\ squares = b
      BY <1>2, <1>3
    <3> HIDE DEF a, b, x
    <3> QED BY <3>1, <3>2
  <2>2. s # {} => x \in s
    OBVIOUS
  <2> HIDE DEF x
  <2> QED BY <2>1, <2>2
<1> DEFINE Fits(s) == sum[s] \in Nat /\ squares[s] \in Nat /\ squares[s] <= t * sum[s]
           Odd == {n \in Nat : \E s \in SUBSET S : Cardinality(s) = n /\ ~Fits(s)}
<1>5. Odd = {}
  <2> SUFFICES ASSUME Odd # {} PROVE FALSE
    OBVIOUS
  <2>0. Odd \subseteq Nat
    OBVIOUS
  <2> HIDE DEF Fits
  <2>1. PICK n \in Odd : \A m \in Odd : n <= m
    <3> HIDE DEF Odd
    <3> QED BY <2>0, LeastNatural
  <2>2. PICK s \in SUBSET S : Cardinality(s) = n /\ ~Fits(s)
    OBVIOUS
  <2>3. s # {}
    <3>1. s = {} => Fits(s)
      BY <1>4 DEF Fits
    <3> QED BY <2>2, <3>1
  <2>4. PICK x \in s : /\ sum[s] = f[x] + sum[s \ {x}]
                       /\ squares[s] = f[x] * f[x] + squares[s \ {x}]
    BY <1>4, <2>3
  <2>5. Fits(s \ {x})
    <3>1. IsFiniteSet(s) /\ s \ {x} \in SUBSET S
      BY FS_Subset
    <3>2. IsFiniteSet(s \ {x}) /\ Cardinality(s \ {x}) = n - 1
      BY <2>2, <3>1, FS_RemoveElement
    <3>3. Cardinality(s \ {x}) \in Nat
      BY <3>2, FS_CardinalityType
    <3>4. n \in Nat /\ ~(n <= n - 1)
      OBVIOUS
    <3>5. Cardinality(s \ {x}) \notin Odd
      BY <2>1, <3>2, <3>4
    <3> QED BY <3>1, <3>3, <3>5
  <2> DEFINE v == f[x]
             b == sum[s \ {x}]
             c == squares[s \ {x}]
  <2>6. v \in 0..t /\ b \in Nat /\ c \in Nat /\ c <= t * b
    BY <2>5 DEF Fits
  <2> HIDE DEF v, b, c
  <2>7. v * v <= v * t /\ v * v \in Nat
    <3>1. v \in Nat /\ v \in Int /\ t \in Int /\ v <= t /\ 0 <= v
      BY <2>6
    <3>2. v * v <= v * t /\ v * v \in Int /\ v * 0 <= v * v
      BY <3>1, FactorKeeps
    <3> QED BY <3>1, <3>2
  <2>8. v * v + c <= t * (v + b) /\ v * v + c \in Nat /\ v + b \in Nat
    <3>1. t * (v + b) = v * t + t * b /\ v * t \in Int /\ t * b \in Int
      BY <2>6
    <3> QED BY <2>6, <2>7, <3>1
  <2>9. sum[s] = v + b /\ squares[s] = v * v + c
    BY <2>4 DEF v, b, c
  <2> QED BY <2>2, <2>8, <2>9 DEF Fits
<1>6. Fits(S)
  <2>1. Cardinality(S) \in Nat /\ S \in SUBSET S
    BY FS_CardinalityType
  <2> QED BY <1>5, <2>1
<1> QED BY <1>1, <1>6

\* Numbers from 0 to t vary by at most t / 2 (Popoviciu), so their disagreement is
\* below a maximum above t.
LEMMA CloseScoresAgree ==
  ASSUME NEW scores, IsScores(scores), DOMAIN scores # {}, NEW t \in Nat,
         NEW maximum \in Nat, t < maximum, \A d \in DOMAIN scores : scores[d] <= t
  PROVE  ~Disagrees(scores, maximum)
<1> DEFINE n == Cardinality(DOMAIN scores)
           S == SumOf(scores, DOMAIN scores)
           Q == SquaresOf(scores, DOMAIN scores)
<1>1. n \in Nat
  BY FS_CardinalityType DEF IsScores
<1>2. S \in Nat /\ Q \in Nat /\ Q <= t * S
  <2>1. \A d \in DOMAIN scores : scores[d] \in 0..t
    BY DEF IsScores
  <2>2. IsFiniteSet(DOMAIN scores)
    BY DEF IsScores
  <2> QED BY <2>1, <2>2, SumsCompare
<1>3. Disagrees(scores, maximum) =>
        \/ n > 1 /\ 4 * (n * Q - S * S) >= maximum * maximum * n * n
        \/ maximum = 0
  BY DEF Disagrees, SumOf, SquaresOf
<1> HIDE DEF n, S, Q
<1>4. ASSUME n > 1 PROVE 4 * (n * Q - S * S) < maximum * maximum * n * n
  <2> DEFINE k == n * t
             m == n * maximum
  <2>1. k \in Nat /\ m \in Nat /\ k < m
    <3>1. n * t <= n * (maximum - 1) /\ n * (maximum - 1) = n * maximum - n
      BY <1>1, FactorKeeps
    <3>2. n * t \in Nat /\ n * maximum \in Nat
      BY <1>1
    <3> QED BY <1>1, <1>4, <3>1, <3>2
  <2>2. n * Q <= k * S /\ n * Q \in Int /\ k * S \in Int
    <3>1. n * Q <= n * (t * S) /\ n * Q \in Int
      BY <1>1, <1>2, FactorKeeps
    <3>2. n * (t * S) = k * S
      BY <1>1, <1>2
    <3>3. k * S \in Int
      BY <1>2, <2>1
    <3> QED BY <3>1, <3>2, <3>3
  <2> HIDE DEF k
  <2>3. 4 * (k * S - S * S) <= k * k /\ S * S \in Int /\ k * k \in Int
    <3>1. \A z \in Int : z * z >= 0
      OBVIOUS
    <3>2. (k - 2 * S) * (k - 2 * S) >= 0
      BY <1>2, <2>1, <3>1
    <3>3. (k - 2 * S) * (k - 2 * S) = k * k - 4 * (k * S) + 4 * (S * S)
      BY <1>2, <2>1
    <3>4. S * S \in Int /\ k * k \in Int
      BY <1>2, <2>1
    <3> QED BY <2>2, <3>2, <3>3, <3>4
  <2> HIDE DEF m
  <2>4. k * k < m * m /\ m * m \in Int
    <3>1. k * k <= k * m /\ m * k <= m * (m - 1) /\ m * (m - 1) = m * m - m
      BY <2>1, FactorKeeps
    <3>2. k * m = m * k /\ m > 0 /\ m * m \in Int /\ k * k \in Int /\ m * k \in Int
      BY <2>1
    <3> QED BY <2>1, <3>1, <3>2
  <2>5. m * m = maximum * maximum * n * n
    BY <1>1 DEF m
  <2> QED BY <2>2, <2>3, <2>4, <2>5
<1>5. maximum # 0
  OBVIOUS
<1>6. 4 * (n * Q - S * S) \in Int /\ maximum * maximum * n * n \in Int
  BY <1>1, <1>2
<1> QED BY <1>3, <1>4, <1>5, <1>6

\* The second part of TroubleNeverHelps, for any assessments: a dimension more
\* never lowers the aggregate, nor does it turn another decision into PASS.
THEOREM AdverseFindingsStand == Spec => []AdverseNeverClears
<1>1. RouteInv => AdverseNeverClears
  <2> DEFINE scores == DimensionScores(assessment.paths)
  <2> SUFFICES ASSUME RouteInv, stage = "fused", NEW D \in (SUBSET DOMAIN scores) \ {{}}
               PROVE  LET fewer == [d \in D |-> scores[d]]
                      IN  /\ AggregateScore(fewer) <= AggregateScore(scores)
                          /\ FusedDecision(scores, TRUE) = "PASS" =>
                                FusedDecision(fewer, TRUE) = "PASS"
    BY DEF AdverseNeverClears
  <2> DEFINE few == Fewer(scores, D)
             total == AggregateScore(scores)
             less == AggregateScore(few)
  <2>1. IsScores(scores)
    BY ScoresOf DEF RouteInv
  <2> HIDE DEF scores
  <2>2. /\ IsScores(few) /\ DOMAIN few = D
        /\ \A d \in D : few[d] = scores[d]
    BY <2>1, FewerScores
  <2>3. /\ total \in Int /\ less \in Int /\ less <= total
        /\ \A d \in DOMAIN scores : scores[d] <= total
    BY <2>1, AggregateGrows
  <2> HIDE DEF few
  <2>4. ASSUME FusedDecision(scores, TRUE) = "PASS" PROVE FusedDecision(few, TRUE) = "PASS"
    <3> DEFINE review == DecisionPolicy.review
               flag == DecisionPolicy.flag
               maximum == DecisionPolicy.maximumDisagreement
    <3>1. review \in Nat /\ flag \in Nat /\ maximum \in Nat /\ review <= maximum
      BY DecisionPolicyAssumption, PassingScoresAgree
    <3> HIDE DEF review, flag, maximum
    <3>2. /\ total < flag /\ total < review
      <4> HIDE DEF total
      <4>1. ~(total >= flag) /\ ~(total >= review)
        BY <2>4 DEF FusedDecision, total, flag, review
      <4> QED BY <2>3, <3>1, <4>1
    <3>3. less # None
      BY <2>3, DecisionPolicyAssumption
    <3>4. ~Disagrees(few, maximum)
      <4>1. PICK d \in D : few[d] \in 0..100 /\ few[d] <= total
        BY <2>2, <2>3 DEF IsScores
      <4>2. total \in Nat /\ total < maximum
        BY <2>3, <3>1, <3>2, <4>1
      <4>3. \A e \in DOMAIN few : few[e] <= total
        BY <2>2, <2>3
      <4> HIDE DEF total
      <4> QED BY <2>2, <3>1, <4>2, <4>3, CloseScoresAgree
    <3>5. ~(less >= flag) /\ ~(less >= review)
      BY <2>3, <3>1, <3>2
    <3> QED BY <3>3, <3>4, <3>5 DEF FusedDecision, flag, review, maximum
  <2> QED BY <2>3, <2>4 DEF few, Fewer
<1> QED
  BY <1>1, RouteAlways, PTL

\* Together, TroubleNeverHelps for any assessments and assurance policies, and any
\* decision policy under which scores that pass agree.
THEOREM TroubleNeverPays == Spec => []TroubleNeverHelps
<1>1. RemovalNeverImproves /\ AdverseNeverClears /\ AgentIsNeverLaxer => TroubleNeverHelps
  BY DEF TroubleNeverHelps
<1> QED
  BY <1>1, RemovalNeverHelps, AdverseFindingsStand, AgentNeverLaxer, PTL
=============================================================================

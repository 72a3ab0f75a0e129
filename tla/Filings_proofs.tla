--------------------------- MODULE Filings_proofs ---------------------------
(***************************************************************************)
(* Theorems about the way of a filing: WorkerIsolation, in which its       *)
(* document is parsed; TableExtraction, which reads its tables;            *)
(* CompanyFacts, which selects from those of the SEC; and Assessment,      *)
(* which computes from them.                                               *)
(*                                                                         *)
(* The worker: IInv ties where the parent is to what it knows: an outcome  *)
(* is only under way where the code can have set it, and the parent is     *)
(* only past the polling loop with the facts it read there.                *)
(*                                                                         *)
(* The tables: what represents a group is one of its best candidates.      *)
(*                                                                         *)
(* The companyfacts: the order in which the code prefers entries, and then *)
(* slots, is strict and total, so there is a first.                        *)
(*                                                                         *)
(* The assessment: each fact is shown to be computed from nothing but what *)
(* is required as its proof (FactsStand), a lemma for each kind of fact;   *)
(* and differences of quotients vanish if they are equal crosswise.        *)
(***************************************************************************)
EXTENDS WorkerIsolation, TableExtraction, CompanyFacts, Assessment, WellFoundedInduction,
        FiniteSetTheorems, SequenceTheorems, TLAPS

(* The worker. *)

Polling == {"start", "deadline", "result", "alive", "recheck", "sleep"}

Terminating == {"term", "term_join", "kill", "kill_join", "killed"}

\* Before the finally block there is no outcome but a result that was read.
BodyInv ==
    /\ step \in Polling => outcome = "none" /\ routine = "main"
    /\ step \in {"join", "joined"} => outcome = "result" /\ routine = "main"
    /\ (step \in Terminating /\ routine = "main") => outcome = "result"
    /\ step = "recheck" => child # "alive"
    /\ child = "unborn" => file = "none"
    /\ step = "start" <=> (child = "unborn" /\ outcome = "none")

\* In it there is one, and the directory goes only after the child.
CleanupInv ==
    /\ step \in {"reclaim", "close", "return", "done"} => outcome # "none"
    /\ (step \in Terminating /\ routine = "reclaim") => outcome # "none"
    /\ step = "close" => child # "alive"
    /\ ~directory => child # "alive" /\ step \in {"return", "done"}
    /\ (step = "done" /\ directory) => outcome = "unreclaimed"

\* A cancellation is held until the call ends.
CancelInv ==
    /\ cancelled => outcome \in {"cancelled", "unreclaimed"} \/ interrupted
    /\ (step = "done" /\ cancelled) => outcome \in {"cancelled", "unreclaimed"}
    /\ outcome = "cancelled" => step \notin Polling \cup {"join", "joined"}

IInv == TypeOK /\ BodyInv /\ CleanupInv /\ CancelInv /\ OutcomeIsTruthful

\* IInv is inductive.
LEMMA Inductive ==
  /\ Init => IInv
  /\ IInv /\ [Next]_vars => IInv'
<1> USE DEF IInv, TypeOK, BodyInv, CleanupInv, CancelInv, OutcomeIsTruthful,
              Polling, Terminating, Published
<1>1. Init => IInv
  <2> SUFFICES ASSUME Init PROVE IInv
    OBVIOUS
  <2>2. TypeOK
    BY DEF Init
  <2>3. BodyInv
    BY DEF Init
  <2>4. CleanupInv
    BY DEF Init
  <2>5. CancelInv
    BY DEF Init
  <2>6. OutcomeIsTruthful
    BY DEF Init
  <2>7. QED
    BY <2>2, <2>3, <2>4, <2>5, <2>6
<1>2. IInv /\ [Next]_vars => IInv'
  <2> SUFFICES ASSUME IInv, [Next]_vars PROVE IInv'
    OBVIOUS
  <2>1. CASE Start
    BY <2>1 DEF Start
  <2>2. CASE StartFails
    BY <2>2 DEF StartFails, Leave
  <2>3. CASE CheckDeadline
    BY <2>3 DEF CheckDeadline, Leave, Goto
  <2>4. CASE CheckResult
    BY <2>4 DEF CheckResult, Leave, Goto
  <2>5. CASE CheckAlive
    BY <2>5 DEF CheckAlive, Goto
  <2>6. CASE Recheck
    BY <2>6 DEF Recheck, Leave, Goto
  <2>7. CASE WakeUp \/ Join \/ Terminate \/ TermJoin \/ KillJoin
    BY <2>7 DEF WakeUp, Join, Terminate, TermJoin, KillJoin, Goto
  <2>8. CASE Joined
    BY <2>8 DEF Joined, Leave, Goto
  <2>9. CASE Kill
    BY <2>9 DEF Kill, Terminated, Leave, Goto
  <2>10. CASE Killed
    BY <2>10 DEF Killed, Terminated, Leave, Goto
  <2>11. CASE Reclaim
    BY <2>11 DEF Reclaim
  <2>12. CASE Close
    BY <2>12 DEF Close
  <2>13. CASE Return
    BY <2>13 DEF Return
  <2>14. CASE CancelBody
    BY <2>14 DEF CancelBody
  <2>15. CASE CancelCleanup
    BY <2>15 DEF CancelCleanup, AwaitsCleanup
  <2>16. CASE Expire
    BY <2>16 DEF Expire, parent
  <2>17. CASE ChildWrites
    BY <2>17 DEF ChildWrites, parent
  <2>18. CASE ChildPublishes
    BY <2>18 DEF ChildPublishes, parent
  <2>19. CASE ChildExits
    BY <2>19 DEF ChildExits, parent
  <2>20. CASE UNCHANGED vars
    BY <2>20 DEF vars
  <2>21. QED
    BY <2>1, <2>2, <2>3, <2>4, <2>5, <2>6, <2>7, <2>8, <2>9, <2>10, <2>11, <2>12,
       <2>13, <2>14, <2>15, <2>16, <2>17, <2>18, <2>19, <2>20 DEF Next, ParentStep
<1>3. QED
  BY <1>1, <1>2

\* However child, clock and cancellations interleave: no worker outlives its call
\* unnoticed, the caller is told the truth, and no cancellation is swallowed.
THEOREM WorkerIsContained ==
  Spec => [](TypeOK /\ NoSilentOrphan /\ OutcomeIsTruthful /\ CancellationIsKept)
<1>1. IInv => TypeOK /\ NoSilentOrphan /\ OutcomeIsTruthful /\ CancellationIsKept
  BY DEF IInv, TypeOK, CleanupInv, CancelInv, NoSilentOrphan, CancellationIsKept
<1>2. QED
  BY <1>1, Inductive, PTL DEF Spec

\* The polling parent, the files and the signals implement the promise.
THEOREM PromiseIsKept == Spec => KeepsPromise
<1>1. Init => Promise!PromiseInit
  BY DEF Init, Promise!PromiseInit, Published
<1>2. IInv /\ IInv' /\ [Next]_vars => [Promise!PromiseNext]_(Promise!promiseVars)
  <2> SUFFICES ASSUME IInv, IInv', [Next]_vars
               PROVE  [Promise!PromiseNext]_(Promise!promiseVars)
    OBVIOUS
  <2> USE DEF IInv, TypeOK, BodyInv, CleanupInv, OutcomeIsTruthful, Polling,
              Terminating, Published, Promise!promiseVars, Promise!PromiseNext
  <2>1. CASE Start
    BY <2>1 DEF Start, Promise!ChildStarts
  <2>2. CASE Return
    BY <2>2 DEF Return, Promise!CallerIsTold, Promise!Truthful
  <2>3. CASE ChildPublishes
    BY <2>3 DEF ChildPublishes, parent, Promise!ChildLeavesResult
  <2>4. CASE ChildExits
    BY <2>4 DEF ChildExits, parent, Promise!ChildIsGone
  <2>5. CASE \/ StartFails \/ CheckDeadline \/ CheckResult \/ CheckAlive \/ Recheck
             \/ WakeUp \/ Join \/ Joined \/ Terminate \/ TermJoin \/ Kill \/ KillJoin
             \/ Killed \/ Reclaim \/ Close \/ CancelBody \/ CancelCleanup
    <3>1. step # "done" /\ step' # "done" /\ UNCHANGED file
      BY <2>5 DEF StartFails, CheckDeadline, CheckResult, CheckAlive, Recheck, WakeUp,
                  Join, Joined, Terminate, TermJoin, Kill, KillJoin, Killed, Reclaim,
                  Close, CancelBody, CancelCleanup, AwaitsCleanup, Terminated, Goto, Leave
    <3>2. UNCHANGED child
      BY <2>5 DEF StartFails, CheckDeadline, CheckResult, CheckAlive, Recheck, WakeUp,
                  Join, Joined, Terminate, TermJoin, Kill, KillJoin, Killed, Reclaim,
                  Close, CancelBody, CancelCleanup, Terminated, Goto, Leave
    <3>3. QED
      BY <3>1, <3>2
  <2>6. CASE Expire \/ ChildWrites \/ UNCHANGED vars
    BY <2>6 DEF Expire, ChildWrites, parent, vars
  <2>7. QED
    BY <2>1, <2>2, <2>3, <2>4, <2>5, <2>6 DEF Next, ParentStep
<1>3. QED
  BY <1>1, <1>2, Inductive, PTL DEF Spec, KeepsPromise, Promise!PromiseSpec

-----------------------------------------------------------------------------
(* The tables.                                                             *)

\* A set of numbers that is not empty has a first.
LEMMA FirstOf ==
  ASSUME NEW S, S \subseteq Nat, S # {}
  PROVE  \E i \in S : \A j \in S : i <= j
<1>1. \E i \in S : \A j \in S : ~(<< j, i >> \in OpToRel(<, Nat))
  BY WFMin, NatLessThanWellFounded
<1>2. PICK i \in S : \A j \in S : ~(<< j, i >> \in OpToRel(<, Nat))
  BY <1>1
<1>3. \A j \in S : ~(j < i)
  BY <1>2 DEF OpToRel
<1> QED
  BY <1>3

\* What one row may be taken for.
Candidate ==
    [item : {row.item : row \in Rows}, value : Int, year : Int,
     restated : BOOLEAN, known : BOOLEAN, traced : BOOLEAN]

\* The lesser of two numbers.
LEMMA Lesser ==
  ASSUME NEW m \in Nat, NEW n \in Nat
  PROVE  Min({m, n}) \in Nat /\ Min({m, n}) <= m /\ Min({m, n}) <= n
<1>1. CASE m <= n
  <2>1. \E x \in {m, n} : \A y \in {m, n} : x <= y
    BY <1>1
  <2> QED BY <2>1 DEF Min
<1>2. CASE n <= m
  <2>1. \E x \in {m, n} : \A y \in {m, n} : x <= y
    BY <1>2
  <2> QED BY <2>1 DEF Min
<1> QED
  BY <1>1, <1>2

\* What a row is taken for.
LEMMA CandidatesType ==
  ASSUME NEW row \in Rows, header \in Seq(Int)
  PROVE  Candidates(row) \in Seq(Candidate)
<1> DEFINE note == IF row.note # NoNote THEN << row.note >> ELSE << >>
           cells == [i \in DOMAIN row.cells |-> row.cells[i][2]]
           raws == Numbers(row)
           years == ColumnYears(raws)
           found == IF header = << >> THEN SubSeq(raws, 1, Min({1, Len(raws)}))
                    ELSE SubSeq(raws, Len(raws) - Len(years) + 1, Len(raws))
<1>1. note \in Seq(Int)
  BY TableAssumption
<1>2. cells \in Seq(Int)
  <2>1. row.cells \in Seq((Nat \ {0}) \X Int)
    BY TableAssumption
  <2>2. \A i \in DOMAIN row.cells : row.cells[i] \in (Nat \ {0}) \X Int
    BY <2>1
  <2>3. \A i \in DOMAIN row.cells : row.cells[i][2] \in Int
    BY <2>2
  <2>4. DOMAIN row.cells = 1 .. Len(row.cells) /\ Len(row.cells) \in Nat
    BY <2>1
  <2> HIDE TableAssumption
  <2> QED BY <2>3, <2>4
<1>3. raws \in Seq(Int)
  BY <1>1, <1>2 DEF Numbers
<1> HIDE DEF raws
<1>4. /\ years \in Seq(Int) /\ Len(years) <= Len(raws)
  <2> DEFINE n == Min({Len(raws), Len(header)})
  <2>0. Len(raws) \in Nat /\ Len(header) \in Nat
    BY <1>3
  <2>1. n \in Nat /\ n <= Len(raws) /\ n <= Len(header)
    BY <2>0, Lesser
  <2> HIDE DEF n
  <2>2. \A i \in 1 .. n : header[i] \in Int
    BY <2>1
  <2>3. SubSeq(header, 1, n) \in Seq(Int) /\ Len(SubSeq(header, 1, n)) = n
    BY <2>1, <2>2, SubSeqProperties
  <2> QED BY <2>1, <2>3 DEF ColumnYears, n
<1> HIDE DEF years
<1>5. found \in Seq(Int) /\ (header # << >> => Len(found) = Len(years))
  <2>1. \A m, n \in Int : 1 <= m /\ n <= Len(raws) => \A i \in m .. n : raws[i] \in Int
    BY <1>3
  <2>2. CASE header = << >>
    <3> DEFINE n == Min({1, Len(raws)})
    <3>1. Len(raws) \in Nat
      BY <1>3
    <3>2. n \in Nat /\ n <= Len(raws)
      BY <3>1, Lesser
    <3> HIDE DEF n
    <3>3. \A i \in 1 .. n : raws[i] \in Int
      BY <2>1, <3>1, <3>2
    <3>4. SubSeq(raws, 1, n) \in Seq(Int)
      BY <3>2, <3>3, SubSeqProperties
    <3> QED BY <2>2, <3>4 DEF n
  <2>3. CASE header # << >>
    <3>1. Len(raws) \in Nat /\ Len(years) \in Nat
      BY <1>3, <1>4
    <3> DEFINE m == Len(raws) - Len(years) + 1
               n == Len(raws)
    <3>2. m \in Int /\ n \in Int /\ 1 <= m /\ n - m + 1 = Len(years) /\ m <= n + 1
      BY <3>1, <1>4
    <3> HIDE DEF m
    <3>3. SubSeq(raws, m, n) \in Seq(Int)
          /\ Len(SubSeq(raws, m, n)) = IF m <= n THEN n - m + 1 ELSE 0
      BY <2>1, <3>2, SubSeqProperties
    <3> QED BY <2>3, <3>2, <3>3 DEF m
  <2> QED BY <2>2, <2>3
<1> HIDE DEF found
<1>6. Candidates(row) = [i \in DOMAIN found |->
            [item |-> row.item, value |-> found[i],
             year |-> IF header = << >> THEN Year ELSE years[i],
             restated |-> row.restated, known |-> row.known, traced |-> row.traced]]
  BY DEF Candidates, found, years, raws
<1>7. \A i \in DOMAIN found : Candidates(row)[i] \in Candidate
  <2> SUFFICES ASSUME NEW i \in DOMAIN found
               PROVE  Candidates(row)[i] \in Candidate
    OBVIOUS
  <2>1. found[i] \in Int
    BY <1>5
  <2>2. (IF header = << >> THEN Year ELSE years[i]) \in Int
    BY <1>4, <1>5, TableAssumption
  <2>3. row.restated \in BOOLEAN /\ row.known \in BOOLEAN /\ row.traced \in BOOLEAN
    BY TableAssumption
  <2> QED
    BY <1>6, <2>1, <2>2, <2>3 DEF Candidate
<1>8. DOMAIN found = 1 .. Len(found) /\ Len(found) \in Nat
  BY <1>5
<1> QED
  BY <1>6, <1>7, <1>8

\* Candidates of known types, in an order.
ReadingInv == header \in Seq(Int) /\ extracted \in Seq(Candidate)

\* The candidate that stands for its group, if any of the best can be parsed.
LEMMA SelectedIsTop ==
  ASSUME ReadingInv, NEW item, NEW year, Usable(Group(item, year)) # {}
  PROVE  \E i \in TopRanked(Group(item, year)) :
            Selected(Group(item, year)) = extracted[i] /\ extracted[i].value # Garbled
<1> DEFINE parsed == Parsed(Group(item, year))
<1>1. parsed \subseteq Nat /\ parsed # {}
  <2>1. DOMAIN extracted \subseteq Nat
    BY DEF ReadingInv
  <2> QED BY <2>1 DEF Parsed, TopRanked, Group, Usable
<1>2. \E i \in parsed : \A j \in parsed : i <= j
  BY <1>1, FirstOf
<1>3. PICK i \in parsed : Selected(Group(item, year)) = extracted[i]
  BY <1>2 DEF Selected
<1> QED
  BY <1>3 DEF Parsed

\* ReviewIsAsked, of an answer.
Reviewed(answer) ==
    answer \notin {<< >>, Refused} /\ ~answer[1].reviewRequired =>
        \A k \in DOMAIN answer[1].values :
            \E c \in ToSet(extracted) :
                /\ << c.item, c.year >> = k /\ c = answer[1].values[k]
                /\ c.known /\ c.traced
                /\ ~ \E d \in ToSet(extracted) :
                        /\ << d.item, d.year >> = k /\ d.known
                        /\ d.restated \/ ~c.restated
                        /\ d.value \notin {c.value, Garbled}

\* What ingest_pdf answers needs no review, or says that it does.
LEMMA IngestedIsReviewed == ReadingInv => Reviewed(Ingested)
<1> DEFINE keys == {q \in {<< c.item, c.year >> : c \in ToSet(extracted)} :
                       q[2] \in {Year} \cup PriorYears}
           usable == [q \in keys |-> Usable(Group(q[1], q[2]))]
           taken == {q \in keys : \E value \in usable[q] : usable[q] = {value}}
           issues == {q \in keys : \E value, other \in usable[q] : value # other}
           values == [q \in taken |-> Selected(Group(q[1], q[2]))]
           answer == [values |-> values,
                      verified |-> {q \in taken : Reconciled(values[q])},
                      issues |-> issues,
                      reviewRequired |-> issues # {} \/ \E q \in taken : ~Reconciled(values[q])]
<1> SUFFICES ASSUME ReadingInv, Ingested # Refused, ~Ingested[1].reviewRequired,
                    NEW k \in DOMAIN Ingested[1].values
             PROVE  \E c \in ToSet(extracted) :
                        /\ << c.item, c.year >> = k /\ c = Ingested[1].values[k]
                        /\ c.known /\ c.traced
                        /\ ~ \E d \in ToSet(extracted) :
                                /\ << d.item, d.year >> = k /\ d.known
                                /\ d.restated \/ ~c.restated
                                /\ d.value \notin {c.value, Garbled}
  BY DEF Reviewed
<1>1. Ingested = << answer >>
  BY DEF Ingested
<1>2. Ingested[1].values = values
  BY <1>1
<1>3. k \in taken
  BY <1>2
<1>4. Reconciled(values[k])
  <2>1. answer.reviewRequired = (issues # {} \/ \E q \in taken : ~Reconciled(values[q]))
    BY Zenon
  <2> HIDE DEF answer, issues, taken, values
  <2>2. ~answer.reviewRequired
    BY <1>1
  <2>3. ~(issues # {} \/ \E q \in taken : ~Reconciled(values[q]))
    BY <2>1, <2>2, Zenon
  <2> QED BY <1>3, <2>3
<1> DEFINE group == Group(k[1], k[2])
           c == values[k]
<1>5. c = Selected(group)
  BY <1>3
<1>6. k = << k[1], k[2] >>
  BY <1>3
<1>7. PICK value : Usable(group) = {value}
  BY <1>3
<1> HIDE DEF values, taken, keys, answer, usable, issues
<1>8. PICK i \in TopRanked(group) : c = extracted[i] /\ extracted[i].value # Garbled
  BY <1>5, <1>7, SelectedIsTop
<1>9. i \in DOMAIN extracted /\ c.item = k[1] /\ c.year = k[2] /\ c.value = value
  BY <1>7, <1>8 DEF TopRanked, Group, Usable, Parsed
<1>10. c \in ToSet(extracted) /\ c.known /\ c.traced
  BY <1>4, <1>8, <1>9 DEF ToSet, Reconciled
<1>11. ASSUME NEW d \in ToSet(extracted), << d.item, d.year >> = k, d.known,
              d.restated \/ ~c.restated
       PROVE  d.value \in {c.value, Garbled}
  <2>1. PICK j \in DOMAIN extracted : d = extracted[j]
    BY DEF ToSet
  <2>2. j \in group
    BY <2>1, <1>6, <1>11 DEF Group
  <2>3. Rank(c) <= Rank(d)
    BY <1>10, <1>11 DEF Rank
  <2>4. \A n \in group : Rank(extracted[n]) <= Rank(c)
    BY <1>8 DEF TopRanked
  <2>5. \A x : Rank(x) \in Int
    BY DEF Rank
  <2>6. j \in TopRanked(group)
    BY <2>1, <2>2, <2>3, <2>4, <2>5 DEF TopRanked
  <2>7. d.value # Garbled => d.value \in Usable(group)
    BY <2>1, <2>6 DEF Usable, Parsed
  <2> QED
    BY <2>7, <1>7, <1>9
<1> QED
  BY <1>2, <1>6, <1>9, <1>10, <1>11

\* ReviewIsAsked: a filing that ingest_pdf hands on without a review has nothing
\* to review, whatever the rows and the headers of its tables.
THEOREM ReviewIsAlwaysAsked == TableSpec => []ReviewIsAsked
<1> DEFINE Inv == ReadingInv /\ ReviewIsAsked
<1>1. TableInit => Inv
  BY TableAssumption DEF TableInit, ReadingInv, ReviewIsAsked, Answered
<1>2. Inv /\ [TableNext]_tableVars => Inv'
  <2> SUFFICES ASSUME ReadingInv, ReviewIsAsked, [TableNext]_tableVars
               PROVE  Inv'
    OBVIOUS
  <2>1. CASE Ingest
    <3>1. ReadingInv'
      BY <2>1 DEF Ingest, ReadingInv
    <3>2. Reviewed(Ingested) /\ ingested' = Ingested /\ extracted' = extracted
      BY <2>1, IngestedIsReviewed DEF Ingest
    <3>3. ReviewIsAsked'
      BY <3>2 DEF Reviewed, ReviewIsAsked, Answered, Taken
    <3> QED BY <3>1, <3>3
  <2>2. ASSUME NEW row \in Rows, ReadRow(row)
        PROVE  Inv'
    <3>1. Candidates(row) \in Seq(Candidate)
      BY CandidatesType DEF ReadingInv
    <3>2. ReadingInv'
      BY <2>2, <3>1 DEF ReadRow, ReadingInv
    <3>3. ReviewIsAsked'
      BY <2>2 DEF ReadRow, ReviewIsAsked, Answered
    <3> QED BY <3>2, <3>3
  <2>3. CASE UNCHANGED tableVars
    BY <2>3 DEF tableVars, ReadingInv, ReviewIsAsked, Answered, Taken
  <2> QED
    BY <2>1, <2>2, <2>3 DEF TableNext
<1>3. Inv => ReviewIsAsked
  OBVIOUS
<1> QED
  BY <1>1, <1>2, <1>3, PTL DEF TableSpec

-----------------------------------------------------------------------------
(* The selection of companyfacts.                                          *)

\* R orders F, strictly and in full.
Orders(R, F) ==
    /\ \A s \in F : << s, s >> \notin R
    /\ \A s, t \in F : s # t => << s, t >> \in R \/ << t, s >> \in R
    /\ \A s, t, u \in F : << s, t >> \in R /\ << t, u >> \in R => << s, u >> \in R

\* A finite set that is ordered has a first: the one with fewest before it.
LEMMA FirstInOrder ==
  ASSUME NEW F, IsFiniteSet(F), F # {}, NEW R, Orders(R, F)
  PROVE  \E s \in F : \A t \in F \ {s} : << s, t >> \in R
<1> DEFINE B(s) == {t \in F : << t, s >> \in R}
           C == {Cardinality(B(s)) : s \in F}
<1>1. \A s \in F : IsFiniteSet(B(s)) /\ Cardinality(B(s)) \in Nat
  BY FS_Subset, FS_CardinalityType
<1>2. PICK s \in F : \A t \in F : Cardinality(B(s)) <= Cardinality(B(t))
  <2>1. C \subseteq Nat /\ C # {}
    BY <1>1
  <2>2. \E x \in C : \A y \in C : x <= y
    BY <2>1, FirstOf
  <2> QED BY <2>2
<1>3. ASSUME NEW t \in F \ {s} PROVE << s, t >> \in R
  <2> SUFFICES ASSUME << t, s >> \in R PROVE FALSE
    BY DEF Orders
  <2>1. B(t) \subseteq B(s) /\ t \in B(s) /\ t \notin B(t)
    BY DEF Orders
  <2>2. /\ Cardinality(B(t)) <= Cardinality(B(s))
        /\ Cardinality(B(s)) = Cardinality(B(t)) => B(s) = B(t)
    <3>1. IsFiniteSet(B(s)) /\ B(t) \in SUBSET B(s)
      BY <2>1, <1>1
    <3> HIDE DEF B
    <3> QED BY <3>1, FS_Subset
  <2>3. Cardinality(B(s)) <= Cardinality(B(t))
    BY <1>2
  <2>4. Cardinality(B(t)) = Cardinality(B(s))
    <3>1. Cardinality(B(t)) \in Nat /\ Cardinality(B(s)) \in Nat
      BY <1>1
    <3> HIDE DEF B
    <3> QED BY <2>2, <2>3, <3>1
  <2> QED BY <2>1, <2>2, <2>4
<1> QED
  BY <1>3

\* An entry as a filing leaves it in the payload.
Stamped(r, e) ==
    [tag |-> e.tag, unit |-> e.unit, fy |-> e.fy, end |-> e.end, annual |-> e.annual,
     val |-> e.val, accn |-> r.accn, filed |-> r.filed]
Stamps == UNION {{Stamped(r, e) : e \in ToSet(r.entries)} : r \in Reports}

\* A payload: entries of filings, each filed on one day.
Payload(entries) ==
    /\ entries \in Seq(Stamps)
    /\ \A i, j \in DOMAIN entries :
          entries[i].accn = entries[j].accn => entries[i].filed = entries[j].filed

\* What an entry is.
LEMMA StampsType ==
  ASSUME NEW e \in Stamps
  PROVE  e.filed \in Int /\ e.accn \in Int /\ e.val \in Int /\ e.unit \in ToSet(Units)
<1>1. PICK r \in Reports : \E d \in ToSet(r.entries) : e = Stamped(r, d)
  BY DEF Stamps
<1>2. PICK d \in ToSet(r.entries) : e = Stamped(r, d)
  BY <1>1
<1>3. r.accn \in Int /\ r.filed \in Int /\ d.unit \in ToSet(Units) /\ d.val \in Int
  BY ReportAssumption
<1> QED
  BY <1>2, <1>3 DEF Stamped

\* Its places, and the entries in them.
LEMMA PayloadType ==
  ASSUME NEW entries, Payload(entries)
  PROVE  /\ DOMAIN entries \subseteq Nat /\ IsFiniteSet(DOMAIN entries)
         /\ \A i \in DOMAIN entries :
               /\ entries[i].filed \in Int /\ entries[i].accn \in Int
               /\ entries[i].val \in Int /\ entries[i].unit \in ToSet(Units)
<1>1. DOMAIN entries = 1 .. Len(entries) /\ Len(entries) \in Nat
  BY DEF Payload
<1>2. IsFiniteSet(DOMAIN entries)
  BY <1>1, FS_Interval
<1>3. \A i \in DOMAIN entries : entries[i] \in Stamps
  BY DEF Payload
<1> QED
  BY <1>1, <1>2, <1>3, StampsType

\* The last one filed, of some candidates.
LEMMA LastFiledIs ==
  ASSUME NEW entries, Payload(entries), NEW C, C \subseteq DOMAIN entries, C # {}
  PROVE  \E i \in C : /\ LastFiled(entries, C) = entries[i]
                      /\ \A j \in C : ~Later(entries[j], entries[i])
<1> DEFINE after(i, j) == \/ Later(entries[i], entries[j])
                          \/ ~Later(entries[j], entries[i]) /\ j < i
           R == {p \in C \X C : after(p[1], p[2])}
<1>1. \A i \in C : i \in Nat /\ entries[i].filed \in Int /\ entries[i].accn \in Int
  BY PayloadType
<1>2. IsFiniteSet(C)
  BY PayloadType, FS_Subset
<1>3. \A i, j \in C : << i, j >> \in R <=> after(i, j)
  OBVIOUS
<1>4. \A i \in C : ~after(i, i)
  BY <1>1 DEF Later
<1>5. \A i, j \in C : i # j => after(i, j) \/ after(j, i)
  BY <1>1 DEF Later
<1>6. \A i, j, k \in C : after(i, j) /\ after(j, k) => after(i, k)
  BY <1>1 DEF Later
<1> HIDE DEF R
<1>7. Orders(R, C)
  <2> HIDE DEF after
  <2> QED BY <1>3, <1>4, <1>5, <1>6 DEF Orders
<1>8. \E i \in C : \A j \in C \ {i} : << i, j >> \in R
  BY <1>2, <1>7, FirstInOrder
<1>9. \E i \in C : \A j \in C \ {i} : after(i, j)
  BY <1>3, <1>8
<1>10. PICK i \in C : LastFiled(entries, C) = entries[i] /\ \A j \in C \ {i} : after(i, j)
  BY <1>9 DEF LastFiled
<1>11. \A j \in C : ~Later(entries[j], entries[i])
  BY <1>1, <1>10 DEF Later
<1> QED
  BY <1>10, <1>11

\* The slots of a line item that have candidates.
Filled(entries, item, year) == {s \in Slots(item) : InSlot(entries, item, year, s) # {}}

\* What stands for a slot.
LEMMA LatestIs ==
  ASSUME NEW entries, Payload(entries), NEW item, NEW year, NEW s \in Filled(entries, item, year)
  PROVE  \E i \in InSlot(entries, item, year, s) :
            /\ LatestIn(entries, item, year, s) = entries[i] /\ i \in DOMAIN entries
            /\ \A j \in InSlot(entries, item, year, s) : ~Later(entries[j], entries[i])
<1>1. InSlot(entries, item, year, s) \subseteq DOMAIN entries
  BY DEF InSlot, AnnualCandidates
<1>2. InSlot(entries, item, year, s) # {}
  BY DEF Filled
<1> QED
  BY <1>1, <1>2, LastFiledIs DEF LatestIn

\* The best slot is one that has candidates, and nothing beats it.
LEMMA BestSlotIs ==
  ASSUME NEW entries, Payload(entries), NEW item \in Items, NEW year,
         Filled(entries, item, year) # {}
  PROVE  /\ BestSlot(entries, item, year) \in Filled(entries, item, year)
         /\ \A t \in Filled(entries, item, year) :
               ~Beats(LatestIn(entries, item, year, t),
                      LatestIn(entries, item, year, BestSlot(entries, item, year)))
<1> DEFINE F == Filled(entries, item, year)
           of(s) == LatestIn(entries, item, year, s)
           first(s, t) == Beats(of(s), of(t)) \/ (~Beats(of(t), of(s)) /\ Before(s, t))
           R == {p \in F \X F : first(p[1], p[2])}
<1>1. \A s \in F : of(s).filed \in Int /\ of(s).accn \in Int
  BY LatestIs, PayloadType
<1>2. /\ \A s \in F : s = << s[1], s[2] >> /\ s[1] \in Nat /\ s[2] \in Nat
      /\ IsFiniteSet(F)
  <2>1. /\ Tags[item] \in Seq(ToSet(Tags[item])) /\ Units \in Seq(ToSet(Units))
    BY ConceptAssumption DEF Items
  <2>2. /\ DOMAIN Tags[item] = 1 .. Len(Tags[item]) /\ Len(Tags[item]) \in Nat
        /\ DOMAIN Units = 1 .. Len(Units) /\ Len(Units) \in Nat
    BY <2>1
  <2>3. IsFiniteSet(DOMAIN Tags[item]) /\ IsFiniteSet(DOMAIN Units)
    BY <2>2, FS_Interval
  <2>4. IsFiniteSet(Slots(item))
    BY <2>3, FS_Product DEF Slots
  <2>5. F \in SUBSET Slots(item)
    BY DEF Filled
  <2>6. IsFiniteSet(F)
    BY <2>4, <2>5, FS_Subset
  <2> QED BY <2>2, <2>5, <2>6 DEF Slots
<1>3. \A s, t \in F : << s, t >> \in R <=> first(s, t)
  OBVIOUS
<1> HIDE DEF F, of, R
<1>4. \A s \in F : ~first(s, s)
  BY <1>1, <1>2 DEF Beats, Later, Before
<1>5. \A s, t \in F : s # t => first(s, t) \/ first(t, s)
  BY <1>1, <1>2 DEF Beats, Later, Before
<1>6. \A s, t, u \in F : first(s, t) /\ first(t, u) => first(s, u)
  BY <1>1, <1>2 DEF Beats, Later, Before
<1>7. Orders(R, F)
  <2> HIDE DEF first
  <2> QED BY <1>3, <1>4, <1>5, <1>6 DEF Orders
<1>8. F # {}
  BY DEF F
<1>9. \E s \in F : \A t \in F \ {s} : << s, t >> \in R
  BY <1>2, <1>7, <1>8, FirstInOrder
<1>10. \E s \in F : \A t \in F \ {s} : first(s, t)
  BY <1>3, <1>9
<1>11. BestSlot(entries, item, year) = CHOOSE s \in F : \A t \in F \ {s} : first(s, t)
  BY DEF BestSlot, F, of, Filled
<1> HIDE DEF first
<1>12. PICK s \in F : BestSlot(entries, item, year) = s /\ \A t \in F \ {s} : first(s, t)
  BY <1>10, <1>11
<1>13. \A t \in F : ~Beats(of(t), of(s))
  BY <1>1, <1>12 DEF first, Beats, Later
<1> QED
  BY <1>12, <1>13 DEF F, of

\* A fact of one line item: the entry at place i, of slot s.
TakenFrom(fact, entries, item, year, s, i) ==
    /\ s \in Slots(item) /\ i \in DOMAIN entries /\ i \in InSlot(entries, item, year, s)
    /\ fact.items = {item} /\ fact.tags = {entries[i].tag} /\ fact.year = year
    /\ fact.value = entries[i].val /\ fact.accn = entries[i].accn
    /\ fact.filed = entries[i].filed /\ fact.end = entries[i].end
    /\ fact.unit = entries[i].unit
    /\ (\E k, l \in InSlot(entries, item, year, s) : entries[k].val # entries[l].val) =>
          fact.restated

\* Where a fact is from, and that no other candidate goes before it.
LEMMA SelectedIs ==
  ASSUME NEW entries, Payload(entries), NEW item \in Items, NEW year,
         SelectedFact(entries, item, year) # NoFact
  PROVE  \E s \in Slots(item) : \E i \in DOMAIN entries :
            /\ TakenFrom(SelectedFact(entries, item, year), entries, item, year, s, i)
            /\ \A t \in Slots(item) : \A j \in InSlot(entries, item, year, t) :
                  /\ entries[j].unit = USD => entries[i].unit = USD
                  /\ entries[j].unit = USD \/ entries[i].unit # USD =>
                        ~Later(entries[j], entries[i])
<1> DEFINE fact == SelectedFact(entries, item, year)
           s == BestSlot(entries, item, year)
           entry == LatestIn(entries, item, year, s)
           restated == \E k, l \in InSlot(entries, item, year, s) : entries[k].val # entries[l].val
           record == [items |-> {item}, tags |-> {entry.tag}, year |-> year,
                      value |-> entry.val, accn |-> entry.accn, filed |-> entry.filed,
                      end |-> entry.end, unit |-> entry.unit, restated |-> restated]
<1>1. Filled(entries, item, year) # {}
  BY DEF SelectedFact, Filled
<1>2. fact = record
  BY Zenon DEF SelectedFact
<1>3. /\ s \in Filled(entries, item, year)
      /\ \A t \in Filled(entries, item, year) : ~Beats(LatestIn(entries, item, year, t), entry)
  BY <1>1, BestSlotIs
<1>4. PICK i \in InSlot(entries, item, year, s) : entry = entries[i] /\ i \in DOMAIN entries
  BY <1>3, LatestIs
<1>5. fact.restated = restated
  <2>1. record.restated = restated
    BY Zenon
  <2> HIDE DEF record, fact, restated
  <2> QED BY <1>2, <2>1
<1>6. /\ fact.items = {item} /\ fact.tags = {entry.tag} /\ fact.year = year
      /\ fact.value = entry.val /\ fact.accn = entry.accn
      /\ fact.filed = entry.filed /\ fact.end = entry.end /\ fact.unit = entry.unit
  <2> HIDE DEF restated, fact, entry
  <2> QED BY <1>2
<1> HIDE DEF fact, entry, s
<1>7. s \in Slots(item)
  BY <1>3 DEF Filled
<1>8. TakenFrom(fact, entries, item, year, s, i)
  BY <1>4, <1>5, <1>6, <1>7 DEF TakenFrom
<1>9. ASSUME NEW t \in Slots(item), NEW j \in InSlot(entries, item, year, t)
      PROVE  /\ entries[j].unit = USD => entries[i].unit = USD
             /\ entries[j].unit = USD \/ entries[i].unit # USD =>
                   ~Later(entries[j], entries[i])
  <2>1. t \in Filled(entries, item, year)
    BY DEF Filled
  <2>2. PICK k \in InSlot(entries, item, year, t) :
            /\ LatestIn(entries, item, year, t) = entries[k] /\ k \in DOMAIN entries
            /\ ~Later(entries[j], entries[k])
    BY <2>1, LatestIs
  <2>3. ~Beats(entries[k], entries[i])
    BY <1>3, <1>4, <2>1, <2>2
  <2>4. entries[j].unit = entries[k].unit /\ j \in DOMAIN entries
    BY <2>2 DEF InSlot, AnnualCandidates
  <2>5. /\ entries[i].filed \in Int /\ entries[i].accn \in Int
        /\ entries[j].filed \in Int /\ entries[j].accn \in Int
        /\ entries[k].filed \in Int /\ entries[k].accn \in Int
    BY <1>4, <2>2, <2>4, PayloadType
  <2> QED
    BY <2>2, <2>3, <2>4, <2>5 DEF Beats, Later
<1> QED
  BY <1>4, <1>7, <1>8, <1>9 DEF fact

\* So it is the newest of its line item.
LEMMA SelectedIsNewest ==
  ASSUME NEW entries, Payload(entries), NEW item \in Items, NEW year,
         SelectedFact(entries, item, year) # NoFact
  PROVE  Newest(SelectedFact(entries, item, year), entries)
<1> DEFINE fact == SelectedFact(entries, item, year)
<1>1. PICK s \in Slots(item), i \in DOMAIN entries :
            /\ TakenFrom(fact, entries, item, year, s, i)
            /\ \A t \in Slots(item) : \A j \in InSlot(entries, item, year, t) :
                  /\ entries[j].unit = USD => entries[i].unit = USD
                  /\ entries[j].unit = USD \/ entries[i].unit # USD =>
                        ~Later(entries[j], entries[i])
  BY SelectedIs
<1>2. /\ fact.items = {item} /\ fact.year = year /\ fact.unit = entries[i].unit
      /\ fact.filed = entries[i].filed /\ fact.accn = entries[i].accn
  BY <1>1 DEF TakenFrom
<1> HIDE DEF fact
<1>3. \E e \in Annual(entries, item, year) :
         e.accn = fact.accn /\ e.filed = fact.filed /\ e.unit = fact.unit
  <2>1. i \in InSlot(entries, item, year, s)
    BY <1>1 DEF TakenFrom
  <2>2. s[1] \in DOMAIN Tags[item]
    BY DEF Slots
  <2>3. entries[i] \in Annual(entries, item, year)
    BY <2>1, <2>2 DEF InSlot, AnnualCandidates, Annual, ToSet
  <2> QED BY <1>2, <2>3
<1>4. ASSUME NEW e \in Annual(entries, item, year)
      PROVE  /\ e.unit = USD => fact.unit = USD
             /\ e.unit = USD \/ fact.unit # USD => ~Later(e, fact)
  <2>1. PICK j \in DOMAIN entries : e = entries[j]
    BY DEF Annual, ToSet
  <2>2. PICK a \in DOMAIN Tags[item] : e.tag = Tags[item][a]
    BY DEF Annual, ToSet
  <2>3. e.unit \in ToSet(Units)
    BY <2>1, PayloadType
  <2>4. PICK b \in DOMAIN Units : e.unit = Units[b]
    BY <2>3 DEF ToSet
  <2> DEFINE t == << a, b >>
  <2>5. t \in Slots(item) /\ t[1] = a /\ t[2] = b
    BY DEF Slots
  <2> HIDE DEF t
  <2>6. j \in InSlot(entries, item, year, t)
    BY <2>1, <2>2, <2>4, <2>5 DEF InSlot, AnnualCandidates, Annual
  <2>7. /\ e.unit = USD => entries[i].unit = USD
        /\ e.unit = USD \/ entries[i].unit # USD => ~Later(e, entries[i])
    BY <1>1, <2>1, <2>5, <2>6
  <2> QED
    BY <1>2, <2>7 DEF Later
<1> QED
  BY <1>2, <1>3, <1>4 DEF Newest, fact

\* The later payload begins with the earlier one.
Extends(after, before) ==
    \A i \in DOMAIN before : i \in DOMAIN after /\ after[i] = before[i]

\* Under one concept and in one unit, another value is a restated one.
LEMMA ChangeIsRestated ==
  ASSUME NEW before, NEW after, Payload(before), Payload(after), Extends(after, before),
         NEW item \in Items, NEW year,
         SelectedFact(before, item, year) # NoFact, SelectedFact(after, item, year) # NoFact,
         SelectedFact(before, item, year).tags = SelectedFact(after, item, year).tags,
         SelectedFact(before, item, year).unit = SelectedFact(after, item, year).unit,
         SelectedFact(before, item, year).value # SelectedFact(after, item, year).value
  PROVE  SelectedFact(after, item, year).restated
<1> DEFINE f == SelectedFact(before, item, year)
           g == SelectedFact(after, item, year)
<1>1. PICK s \in Slots(item), i \in DOMAIN before : TakenFrom(f, before, item, year, s, i)
  BY SelectedIs
<1>2. PICK t \in Slots(item), j \in DOMAIN after : TakenFrom(g, after, item, year, t, j)
  BY SelectedIs
<1>3. before[i].tag = after[j].tag /\ before[i].unit = after[j].unit /\ before[i].val # after[j].val
  <2> HIDE DEF f, g
  <2>1. f.tags = g.tags /\ f.unit = g.unit /\ f.value # g.value
    BY DEF f, g
  <2>2. {before[i].tag} = {after[j].tag}
    BY <2>1, <1>1, <1>2 DEF TakenFrom
  <2> QED BY <2>1, <2>2, <1>1, <1>2 DEF TakenFrom
<1>4. i \in DOMAIN after /\ after[i] = before[i]
  BY DEF Extends
<1>5. j \in InSlot(after, item, year, t)
  BY <1>2 DEF TakenFrom
<1>6. i \in InSlot(before, item, year, s)
  BY <1>1 DEF TakenFrom
<1>7. i \in InSlot(after, item, year, t)
  BY <1>3, <1>4, <1>5, <1>6 DEF InSlot, AnnualCandidates
<1>8. \E k, l \in InSlot(after, item, year, t) : after[k].val # after[l].val
  BY <1>3, <1>4, <1>5, <1>7
<1> HIDE DEF g
<1>9. g.restated
  BY <1>2, <1>8 DEF TakenFrom
<1> QED
  BY <1>9 DEF g

\* The parts of a sum of debts.
Parted(fact, entries, year, c, n) ==
    /\ c = SelectedFact(entries, "short_term_debt", year) /\ c # NoFact
    /\ n = SelectedFact(entries, "long_term_debt", year) /\ n # NoFact
    /\ c.accn = n.accn /\ c.end = n.end /\ c.unit = n.unit
    /\ fact.items = DebtParts /\ fact.tags = c.tags \cup n.tags
    /\ fact.year = year /\ fact.value = c.value + n.value
    /\ fact.accn = c.accn /\ fact.filed = Max({c.filed, n.filed})
    /\ fact.unit = c.unit
    /\ c.restated \/ n.restated => fact.restated

\* A fact is one that was selected, or a sum.
LEMMA FactsAre ==
  ASSUME NEW entries, Payload(entries), NEW fact \in Facts(entries)
  PROVE  \E year :
            \/ \E item \in Items : fact = SelectedFact(entries, item, year) /\ fact # NoFact
            \/ \E c, n : Parted(fact, entries, year, c, n)
<1>1. /\ fact # NoFact
      /\ \/ \E item \in Items : \E year : fact = SelectedFact(entries, item, year)
         \/ \E year : fact = TotalDebt(entries, year)
  BY DEF Facts
<1>2. CASE \E item \in Items : \E year : fact = SelectedFact(entries, item, year)
  BY <1>1, <1>2
<1>3. ASSUME NEW year, fact = TotalDebt(entries, year)
      PROVE  \/ \E item \in Items : fact = SelectedFact(entries, item, year) /\ fact # NoFact
             \/ \E c, n : Parted(fact, entries, year, c, n)
  <2> DEFINE total == SelectedFact(entries, "total_debt", year)
             c == SelectedFact(entries, "short_term_debt", year)
             n == SelectedFact(entries, "long_term_debt", year)
             sum == [c EXCEPT !.items = DebtParts, !.tags = c.tags \cup n.tags,
                              !.value = c.value + n.value, !.filed = Max({c.filed, n.filed}),
                              !.restated = c.restated \/ n.restated]
  <2>1. {"total_debt", "short_term_debt", "long_term_debt"} \subseteq Items
    BY ConceptAssumption DEF Items, DebtParts
  <2>2. CASE total # NoFact
    <3>1. fact = total
      BY <1>3, <2>2 DEF TotalDebt
    <3> QED BY <1>1, <2>1, <3>1
  <2>3. CASE total = NoFact
    <3>1. /\ c # NoFact /\ n # NoFact /\ c.accn = n.accn /\ c.end = n.end /\ c.unit = n.unit
          /\ fact = sum
      <4> HIDE DEF total, c, n
      <4>1. fact = IF total # NoFact THEN total
                   ELSE IF NoFact \in {c, n} THEN NoFact
                   ELSE IF c.accn # n.accn \/ c.end # n.end \/ c.unit # n.unit THEN NoFact
                   ELSE sum
        BY <1>3, Zenon DEF TotalDebt, total, c, n
      <4> HIDE DEF sum
      <4> QED BY <1>1, <2>3, <4>1
    <3>2. PICK s \in Slots("short_term_debt"), i \in DOMAIN entries :
            TakenFrom(c, entries, "short_term_debt", year, s, i)
      BY <2>1, <3>1, SelectedIs
    <3>3. Parted(fact, entries, year, c, n)
      <4>1. {"items", "tags", "year", "value", "accn", "filed", "unit", "restated"} \subseteq DOMAIN c
        BY <3>1, Zenon DEF SelectedFact
      <4>2. c.year = year
        BY <3>2 DEF TakenFrom
      <4> HIDE DEF c, n
      <4>3. sum.items = DebtParts /\ sum.tags = c.tags \cup n.tags /\ sum.year = year
            /\ sum.value = c.value + n.value /\ sum.accn = c.accn
            /\ sum.filed = Max({c.filed, n.filed}) /\ sum.unit = c.unit
        BY <4>1, <4>2
      <4>4. sum.restated = (c.restated \/ n.restated)
        BY <4>1, Zenon
      <4> HIDE DEF sum
      <4> QED BY <3>1, <4>3, <4>4 DEF Parted, c, n
    <3> QED BY <3>3
  <2> QED BY <2>2, <2>3
<1> QED
  BY <1>1, <1>2, <1>3

\* The parts of a sum are of one filing, on one day.
LEMMA PartsAgree ==
  ASSUME NEW entries, Payload(entries), NEW fact, NEW year, NEW c, NEW n,
         Parted(fact, entries, year, c, n)
  PROVE  /\ fact.filed = c.filed /\ c.filed = n.filed
         /\ c.value \in Int /\ n.value \in Int
         /\ \E tag \in ToSet(Tags["short_term_debt"]) : c.tags = {tag}
         /\ \E tag \in ToSet(Tags["long_term_debt"]) : n.tags = {tag}
<1>1. "short_term_debt" \in Items /\ "long_term_debt" \in Items
  BY ConceptAssumption DEF Items, DebtParts
<1>2. PICK s \in Slots("short_term_debt"), i \in DOMAIN entries :
         TakenFrom(c, entries, "short_term_debt", year, s, i)
  BY <1>1, SelectedIs DEF Parted
<1>3. PICK t \in Slots("long_term_debt"), j \in DOMAIN entries :
         TakenFrom(n, entries, "long_term_debt", year, t, j)
  BY <1>1, SelectedIs DEF Parted
<1>4. c.filed = n.filed
  BY <1>2, <1>3 DEF Parted, TakenFrom, Payload
<1>5. c.filed \in Int
  BY <1>2, PayloadType DEF TakenFrom
<1>6. Max({c.filed, n.filed}) = c.filed
  <2>1. \E x \in {c.filed, n.filed} : \A y \in {c.filed, n.filed} : x >= y
    BY <1>4, <1>5
  <2> QED BY <2>1, <1>4 DEF Max
<1>7. fact.filed = c.filed
  BY <1>6 DEF Parted
<1>8. c.value \in Int /\ n.value \in Int
  BY <1>2, <1>3, PayloadType DEF TakenFrom
<1>9. c.tags = {Tags["short_term_debt"][s[1]]} /\ n.tags = {Tags["long_term_debt"][t[1]]}
  BY <1>2, <1>3 DEF TakenFrom, InSlot, AnnualCandidates
<1>10. s[1] \in DOMAIN Tags["short_term_debt"] /\ t[1] \in DOMAIN Tags["long_term_debt"]
  BY DEF Slots
<1> QED
  BY <1>4, <1>7, <1>8, <1>9, <1>10 DEF ToSet

\* Every fact is the newest of its line items.
LEMMA FactsAreNewest ==
  ASSUME NEW entries, Payload(entries), NEW fact \in Facts(entries)
  PROVE  Newest(fact, entries)
<1>1. PICK year : \/ \E item \in Items : fact = SelectedFact(entries, item, year) /\ fact # NoFact
                  \/ \E c, n : Parted(fact, entries, year, c, n)
  BY FactsAre
<1>2. CASE \E item \in Items : fact = SelectedFact(entries, item, year) /\ fact # NoFact
  BY <1>2, SelectedIsNewest
<1>3. ASSUME NEW c, NEW n, Parted(fact, entries, year, c, n)
      PROVE  Newest(fact, entries)
  <2>1. "short_term_debt" \in Items /\ "long_term_debt" \in Items
    BY ConceptAssumption DEF Items, DebtParts
  <2>2. Newest(c, entries) /\ Newest(n, entries)
    BY <2>1, <1>3, SelectedIsNewest DEF Parted
  <2>3. /\ fact.filed = c.filed /\ c.filed = n.filed
        /\ fact.accn = c.accn /\ c.accn = n.accn
        /\ fact.unit = c.unit /\ c.unit = n.unit /\ fact.items = DebtParts
    BY <1>3, PartsAgree DEF Parted
  <2>4. /\ c.items = {"short_term_debt"} /\ n.items = {"long_term_debt"}
        /\ c.year = year /\ n.year = year /\ fact.year = year
    <3>1. PICK s \in Slots("short_term_debt"), i \in DOMAIN entries :
             TakenFrom(c, entries, "short_term_debt", year, s, i)
      BY <2>1, <1>3, SelectedIs DEF Parted
    <3>2. PICK t \in Slots("long_term_debt"), j \in DOMAIN entries :
             TakenFrom(n, entries, "long_term_debt", year, t, j)
      BY <2>1, <1>3, SelectedIs DEF Parted
    <3> QED BY <3>1, <3>2, <1>3 DEF TakenFrom, Parted
  <2>5. \A e : (Later(e, fact) <=> Later(e, c)) /\ (Later(e, fact) <=> Later(e, n))
    BY <2>3 DEF Later
  <2>6. ASSUME NEW item \in DebtParts
        PROVE  /\ \E e \in Annual(entries, item, year) :
                     e.accn = fact.accn /\ e.filed = fact.filed /\ e.unit = fact.unit
               /\ \A e \in Annual(entries, item, year) :
                     /\ e.unit = USD => fact.unit = USD
                     /\ e.unit = USD \/ fact.unit # USD => ~Later(e, fact)
    <3>1. CASE item = "short_term_debt"
      BY <3>1, <2>2, <2>3, <2>4, <2>5 DEF Newest
    <3>2. CASE item = "long_term_debt"
      BY <3>2, <2>2, <2>3, <2>4, <2>5 DEF Newest
    <3> QED BY <3>1, <3>2 DEF DebtParts
  <2> QED
    BY <2>3, <2>4, <2>6 DEF Newest
<1> QED
  BY <1>1, <1>2, <1>3

\* What changes under the concepts it had is restated, sums too.
LEMMA ChangesAreRestated ==
  ASSUME NEW before, NEW after, Payload(before), Payload(after), Extends(after, before),
         NEW f \in Facts(before), NEW g \in Facts(after),
         f.items = g.items, f.year = g.year, f.tags = g.tags, f.unit = g.unit,
         f.value # g.value
  PROVE  g.restated
<1>1. PICK y : \/ \E item \in Items : f = SelectedFact(before, item, y) /\ f # NoFact
               \/ \E c, n : Parted(f, before, y, c, n)
  BY FactsAre
<1>2. PICK z : \/ \E item \in Items : g = SelectedFact(after, item, z) /\ g # NoFact
               \/ \E c, n : Parted(g, after, z, c, n)
  BY FactsAre
<1>3. ASSUME NEW item \in Items, NEW year, NEW entries, NEW h, Payload(entries),
             h = SelectedFact(entries, item, year), h # NoFact
      PROVE  h.items = {item} /\ h.year = year
  BY <1>3, SelectedIs DEF TakenFrom
<1>4. \A x : DebtParts # {x}
  <2>1. "short_term_debt" \in DebtParts /\ "long_term_debt" \in DebtParts
        /\ "short_term_debt" # "long_term_debt"
    BY DEF DebtParts
  <2> QED BY <2>1
<1>5. CASE \E item \in Items : f = SelectedFact(before, item, y) /\ f # NoFact
  <2>1. PICK item \in Items : f = SelectedFact(before, item, y) /\ f # NoFact
    BY <1>5
  <2>2. f.items = {item} /\ f.year = y
    BY <1>3, <2>1
  <2>3. PICK other \in Items : g = SelectedFact(after, other, z) /\ g # NoFact
    BY <1>2, <1>4, <2>2 DEF Parted
  <2>4. g.items = {other} /\ g.year = z
    BY <1>3, <2>3
  <2>5. item = other /\ y = z
    BY <2>2, <2>4
  <2> QED
    BY <2>1, <2>3, <2>5, ChangeIsRestated
<1>6. ASSUME NEW c, NEW n, Parted(f, before, y, c, n)
      PROVE  g.restated
  <2>1. PICK d, o : Parted(g, after, z, d, o)
    <3>1. g.items = DebtParts
      BY <1>6 DEF Parted
    <3>2. \A item \in Items : g # SelectedFact(after, item, z) \/ g = NoFact
      BY <1>3, <1>4, <3>1
    <3> QED BY <1>2, <3>2
  <2>2. y = z
    BY <1>6, <2>1 DEF Parted
  <2>3. /\ c.unit = f.unit /\ n.unit = f.unit /\ d.unit = g.unit /\ o.unit = g.unit
        /\ c.tags \cup n.tags = d.tags \cup o.tags
        /\ c.value + n.value # d.value + o.value
    BY <1>6, <2>1 DEF Parted
  <2>4. PICK ct \in ToSet(Tags["short_term_debt"]), nt \in ToSet(Tags["long_term_debt"]) :
            c.tags = {ct} /\ n.tags = {nt}
    BY <1>6, PartsAgree
  <2>5. PICK dt \in ToSet(Tags["short_term_debt"]), ot \in ToSet(Tags["long_term_debt"]) :
            d.tags = {dt} /\ o.tags = {ot}
    BY <2>1, PartsAgree
  <2>6. c.tags = d.tags /\ n.tags = o.tags
    BY <2>3, <2>4, <2>5, ConceptAssumption
  <2>7. c.value # d.value \/ n.value # o.value
    BY <2>3
  <2>8. "short_term_debt" \in Items /\ "long_term_debt" \in Items
    BY ConceptAssumption DEF Items, DebtParts
  <2>9. d.restated \/ o.restated
    <3>1. CASE c.value # d.value
      BY <3>1, <1>6, <2>1, <2>2, <2>3, <2>6, <2>8, ChangeIsRestated DEF Parted
    <3>2. CASE n.value # o.value
      BY <3>2, <1>6, <2>1, <2>2, <2>3, <2>6, <2>8, ChangeIsRestated DEF Parted
    <3> QED BY <2>7, <3>1, <3>2
  <2> QED
    BY <2>1, <2>9 DEF Parted
<1> QED
  BY <1>1, <1>5, <1>6

\* FactsFollowFilings, for any concepts, currencies and filings.
THEOREM FactsAlwaysFollowFilings == FactsSpec => FactsFollowFilings
<1> DEFINE Inv == Payload(payload)
<1>1. FactsInit => Inv
  BY DEF FactsInit, Payload
<1>2. ASSUME Inv, NEW r \in Reports, File(r)
      PROVE  Inv' /\ Extends(payload', payload)
  <2> DEFINE added == [i \in DOMAIN r.entries |-> Stamped(r, r.entries[i])]
             m == Len(payload)
  <2>1. payload' = payload \o added
    BY <1>2 DEF File, Stamped
  <2>2. r.entries \in Seq(ToSet(r.entries))
    BY ReportAssumption
  <2>3. \A i \in DOMAIN r.entries : added[i] \in Stamps
    BY DEF Stamps, ToSet
  <2>4. added \in Seq(Stamps)
    <3>1. DOMAIN r.entries = 1 .. Len(r.entries) /\ Len(r.entries) \in Nat
      BY <2>2
    <3>2. added = [i \in 1 .. Len(r.entries) |-> added[i]]
      BY <3>1
    <3>3. \A i \in 1 .. Len(r.entries) : added[i] \in Stamps
      BY <2>3, <3>1
    <3> HIDE DEF added
    <3> QED BY <3>1, <3>2, <3>3
  <2>5. \A i \in DOMAIN added : added[i].accn = r.accn /\ added[i].filed = r.filed
    BY DEF Stamped
  <2> HIDE DEF added
  <2>6. payload \in Seq(Stamps) /\ m \in Nat
    BY <1>2 DEF Payload
  <2>7. /\ payload' \in Seq(Stamps)
        /\ \A i \in DOMAIN payload : i \in DOMAIN payload' /\ payload'[i] = payload[i]
        /\ \A i \in DOMAIN payload' : i \in DOMAIN payload
              \/ (i - m \in DOMAIN added /\ payload'[i] = added[i - m])
    BY <2>1, <2>4, <2>6
  <2>8. \A i \in DOMAIN payload : payload[i].accn # r.accn
    BY <1>2 DEF File, Filed, ToSet
  <2>9. \A i, j \in DOMAIN payload' :
           payload'[i].accn = payload'[j].accn => payload'[i].filed = payload'[j].filed
    BY <1>2, <2>5, <2>7, <2>8 DEF Payload
  <2> QED
    BY <2>7, <2>9 DEF Payload, Extends
<1>3. Inv /\ [FactsNext]_payload => Inv'
  BY <1>2 DEF FactsNext
<1>4. Inv /\ [FactsNext]_payload => [Follows(payload, payload')]_payload
  <2> SUFFICES ASSUME Inv, NEW r \in Reports, File(r)
               PROVE  Follows(payload, payload')
    BY DEF FactsNext
  <2>1. Payload(payload) /\ Payload(payload') /\ Extends(payload', payload)
    BY <1>2
  <2>2. \A g \in Facts(payload') : Newest(g, payload')
    BY <2>1, FactsAreNewest
  <2>3. ASSUME NEW f \in Facts(payload), NEW g \in Facts(payload'),
               f.items = g.items, f.year = g.year, f.tags = g.tags, f.unit = g.unit,
               f.value # g.value
        PROVE  g.restated
    BY <2>1, <2>3, ChangesAreRestated
  <2> QED
    BY <2>2, <2>3 DEF Follows
<1> QED
  BY <1>1, <1>3, <1>4, PTL DEF FactsSpec, FactsFollowFilings

-----------------------------------------------------------------------------
(* The assessment: proven findings stand.                                  *)

\* The names of what BuildFacts computes.
LevelNames ==
    {"current_ratio", "working_capital", "debt_to_assets", "interest_coverage",
     "debt_to_ebitda", "operating_margin", "net_margin", "roa", "cfo_to_net_income",
     "free_cash_flow", "fcf_margin", "liabilities_to_assets", "receivable_days"}
\* The growths, of calculate_metrics and build_facts.
GrowthNames ==
    {"revenue_growth", "net_income_growth", "operating_cash_flow_growth",
     "free_cash_flow_growth", "total_debt_growth", "cash_growth",
     "accounts_receivable_growth", "short_term_debt_growth"}
\* The changes and the gap.
TrendNames ==
    {"operating_margin_change", "receivable_days_change", "accounts_receivable_growth_gap"}

\* A claim that was accepted doubts that the company goes on.
Doubted(accepted) ==
    Truth(\E c \in ToSet(accepted) :
            c.category = "business_going_concern" /\ c.polarity = "negative")

\* What is true or false.
FlagNames == {"negative_ebitda_leverage", "going_concern_doubt"}

\* The names of what is computed.
LEMMA FactDomains ==
  ASSUME NEW v, NEW p
  PROVE  /\ DOMAIN Levels(v, p) = LevelNames
         /\ DOMAIN Growths(v, p) = GrowthNames
         /\ DOMAIN Trends(v, p) = TrendNames
         /\ DOMAIN Inputs(v) = LevelNames
         /\ DOMAIN Grown = GrowthNames \ {"total_debt_growth"}
<1>1. DOMAIN Levels(v, p) = LevelNames
  BY DEF Levels, LevelNames
<1>2. DOMAIN Growths(v, p) = GrowthNames
  BY DEF Growths, GrowthNames
<1>3. DOMAIN Trends(v, p) = TrendNames
  BY DEF Trends, TrendNames
<1>4. DOMAIN Inputs(v) = LevelNames
  BY DEF Inputs, LevelNames
<1>5. DOMAIN Grown = GrowthNames \ {"total_debt_growth"}
  BY DEF Grown, GrowthNames
<1> QED
  BY <1>1, <1>2, <1>3, <1>4, <1>5

\* Where each fact comes from.
LEMMA FactOf ==
  ASSUME NEW h, DOMAIN h.now = LineItems, NEW accepted, NEW name
  PROVE  LET facts == BuildFacts(h, accepted)
             v == h.now  p == h.before IN
         /\ name \in LineItems \ {"total_debt"} => Fact(facts, name) = v[name]
         /\ name \in LevelNames => Fact(facts, name) = Levels(v, p)[name]
         /\ name \in GrowthNames =>
               Fact(facts, name) = IF p = << >> THEN Missing ELSE Growths(v, p)[name]
         /\ name \in TrendNames =>
               Fact(facts, name) = IF p = << >> THEN Missing ELSE Trends(v, p)[name]
         /\ name = "going_concern_doubt" => Fact(facts, name) = Doubted(accepted)
         /\ name \notin LineItems \cup LevelNames \cup GrowthNames \cup TrendNames \cup FlagNames =>
               Fact(facts, name) = Missing
<1> DEFINE v == h.now
           p == h.before
           raw == [v EXCEPT !.total_debt = ResolveTotalDebt(v)]
           growths == IF p = << >> THEN << >> ELSE Growths(v, p)
           trends == IF p = << >> THEN << >> ELSE Trends(v, p)
           none == IF p = << >> THEN {} ELSE GrowthNames
           notrend == IF p = << >> THEN {} ELSE TrendNames
           facts == BuildFacts(h, accepted)
<1>1. DOMAIN growths = none
  BY FactDomains
<1>2. DOMAIN trends = notrend
  BY FactDomains
<1>3. DOMAIN Levels(v, p) = LevelNames
  BY FactDomains
<1>4. PICK flags : /\ DOMAIN flags = FlagNames
                   /\ flags["going_concern_doubt"] = Doubted(accepted)
                   /\ facts = [n \in LineItems \cup LevelNames \cup FlagNames \cup none \cup notrend |->
                        CASE n \in LineItems -> raw[n]
                          [] n \in LevelNames -> Levels(v, p)[n]
                          [] n \in FlagNames -> flags[n]
                          [] n \in none -> growths[n]
                          [] n \in notrend -> trends[n]]
  <2> DEFINE flags ==
            [negative_ebitda_leverage |->
                Truth(/\ Known({v.ebitda, ResolveTotalDebt(v)})
                      /\ v.ebitda[1] <= 0 /\ ResolveTotalDebt(v)[1] > 0),
             going_concern_doubt |->
                Truth(\E c \in ToSet(accepted) :
                        c.category = "business_going_concern" /\ c.polarity = "negative")]
  <2>1. DOMAIN flags = FlagNames
    BY DEF FlagNames
  <2>2. facts = [n \in LineItems \cup DOMAIN Levels(v, p) \cup DOMAIN flags \cup DOMAIN growths
                          \cup DOMAIN trends |->
                        CASE n \in LineItems -> raw[n]
                          [] n \in DOMAIN Levels(v, p) -> Levels(v, p)[n]
                          [] n \in DOMAIN flags -> flags[n]
                          [] n \in DOMAIN growths -> growths[n]
                          [] n \in DOMAIN trends -> trends[n]]
    BY Zenon DEF BuildFacts
  <2>4. flags["going_concern_doubt"] = Doubted(accepted)
    BY Zenon DEF Doubted
  <2> HIDE DEF flags, facts, growths, trends, none, notrend, raw
  <2>3. facts = [n \in LineItems \cup LevelNames \cup FlagNames \cup none \cup notrend |->
                        CASE n \in LineItems -> raw[n]
                          [] n \in LevelNames -> Levels(v, p)[n]
                          [] n \in FlagNames -> flags[n]
                          [] n \in none -> growths[n]
                          [] n \in notrend -> trends[n]]
    BY <2>1, <2>2, <1>1, <1>2, <1>3
  <2> QED
    BY <2>1, <2>3, <2>4
<1>5. /\ LineItems \cap LevelNames = {} /\ LineItems \cap GrowthNames = {}
      /\ LineItems \cap TrendNames = {} /\ LevelNames \cap GrowthNames = {}
      /\ LevelNames \cap TrendNames = {} /\ GrowthNames \cap TrendNames = {}
      /\ FlagNames \cap LevelNames = {} /\ FlagNames \cap GrowthNames = {}
      /\ FlagNames \cap TrendNames = {} /\ FlagNames \cap LineItems = {}
  BY DEF LineItems, LevelNames, GrowthNames, TrendNames, FlagNames
<1>6. \A n \in LineItems \ {"total_debt"} : raw[n] = v[n]
  OBVIOUS
<1> HIDE DEF facts, raw, growths, trends, none, notrend, v, p
<1>7. DOMAIN facts = LineItems \cup LevelNames \cup FlagNames \cup none \cup notrend
  BY <1>4
<1>8. none \subseteq GrowthNames /\ notrend \subseteq TrendNames
  BY DEF none, notrend
<1>9. /\ \A n \in LineItems : facts[n] = raw[n]
      /\ \A n \in LevelNames : facts[n] = Levels(v, p)[n]
      /\ facts["going_concern_doubt"] = Doubted(accepted)
      /\ \A n \in none : facts[n] = growths[n]
      /\ \A n \in notrend : facts[n] = trends[n]
  <2>1. ASSUME NEW n \in LineItems
        PROVE  facts[n] = raw[n]
    <3>1. n \in LineItems \cup LevelNames \cup FlagNames \cup none \cup notrend
      OBVIOUS
    <3>2. facts[n] = CASE n \in LineItems -> raw[n]
                       [] n \in LevelNames -> Levels(v, p)[n]
                       [] n \in FlagNames -> flags[n]
                       [] n \in none -> growths[n]
                       [] n \in notrend -> trends[n]
      BY <1>4, <3>1
    <3>3. n \notin LevelNames \cup FlagNames \cup none \cup notrend
      BY <1>5, <1>8
    <3> QED BY <3>2, <3>3
  <2>2. ASSUME NEW n \in LevelNames
        PROVE  facts[n] = Levels(v, p)[n]
    <3>1. n \in LineItems \cup LevelNames \cup FlagNames \cup none \cup notrend
      OBVIOUS
    <3>2. facts[n] = CASE n \in LineItems -> raw[n]
                       [] n \in LevelNames -> Levels(v, p)[n]
                       [] n \in FlagNames -> flags[n]
                       [] n \in none -> growths[n]
                       [] n \in notrend -> trends[n]
      BY <1>4, <3>1
    <3>3. n \notin LineItems \cup FlagNames \cup none \cup notrend
      BY <1>5, <1>8
    <3> QED BY <3>2, <3>3
  <2>3. \A n \in none : facts[n] = growths[n]
    BY <1>4, <1>5, <1>8
  <2>4. \A n \in notrend : facts[n] = trends[n]
    BY <1>4, <1>5, <1>8
  <2>5. facts["going_concern_doubt"] = Doubted(accepted)
    <3> DEFINE n == "going_concern_doubt"
    <3>1. n \in FlagNames
      BY DEF FlagNames
    <3>2. facts[n] = CASE n \in LineItems -> raw[n]
                       [] n \in LevelNames -> Levels(v, p)[n]
                       [] n \in FlagNames -> flags[n]
                       [] n \in none -> growths[n]
                       [] n \in notrend -> trends[n]
      BY <1>4, <3>1
    <3>3. n \notin LineItems \cup LevelNames \cup none \cup notrend
      BY <1>5, <1>8, <3>1
    <3> QED BY <1>4, <3>1, <3>2, <3>3
  <2> QED BY <2>1, <2>2, <2>3, <2>4, <2>5
<1>10. /\ p = << >> => none = {} /\ notrend = {}
       /\ p # << >> => /\ none = GrowthNames /\ notrend = TrendNames
                       /\ growths = Growths(v, p) /\ trends = Trends(v, p)
  BY DEF none, notrend, growths, trends
<1>11. name \in LineItems \ {"total_debt"} => Fact(facts, name) = v[name]
  BY <1>7, <1>9, <1>6 DEF Fact
<1>12. name \in LevelNames => Fact(facts, name) = Levels(v, p)[name]
  BY <1>7, <1>9 DEF Fact
<1>13. name \in GrowthNames => Fact(facts, name) = IF p = << >> THEN Missing ELSE Growths(v, p)[name]
  BY <1>5, <1>7, <1>9, <1>10 DEF Fact
<1>14. name \in TrendNames => Fact(facts, name) = IF p = << >> THEN Missing ELSE Trends(v, p)[name]
  BY <1>5, <1>7, <1>9, <1>10 DEF Fact
<1>15. name \notin LineItems \cup LevelNames \cup GrowthNames \cup TrendNames \cup FlagNames =>
               Fact(facts, name) = Missing
  BY <1>7, <1>8 DEF Fact
<1>16. name = "going_concern_doubt" => Fact(facts, name) = Doubted(accepted)
  BY <1>7, <1>9 DEF Fact, FlagNames
<1> QED
  BY <1>11, <1>12, <1>13, <1>14, <1>15, <1>16 DEF facts, v, p
-----------------------------------------------------------------------------
(* ProvenFindingsStand: what is required of a fact is what it is computed from. *)

\* The line items (v, p) and (w, q) of two years agree on the inputs of a level.
LevelAgrees(v, w, p, q, name) ==
    /\ \A k \in Inputs(v)[name] : w[k] = v[k]
    /\ v.ebit = Missing => w.ebit = Missing
    /\ name \in {"debt_to_assets", "debt_to_ebitda"} => ResolveTotalDebt(w) = ResolveTotalDebt(v)
    /\ (p = << >>) <=> (q = << >>)
    /\ p # << >> => \A k \in Averaged(name) : q[k] = p[k]

\* A level is computed from its inputs, and from nothing else.
LEMMA LevelsStand ==
  ASSUME NEW v, NEW w, NEW p, NEW q, NEW name \in LevelNames, LevelAgrees(v, w, p, q, name)
  PROVE  Levels(w, q)[name] = Levels(v, p)[name]
<1>1. CASE name = "current_ratio"
  <2>1. w.current_assets = v.current_assets /\ w.current_liabilities = v.current_liabilities
    BY <1>1 DEF LevelAgrees, Inputs
  <2> QED BY <1>1, <2>1 DEF Levels
<1>2. CASE name = "working_capital"
  <2>1. w.current_assets = v.current_assets /\ w.current_liabilities = v.current_liabilities
    BY <1>2 DEF LevelAgrees, Inputs
  <2> QED BY <1>2, <2>1 DEF Levels
<1>3. CASE name = "liabilities_to_assets"
  <2>1. w.total_liabilities = v.total_liabilities /\ w.total_assets = v.total_assets
    BY <1>3 DEF LevelAgrees, Inputs
  <2> QED BY <1>3, <2>1 DEF Levels
<1>4. CASE name = "debt_to_assets"
  <2>1. w.total_assets = v.total_assets
    BY <1>4 DEF LevelAgrees, Inputs
  <2> QED BY <1>4, <2>1 DEF Levels, LevelAgrees
<1>5. CASE name = "interest_coverage"
  <2>1. /\ w.interest_expense = v.interest_expense
        /\ v.ebit # Missing => w.ebit = v.ebit
        /\ v.ebit = Missing => w.operating_income = v.operating_income
    BY <1>5 DEF LevelAgrees, Inputs
  <2>2. Ebit(w) = Ebit(v)
    BY <2>1 DEF Ebit, LevelAgrees
  <2> QED BY <1>5, <2>1, <2>2 DEF Levels
<1>6. CASE name = "debt_to_ebitda"
  <2>1. w.ebitda = v.ebitda
    BY <1>6 DEF LevelAgrees, Inputs
  <2> QED BY <1>6, <2>1 DEF Levels, LevelAgrees
<1>7. CASE name = "operating_margin"
  <2>1. w.operating_income = v.operating_income /\ w.revenue = v.revenue
    BY <1>7 DEF LevelAgrees, Inputs
  <2> QED BY <1>7, <2>1 DEF Levels
<1>8. CASE name = "net_margin"
  <2>1. w.net_income = v.net_income /\ w.revenue = v.revenue
    BY <1>8 DEF LevelAgrees, Inputs
  <2> QED BY <1>8, <2>1 DEF Levels
<1>9. CASE name = "roa"
  <2>1. w.net_income = v.net_income /\ w.total_assets = v.total_assets
    BY <1>9 DEF LevelAgrees, Inputs
  <2>2. p # << >> => q.total_assets = p.total_assets
    BY <1>9 DEF LevelAgrees, Averaged
  <2> QED BY <1>9, <2>1, <2>2 DEF Levels, LevelAgrees
<1>10. CASE name = "cfo_to_net_income"
  <2>1. w.operating_cash_flow = v.operating_cash_flow /\ w.net_income = v.net_income
    BY <1>10 DEF LevelAgrees, Inputs
  <2> QED BY <1>10, <2>1 DEF Levels
<1>11. CASE name = "free_cash_flow"
  <2>1. /\ w.operating_cash_flow = v.operating_cash_flow
        /\ w.capital_expenditure = v.capital_expenditure
    BY <1>11 DEF LevelAgrees, Inputs
  <2>2. FreeCashFlow(w) = FreeCashFlow(v)
    BY <2>1 DEF FreeCashFlow
  <2> QED BY <1>11, <2>2 DEF Levels
<1>12. CASE name = "fcf_margin"
  <2>1. /\ w.operating_cash_flow = v.operating_cash_flow
        /\ w.capital_expenditure = v.capital_expenditure /\ w.revenue = v.revenue
    BY <1>12 DEF LevelAgrees, Inputs
  <2>2. FreeCashFlow(w) = FreeCashFlow(v)
    BY <2>1 DEF FreeCashFlow
  <2> QED BY <1>12, <2>1, <2>2 DEF Levels
<1>13. CASE name = "receivable_days"
  <2>1. w.accounts_receivable = v.accounts_receivable /\ w.revenue = v.revenue
    BY <1>13 DEF LevelAgrees, Inputs
  <2>2. p # << >> => q.accounts_receivable = p.accounts_receivable
    BY <1>13 DEF LevelAgrees, Averaged
  <2> QED BY <1>13, <2>1, <2>2 DEF Levels, LevelAgrees
<1> QED
  BY <1>1, <1>2, <1>3, <1>4, <1>5, <1>6, <1>7, <1>8, <1>9, <1>10, <1>11, <1>12, <1>13
     DEF LevelNames

\* They agree on what a growth compares.
GrowthAgrees(v, w, p, q, name) ==
    /\ name # "total_debt_growth" => \A k \in Grown[name] : w[k] = v[k] /\ q[k] = p[k]
    /\ name = "total_debt_growth" =>
          /\ ResolveTotalDebt(w) = ResolveTotalDebt(v)
          /\ ResolveTotalDebt(q) = ResolveTotalDebt(p)

\* A growth is computed from what it compares, and from nothing else.
LEMMA GrowthsStand ==
  ASSUME NEW v, NEW w, NEW p, NEW q, NEW name \in GrowthNames, GrowthAgrees(v, w, p, q, name)
  PROVE  Growths(w, q)[name] = Growths(v, p)[name]
<1>1. CASE name = "revenue_growth"
  <2>1. w.revenue = v.revenue /\ q.revenue = p.revenue
    BY <1>1 DEF GrowthAgrees, Grown
  <2> QED BY <1>1, <2>1 DEF Growths
<1>2. CASE name = "net_income_growth"
  <2>1. w.net_income = v.net_income /\ q.net_income = p.net_income
    BY <1>2 DEF GrowthAgrees, Grown
  <2> QED BY <1>2, <2>1 DEF Growths
<1>3. CASE name = "operating_cash_flow_growth"
  <2>1. /\ w.operating_cash_flow = v.operating_cash_flow
        /\ q.operating_cash_flow = p.operating_cash_flow
    BY <1>3 DEF GrowthAgrees, Grown
  <2> QED BY <1>3, <2>1 DEF Growths
<1>4. CASE name = "free_cash_flow_growth"
  <2>1. /\ w.operating_cash_flow = v.operating_cash_flow
        /\ q.operating_cash_flow = p.operating_cash_flow
        /\ w.capital_expenditure = v.capital_expenditure
        /\ q.capital_expenditure = p.capital_expenditure
    BY <1>4 DEF GrowthAgrees, Grown
  <2>2. FreeCashFlow(w) = FreeCashFlow(v) /\ FreeCashFlow(q) = FreeCashFlow(p)
    BY <2>1 DEF FreeCashFlow
  <2> QED BY <1>4, <2>2 DEF Growths
<1>5. CASE name = "total_debt_growth"
  BY <1>5 DEF Growths, GrowthAgrees
<1>6. CASE name = "cash_growth"
  <2>1. w.cash = v.cash /\ q.cash = p.cash
    BY <1>6 DEF GrowthAgrees, Grown
  <2> QED BY <1>6, <2>1 DEF Growths
<1>7. CASE name = "accounts_receivable_growth"
  <2>1. /\ w.accounts_receivable = v.accounts_receivable
        /\ q.accounts_receivable = p.accounts_receivable
    BY <1>7 DEF GrowthAgrees, Grown
  <2> QED BY <1>7, <2>1 DEF Growths
<1>8. CASE name = "short_term_debt_growth"
  <2>1. w.short_term_debt = v.short_term_debt /\ q.short_term_debt = p.short_term_debt
    BY <1>8 DEF GrowthAgrees, Grown
  <2> QED BY <1>8, <2>1 DEF Growths
<1> QED
  BY <1>1, <1>2, <1>3, <1>4, <1>5, <1>6, <1>7, <1>8 DEF GrowthNames

\* The same of trends: both years count in full.
LEMMA TrendsStand ==
  ASSUME NEW v, NEW w, NEW p, NEW q, NEW name \in TrendNames,
         name = "operating_margin_change" =>
            \A k \in {"operating_income", "revenue"} : w[k] = v[k] /\ q[k] = p[k],
         name # "operating_margin_change" =>
            \A k \in {"accounts_receivable", "revenue"} : w[k] = v[k] /\ q[k] = p[k]
  PROVE  Trends(w, q)[name] = Trends(v, p)[name]
<1>1. CASE name = "operating_margin_change"
  <2>1. /\ w.operating_income = v.operating_income /\ w.revenue = v.revenue
        /\ q.operating_income = p.operating_income /\ q.revenue = p.revenue
    BY <1>1
  <2>2. /\ Levels(w, << >>).operating_margin = Levels(v, << >>).operating_margin
        /\ Levels(q, << >>).operating_margin = Levels(p, << >>).operating_margin
    BY <2>1 DEF Levels
  <2> QED BY <1>1, <2>2 DEF Trends, ChangeBase
<1>2. CASE name = "receivable_days_change"
  <2>1. /\ w.accounts_receivable = v.accounts_receivable /\ w.revenue = v.revenue
        /\ q.accounts_receivable = p.accounts_receivable /\ q.revenue = p.revenue
    BY <1>2
  <2>2. /\ Levels(w, << >>).receivable_days = Levels(v, << >>).receivable_days
        /\ Levels(q, << >>).receivable_days = Levels(p, << >>).receivable_days
    BY <2>1 DEF Levels
  <2> QED BY <1>2, <2>2 DEF Trends, ChangeBase
<1>3. CASE name = "accounts_receivable_growth_gap"
  <2>1. /\ w.accounts_receivable = v.accounts_receivable /\ w.revenue = v.revenue
        /\ q.accounts_receivable = p.accounts_receivable /\ q.revenue = p.revenue
    BY <1>3
  <2>2. /\ Growths(w, q).accounts_receivable_growth = Growths(v, p).accounts_receivable_growth
        /\ Growths(w, q).revenue_growth = Growths(v, p).revenue_growth
    BY <2>1 DEF Growths
  <2> QED BY <1>3, <2>2 DEF Trends
<1> QED
  BY <1>1, <1>2, <1>3 DEF TrendNames

\* g is f but for one line item of one year, which f reports.
AgreesBut(f, g, item, year) ==
    /\ DOMAIN g.now = LineItems
    /\ \A k \in LineItems : << k, "now" >> # << item, year >> => g.now[k] = f.now[k]
    /\ g.before = << >> <=> f.before = << >>
    /\ f.before # << >> =>
          \A k \in LineItems : << k, "before" >> # << item, year >> => g.before[k] = f.before[k]
    /\ Reported(f, item, year)

\* A covered fact requires none of what is not verified.
LEMMA RequiredAgree ==
  ASSUME NEW f \in Filings, NEW g, NEW item \in LineItems, NEW year \in Years,
         AgreesBut(f, g, item, year), f.status[<< item, year >>] # "verified",
         NEW accepted, NEW name, Covered(f, accepted, name)
  PROVE  /\ \A k \in LineItems : << k, "now" >> \in FactRequirements(f, name) => g.now[k] = f.now[k]
         /\ f.before # << >> =>
               \A k \in LineItems :
                  << k, "before" >> \in FactRequirements(f, name) => g.before[k] = f.before[k]
<1>1. \A k \in LineItems, y \in Years :
         << k, y >> \in FactRequirements(f, name) => << k, y >> # << item, year >>
  <2> SUFFICES ASSUME NEW k \in LineItems, NEW y \in Years,
                      << k, y >> \in FactRequirements(f, name)
               PROVE  << k, y >> # << item, year >>
    OBVIOUS
  <2>1. DOMAIN f.status = LineItems \X Years
    BY FilingAssumption
  <2>2. << k, y >> \in DOMAIN f.status
    BY <2>1
  <2>3. StatusOf(f, accepted, << k, y >>) = "verified"
    BY DEF Covered
  <2>4. f.status[<< k, y >>] = "verified"
    BY <2>2, <2>3 DEF StatusOf
  <2> QED BY <2>4
<1>2. "now" \in Years /\ "before" \in Years
  BY DEF Years
<1> QED
  BY <1>1, <1>2 DEF AgreesBut

\* What a level requires.
LEMMA LevelRequires ==
  ASSUME NEW f, NEW name \in LevelNames
  PROVE  /\ FactRequirements(f, name) = MetricRequirements(f, name)
         /\ Now(Inputs(f.now)[name]) \subseteq MetricRequirements(f, name)
         /\ name \in {"debt_to_assets", "debt_to_ebitda"} =>
               DebtRequirements(f.now, "now") \subseteq MetricRequirements(f, name)
         /\ f.before # << >> => Averaged(name) \X {"before"} \subseteq MetricRequirements(f, name)
<1>1. name \in DOMAIN Inputs(f.now) /\ name \notin DOMAIN Grown
  BY FactDomains DEF LevelNames, GrowthNames
<1>2. name \notin {"fcf_growth", "total_debt_growth"} \cup TrendNames
  BY DEF LevelNames, TrendNames
<1>3. FactRequirements(f, name) = MetricRequirements(f, name)
  BY <1>1, <1>2 DEF FactRequirements, TrendNames
<1>4. MetricRequirements(f, name) =
         Now(Inputs(f.now)[name])
         \cup (IF name \in {"debt_to_assets", "debt_to_ebitda"}
               THEN DebtRequirements(f.now, "now") ELSE {})
         \cup (IF f.before = << >> THEN {} ELSE Averaged(name) \X {"before"})
  BY <1>1, <1>2 DEF MetricRequirements
<1> QED
  BY <1>3, <1>4

\* What a growth requires.
LEMMA GrowthRequires ==
  ASSUME NEW f, NEW name \in GrowthNames
  PROVE  /\ FactRequirements(f, name) = MetricRequirements(f, name)
         /\ name # "total_debt_growth" => MetricRequirements(f, name) = Both(Grown[name])
         /\ name = "total_debt_growth" =>
               MetricRequirements(f, name) =
                  DebtRequirements(f.now, "now") \cup DebtRequirements(f.before, "before")
<1>1. name \in DOMAIN Grown \cup {"total_debt_growth"}
  BY FactDomains
<1>2. name \notin {"fcf_growth"} \cup TrendNames
  BY DEF GrowthNames, TrendNames
<1>3. FactRequirements(f, name) = MetricRequirements(f, name)
  BY <1>1, <1>2 DEF FactRequirements, TrendNames
<1> QED
  BY <1>1, <1>3 DEF MetricRequirements

\* What a trend requires: what it is computed from, of both years.
LEMMA TrendRequires ==
  ASSUME NEW f
  PROVE  /\ Both({"operating_income", "revenue"}) \subseteq
               FactRequirements(f, "operating_margin_change")
         /\ Both({"accounts_receivable", "revenue"}) \subseteq
               FactRequirements(f, "receivable_days_change")
         /\ Both({"accounts_receivable", "revenue"}) \subseteq
               FactRequirements(f, "accounts_receivable_growth_gap")
<1>1. \A name \in TrendNames :
         /\ name \notin DOMAIN Inputs(f.now) \cup DOMAIN Grown \cup {"total_debt_growth"}
         /\ name # "fcf_growth"
  BY FactDomains DEF LevelNames, GrowthNames, TrendNames
<1>2. /\ FactRequirements(f, "operating_margin_change") =
            ChangeRequirements(MetricRequirements(f, "operating_margin"))
      /\ FactRequirements(f, "receivable_days_change") =
            ChangeRequirements(MetricRequirements(f, "receivable_days"))
      /\ FactRequirements(f, "accounts_receivable_growth_gap") =
            MetricRequirements(f, "accounts_receivable_growth")
            \cup MetricRequirements(f, "revenue_growth")
  BY <1>1 DEF FactRequirements, TrendNames
<1>3. \A base, keys : Now(keys) \subseteq base => Both(keys) \subseteq ChangeRequirements(base)
  <2> SUFFICES ASSUME NEW base, NEW keys, Now(keys) \subseteq base,
                      NEW k \in keys, NEW y \in Years
               PROVE  << k, y >> \in ChangeRequirements(base)
    BY DEF Both
  <2>1. << k, "now" >> \in base
    BY DEF Now
  <2>2. CASE y = "now"
    BY <2>1, <2>2 DEF ChangeRequirements
  <2>3. CASE y = "before"
    <3>1. << << k, "now" >>[1], "before" >> = << k, y >> /\ << k, "now" >>[2] = "now"
      BY <2>3
    <3> QED BY <2>1, <3>1 DEF ChangeRequirements
  <2> QED BY <2>2, <2>3 DEF Years
<1>4. Both({"operating_income", "revenue"}) \subseteq FactRequirements(f, "operating_margin_change")
  <2>1. Now({"operating_income", "revenue"}) \subseteq MetricRequirements(f, "operating_margin")
    <3>1. Inputs(f.now)["operating_margin"] = {"operating_income", "revenue"}
      BY DEF Inputs
    <3> QED BY <3>1, LevelRequires DEF LevelNames
  <2> QED BY <1>2, <1>3, <2>1
<1>5. Both({"accounts_receivable", "revenue"}) \subseteq FactRequirements(f, "receivable_days_change")
  <2>1. Now({"accounts_receivable", "revenue"}) \subseteq MetricRequirements(f, "receivable_days")
    <3>1. Inputs(f.now)["receivable_days"] = {"accounts_receivable", "revenue"}
      BY DEF Inputs
    <3> QED BY <3>1, LevelRequires DEF LevelNames
  <2> QED BY <1>2, <1>3, <2>1
<1>6. Both({"accounts_receivable", "revenue"}) \subseteq
         FactRequirements(f, "accounts_receivable_growth_gap")
  <2>1. /\ MetricRequirements(f, "accounts_receivable_growth") = Both({"accounts_receivable"})
        /\ MetricRequirements(f, "revenue_growth") = Both({"revenue"})
    <3>1. Grown["accounts_receivable_growth"] = {"accounts_receivable"} /\ Grown["revenue_growth"] = {"revenue"}
      BY DEF Grown
    <3> QED BY <3>1, GrowthRequires DEF GrowthNames
  <2> QED BY <1>2, <2>1 DEF Both
<1> QED
  BY <1>4, <1>5, <1>6

\* The debt stands if what it is resolved from is required.
LEMMA DebtStands ==
  ASSUME NEW f, NEW g, NEW item, NEW year, AgreesBut(f, g, item, year), NEW R,
         \A k \in LineItems : << k, "now" >> \in R => g.now[k] = f.now[k],
         f.before # << >> =>
            \A k \in LineItems : << k, "before" >> \in R => g.before[k] = f.before[k]
  PROVE  /\ DebtRequirements(f.now, "now") \subseteq R =>
               ResolveTotalDebt(g.now) = ResolveTotalDebt(f.now)
         /\ f.before # << >> /\ DebtRequirements(f.before, "before") \subseteq R =>
               ResolveTotalDebt(g.before) = ResolveTotalDebt(f.before)
<1>1. {"total_debt", "short_term_debt", "long_term_debt"} \subseteq LineItems
  BY DEF LineItems
<1>2. f.now.total_debt = Missing => g.now.total_debt = f.now.total_debt
  BY <1>1 DEF AgreesBut, Reported
<1>3. f.before # << >> /\ f.before.total_debt = Missing => g.before.total_debt = f.before.total_debt
  BY <1>1 DEF AgreesBut, Reported
<1>4. ASSUME DebtRequirements(f.now, "now") \subseteq R
      PROVE  ResolveTotalDebt(g.now) = ResolveTotalDebt(f.now)
  <2>1. CASE f.now.total_debt # Missing
    <3>1. << "total_debt", "now" >> \in R
      BY <1>4, <2>1 DEF DebtRequirements
    <3> QED BY <1>1, <2>1, <3>1 DEF ResolveTotalDebt
  <2>2. CASE f.now.total_debt = Missing
    <3>1. << "short_term_debt", "now" >> \in R /\ << "long_term_debt", "now" >> \in R
      BY <1>4, <2>2 DEF DebtRequirements
    <3> QED BY <1>1, <1>2, <2>2, <3>1 DEF ResolveTotalDebt
  <2> QED BY <2>1, <2>2
<1>5. ASSUME f.before # << >>, DebtRequirements(f.before, "before") \subseteq R
      PROVE  ResolveTotalDebt(g.before) = ResolveTotalDebt(f.before)
  <2>1. CASE f.before.total_debt # Missing
    <3>1. << "total_debt", "before" >> \in R
      BY <1>5, <2>1 DEF DebtRequirements
    <3> QED BY <1>1, <1>5, <2>1, <3>1 DEF ResolveTotalDebt
  <2>2. CASE f.before.total_debt = Missing
    <3>1. << "short_term_debt", "before" >> \in R /\ << "long_term_debt", "before" >> \in R
      BY <1>5, <2>2 DEF DebtRequirements
    <3> QED BY <1>1, <1>3, <1>5, <2>2, <3>1 DEF ResolveTotalDebt
  <2> QED BY <2>1, <2>2
<1> QED
  BY <1>4, <1>5

\* Every fact that is covered stands, whatever the one line item turns out to be.
LEMMA FactsStand ==
  ASSUME NEW f \in Filings, NEW g, NEW item \in LineItems, NEW year \in Years,
         AgreesBut(f, g, item, year), f.status[<< item, year >>] # "verified",
         NEW accepted, NEW name, name # "total_debt", Covered(f, accepted, name)
  PROVE  Fact(BuildFacts(g, accepted), name) = Fact(BuildFacts(f, accepted), name)
<1> DEFINE R == FactRequirements(f, name)
           v == f.now
           w == g.now
           p == f.before
           q == g.before
<1>1. /\ \A k \in LineItems : << k, "now" >> \in R => w[k] = v[k]
      /\ p # << >> => \A k \in LineItems : << k, "before" >> \in R => q[k] = p[k]
  BY RequiredAgree
<1>2. DOMAIN v = LineItems /\ DOMAIN w = LineItems /\ (q = << >> <=> p = << >>)
  BY FilingAssumption DEF AgreesBut
<1>3. /\ DebtRequirements(v, "now") \subseteq R => ResolveTotalDebt(w) = ResolveTotalDebt(v)
      /\ p # << >> /\ DebtRequirements(p, "before") \subseteq R =>
            ResolveTotalDebt(q) = ResolveTotalDebt(p)
  BY <1>1, DebtStands
<1>4. CASE name \in LineItems
  <2>1. name \notin DOMAIN Inputs(v) \cup DOMAIN Grown \cup {"total_debt_growth"}
    BY <1>4, FactDomains DEF LineItems, LevelNames, GrowthNames
  <2>2. name \notin TrendNames \cup {"fcf_growth"}
    BY <1>4 DEF LineItems, TrendNames
  <2>3. R = {<< name, "now" >>}
    BY <2>1, <2>2 DEF FactRequirements, TrendNames
  <2>4. w[name] = v[name]
    BY <1>1, <1>4, <2>3
  <2> QED BY <1>2, <1>4, <2>4, FactOf
<1>5. CASE name \in LevelNames
  <2>1. R = MetricRequirements(f, name)
    BY <1>5, LevelRequires
  <2>2. Inputs(v)[name] \subseteq LineItems
    BY <1>5 DEF Inputs, LevelNames, LineItems
  <2>3. \A k \in Inputs(v)[name] : w[k] = v[k]
    BY <1>1, <1>5, <2>1, <2>2, LevelRequires DEF Now
  <2>4. name \in {"debt_to_assets", "debt_to_ebitda"} => ResolveTotalDebt(w) = ResolveTotalDebt(v)
    BY <1>3, <1>5, <2>1, LevelRequires
  <2>5. Averaged(name) \subseteq LineItems
    BY DEF Averaged, LineItems
  <2>6. p # << >> => \A k \in Averaged(name) : q[k] = p[k]
    BY <1>1, <1>5, <2>1, <2>5, LevelRequires
  <2>7. v.ebit = Missing => w.ebit = Missing
    BY DEF AgreesBut, Reported, LineItems
  <2>8. Levels(w, q)[name] = Levels(v, p)[name]
    <3>1. LevelAgrees(v, w, p, q, name)
      BY <1>2, <2>3, <2>4, <2>6, <2>7 DEF LevelAgrees
    <3> HIDE DEF v, w, p, q
    <3> QED BY <1>5, <3>1, LevelsStand
  <2> QED BY <1>2, <1>5, <2>8, FactOf
<1>6. CASE name \in GrowthNames
  <2>1. CASE p = << >>
    BY <1>2, <1>6, <2>1, FactOf
  <2>2. CASE p # << >>
    <3>1. R = MetricRequirements(f, name)
      BY <1>6, GrowthRequires
    <3>2. ASSUME name # "total_debt_growth"
          PROVE  \A k \in Grown[name] : w[k] = v[k] /\ q[k] = p[k]
      <4>1. R = Both(Grown[name])
        BY <1>6, <3>1, <3>2, GrowthRequires
      <4>2. Grown[name] \subseteq LineItems
        BY <1>6, <3>2 DEF Grown, GrowthNames, LineItems
      <4> QED BY <1>1, <2>2, <4>1, <4>2 DEF Both, Years
    <3>3. name = "total_debt_growth" =>
            /\ ResolveTotalDebt(w) = ResolveTotalDebt(v)
            /\ ResolveTotalDebt(q) = ResolveTotalDebt(p)
      BY <1>3, <1>6, <2>2, <3>1, GrowthRequires
    <3>4. Growths(w, q)[name] = Growths(v, p)[name]
      <4>1. GrowthAgrees(v, w, p, q, name)
        BY <3>2, <3>3 DEF GrowthAgrees
      <4> HIDE DEF v, w, p, q
      <4> QED BY <1>6, <4>1, GrowthsStand
    <3> QED BY <1>2, <1>6, <2>2, <3>4, FactOf
  <2> QED BY <2>1, <2>2
<1>7. CASE name \in TrendNames
  <2>1. CASE p = << >>
    BY <1>2, <1>7, <2>1, FactOf
  <2>2. CASE p # << >>
    <3>1. {"operating_income", "revenue", "accounts_receivable"} \subseteq LineItems
      BY DEF LineItems
    <3>2. \A keys \in SUBSET LineItems :
             Both(keys) \subseteq R => \A k \in keys : w[k] = v[k] /\ q[k] = p[k]
      BY <1>1, <2>2 DEF Both, Years
    <3>3. name = "operating_margin_change" =>
            \A k \in {"operating_income", "revenue"} : w[k] = v[k] /\ q[k] = p[k]
      BY <3>1, <3>2, TrendRequires
    <3>4. name # "operating_margin_change" =>
            \A k \in {"accounts_receivable", "revenue"} : w[k] = v[k] /\ q[k] = p[k]
      BY <1>7, <3>1, <3>2, TrendRequires DEF TrendNames
    <3>5. Trends(w, q)[name] = Trends(v, p)[name]
      BY <1>7, <3>3, <3>4, TrendsStand
    <3> QED BY <1>2, <1>7, <2>2, <3>5, FactOf
  <2> QED BY <2>1, <2>2
<1>8. CASE name \in FlagNames
  <2>1. name = "going_concern_doubt" =>
          Fact(BuildFacts(g, accepted), name) = Fact(BuildFacts(f, accepted), name)
    BY <1>2, FactOf
  <2>2. name # "negative_ebitda_leverage"
    <3> SUFFICES ASSUME name = "negative_ebitda_leverage" PROVE FALSE
      OBVIOUS
    <3>1. name \notin LineItems \cup DOMAIN Inputs(v) \cup DOMAIN Grown \cup {"total_debt_growth"}
      BY FactDomains DEF LineItems, LevelNames, GrowthNames
    <3>2. R = {<< name, "now" >>}
      BY <3>1 DEF FactRequirements
    <3>3. << name, "now" >> \notin DOMAIN f.status
      <4>1. DOMAIN f.status = LineItems \X Years
        BY FilingAssumption
      <4> QED BY <3>1, <4>1
    <3>4. StatusOf(f, accepted, << name, "now" >>) = "none"
      BY <3>3 DEF StatusOf
    <3> QED BY <3>2, <3>4 DEF Covered
  <2> QED BY <1>8, <2>1, <2>2 DEF FlagNames
<1>9. CASE name \notin LineItems \cup LevelNames \cup GrowthNames \cup TrendNames \cup FlagNames
  BY <1>2, <1>9, FactOf
<1> QED
  BY <1>4, <1>5, <1>6, <1>7, <1>8, <1>9

\* No check is on the sum of debts by itself.
LEMMA ChecksAreNotOnDebt ==
  \A category : \A c \in Checks(category) : c.metric # "total_debt"
<1> SUFFICES ASSUME NEW category, NEW c \in Checks(category)
             PROVE  c.metric # "total_debt"
  OBVIOUS
<1>1. category \in DOMAIN CHECKS /\ c \in CHECKS[category]
  BY DEF Checks, Get
<1>2. DOMAIN CHECKS = Categories
  BY DEF CHECKS, Categories
<1>3. CASE category = "liquidity"
  BY <1>1, <1>3 DEF CHECKS, Above, Below
<1>4. CASE category = "solvency_leverage"
  BY <1>1, <1>4 DEF CHECKS, Above, Below
<1>5. CASE category = "profitability"
  BY <1>1, <1>5 DEF CHECKS, Above, Below
<1>6. CASE category = "cash_flow"
  BY <1>1, <1>6 DEF CHECKS, Above, Below
<1>7. CASE category = "earnings_quality"
  BY <1>1, <1>7 DEF CHECKS, Above, Below
<1>8. CASE category = "business_going_concern"
  BY <1>1, <1>8 DEF CHECKS, Above, Below
<1> QED
  BY <1>1, <1>2, <1>3, <1>4, <1>5, <1>6, <1>7, <1>8 DEF Categories

\* A filing with one reported amount changed.
LEMMA AlteredAgrees ==
  ASSUME NEW f \in Filings, NEW item \in LineItems, NEW year \in Years, NEW amount,
         Reported(f, item, year)
  PROVE  AgreesBut(f, Altered(f, item, year, amount), item, year)
<1>1. /\ "now" \in DOMAIN f /\ "before" \in DOMAIN f
      /\ DOMAIN f.now = LineItems
      /\ f.before # << >> => DOMAIN f.before = LineItems
  BY FilingAssumption
<1>2. CASE year = "now"
  <2>1. Altered(f, item, year, amount) = [f EXCEPT !.now[item] = amount]
    BY <1>2 DEF Altered
  <2> QED BY <1>1, <1>2, <2>1 DEF AgreesBut
<1>3. CASE year = "before"
  <2> DEFINE g == [f EXCEPT !.before[item] = amount]
  <2>1. Altered(f, item, year, amount) = g
    BY <1>3 DEF Altered
  <2>2. f.before # << >>
    BY <1>3 DEF Reported
  <2>3. g.now = f.now /\ g.before = [f.before EXCEPT ![item] = amount]
    BY <1>1
  <2>4. DOMAIN g.before = LineItems
    BY <1>1, <2>2, <2>3
  <2>5. g.before # << >>
    <3>1. DOMAIN << >> = {}
      OBVIOUS
    <3> QED BY <2>4, <3>1
  <2>6. \A k \in LineItems : k # item => g.before[k] = f.before[k]
    BY <1>1, <2>2, <2>3
  <2> HIDE DEF g
  <2> QED BY <1>1, <1>3, <2>1, <2>2, <2>3, <2>5, <2>6 DEF AgreesBut
<1> QED
  BY <1>2, <1>3 DEF Years


\* The rules are those that were accepted at the start, the filing is one of
\* those there are, and what is published was assessed from it.
AssessmentInv ==
    /\ RulesAreDistinct
    /\ filing \in Filings
    /\ published # << >> => published = << Assessed(filing, returned, risky) >>

\* It holds always.
LEMMA AssessmentInvariant == AssessmentSpec => []AssessmentInv
<1>1. AssessmentInit => AssessmentInv
  BY DEF AssessmentInit, AssessmentInv
<1>2. AssessmentInv /\ [AssessmentNext]_assessmentVars => AssessmentInv'
  <2> SUFFICES ASSUME AssessmentInv, [AssessmentNext]_assessmentVars
               PROVE  AssessmentInv'
    OBVIOUS
  <2>1. RulesAreDistinct
    BY DEF AssessmentInv
  <2>2. CASE Conclude
    <3>1. filing' = filing /\ returned' = returned /\ risky' = risky
      BY <2>2 DEF Conclude
    <3>2. published' = << Assessed(filing, returned, risky) >>
      BY <2>2 DEF Conclude
    <3>3. published' = << Assessed(filing', returned', risky') >>
      BY <3>1, <3>2
    <3> QED BY <2>1, <3>1, <3>3 DEF AssessmentInv, RulesAreDistinct
  <2>3. ASSUME NEW c \in Claims[filing.theme], Extract(c)
        PROVE  AssessmentInv'
    BY <2>1, <2>3 DEF Extract, AssessmentInv, RulesAreDistinct
  <2>4. CASE UNCHANGED assessmentVars
    BY <2>1, <2>4 DEF assessmentVars, AssessmentInv, RulesAreDistinct, Assessed
  <2> QED
    BY <2>2, <2>3, <2>4 DEF AssessmentNext
<1> QED
  BY <1>1, <1>2, PTL DEF AssessmentSpec

\* ProvenFindingsStand, for any filings, claims, rules and amounts: no proven rule
\* and no proven contradiction rests on a line item that is not verified.
THEOREM ProvenFindingsAlwaysStand == AssessmentSpec => []ProvenFindingsStand
<1>1. AssessmentInv => ProvenFindingsStand
  <2> SUFFICES ASSUME AssessmentInv, published # << >>,
                      NEW item \in LineItems, NEW year \in Years, NEW amount \in Amounts,
                      Reported(filing, item, year),
                      filing.status[<< item, year >>] # "verified"
               PROVE  LET accepted == Accepted(returned)
                          before == BuildFacts(filing, accepted)
                          facts == BuildFacts(Altered(filing, item, year, amount), accepted)
                      IN /\ \A i \in DOMAIN Rules :
                              Rules[i].id \in published[1].proven =>
                                \A c \in Rules[i].conditions : Holds(facts, c)
                         /\ \A claim \in published[1].bound :
                              Opposing(claim, before) \subseteq Opposing(claim, facts)
    BY DEF ProvenFindingsStand
  <2> DEFINE accepted == Accepted(returned)
             g == Altered(filing, item, year, amount)
             before == BuildFacts(filing, accepted)
             facts == BuildFacts(g, accepted)
             signals == Triggered(before)
             contradictions == Contradictions(accepted, before)
  <2>1. filing \in Filings
    BY DEF AssessmentInv
  <2>2. AgreesBut(filing, g, item, year)
    BY <2>1, AlteredAgrees
  <2>3. \A name : name # "total_debt" /\ Covered(filing, accepted, name) =>
           Fact(facts, name) = Fact(before, name)
    BY <2>1, <2>2, FactsStand
  <2>4. \A c : /\ c.metric # "total_debt" /\ Covered(filing, accepted, c.metric)
              /\ Holds(before, c) => Holds(facts, c)
    <3> HIDE DEF facts, before, accepted
    <3> QED BY <2>3 DEF Holds
  <2>5. /\ published[1].proven =
             {s.id : s \in {x \in EffectiveSignals(signals) :
                              \A n \in Names(x) : Covered(filing, accepted, n)}}
        /\ published[1].bound =
             {c \in ToSet(contradictions) : ContradictionProven(filing, accepted, c, before)}
    <3>1. published[1] = Assessed(filing, returned, risky)
      BY DEF AssessmentInv
    <3> QED BY <3>1 DEF Assessed
  <2>6. ASSUME NEW i \in DOMAIN Rules, Rules[i].id \in published[1].proven,
               NEW c \in Rules[i].conditions
        PROVE  Holds(facts, c)
    <3>1. PICK s \in EffectiveSignals(signals) :
             s.id = Rules[i].id /\ \A n \in Names(s) : Covered(filing, accepted, n)
      BY <2>5, <2>6
    <3>2. PICK k \in signals : s = Rules[k]
      BY <3>1 DEF EffectiveSignals
    <3>3. k \in DOMAIN Rules /\ \A d \in Rules[k].conditions : Holds(before, d)
      BY <3>2 DEF Triggered
    <3>4. k = i
      BY <3>1, <3>2, <3>3 DEF AssessmentInv, RulesAreDistinct
    <3>5. Holds(before, c) /\ Covered(filing, accepted, c.metric)
      BY <2>6, <3>1, <3>2, <3>3, <3>4 DEF Names
    <3>6. c.metric # "total_debt"
      BY <2>6, RuleAssumption
    <3> QED BY <2>4, <3>5, <3>6
  <2>7. ASSUME NEW claim \in published[1].bound, NEW c \in Opposing(claim, before)
        PROVE  c \in Opposing(claim, facts)
    <3>1. Covered(filing, accepted, c.metric)
      BY <2>5, <2>7 DEF ContradictionProven
    <3>2. /\ c \in Checks(claim.category) /\ Fact(before, c.metric) # Missing
          /\ Holds(before, c)
      BY <2>7 DEF Opposing, Available
    <3>3. c.metric # "total_debt"
      BY <3>2, ChecksAreNotOnDebt
    <3>4. Fact(facts, c.metric) # Missing /\ Holds(facts, c)
      BY <2>3, <2>4, <3>1, <3>2, <3>3
    <3> HIDE DEF facts
    <3> QED BY <3>2, <3>4 DEF Opposing, Available
  <2> QED
    BY <2>6, <2>7
<1> QED
  BY <1>1, AssessmentInvariant, PTL

-----------------------------------------------------------------------------
(* The assessment: the same structure shows no drift.                      *)

\* A difference of two fractions that are equal crosswise is zero.
LEMMA CrosswiseZero ==
  ASSUME NEW x \in Int, NEW y \in Int, NEW z \in Int, NEW w \in Int, x * w = z * y
  PROVE  Zero(Reduced(x * w + (-z) * y, y * w))
<1>1. (-z) * y = -(z * y)
  OBVIOUS
<1>2. x * w \in Int /\ z * y \in Int /\ y * w \in Int
  OBVIOUS
<1>3. x * w + (-z) * y = 0
  BY <1>1, <1>2
<1>4. \A k \in Int : Reduced(0, k)[1] = 0
  <2> SUFFICES ASSUME NEW k \in Int
               PROVE  Reduced(0, k)[1] = 0
    OBVIOUS
  <2>1. CASE k > 0
    BY <2>1 DEF Reduced
  <2>2. CASE ~(k > 0)
    <3>1. Reduced(0, k) = << -0, -k >>
      BY <2>2 DEF Reduced
    <3> QED BY <3>1
  <2> QED BY <2>1, <2>2
<1> QED
  BY <1>2, <1>3, <1>4 DEF Zero

\* A known fraction, and what is left of one whose sign went to the numerator.
Proper(a) == a \in Int \X (Nat \ {0})

\* The two cases of a reduction.
LEMMA ReducedIsProper ==
  ASSUME NEW n \in Int, NEW d \in Int, d # 0
  PROVE  /\ Proper(Reduced(n, d)) /\ Reduced(n, d) # Missing
         /\ d > 0 => Reduced(n, d) = << n, d >>
         /\ d < 0 => Reduced(n, d) = << -n, -d >>
BY DEF Reduced, Proper, Missing

\* A number that is known has a denominator.
LEMMA ProperFractions ==
  ASSUME NEW a \in Fractions
  PROVE  a # Missing => Proper(a) /\ a[1] \in Int /\ a[2] \in Nat \ {0} /\ a = << a[1], a[2] >>
BY DEF Fractions, Proper

\* a is to b as c is to d.
Alike(a, b, c, d) == a[1] * d[1] * b[2] * c[2] = b[1] * c[1] * a[2] * d[2]

\* So the quotients are equal crosswise, whatever their signs.
LEMMA QuotientsAlike ==
  ASSUME NEW a, NEW b, NEW c, NEW d, Proper(a), Proper(b), Proper(c), Proper(d),
         b[1] # 0, d[1] # 0, Alike(a, b, c, d)
  PROVE  /\ Proper(Div(a, b)) /\ Proper(Div(c, d))
         /\ Div(a, b)[1] * Div(c, d)[2] = Div(c, d)[1] * Div(a, b)[2]
<1> DEFINE a1 == a[1]  a2 == a[2]  b1 == b[1]  b2 == b[2]
           c1 == c[1]  c2 == c[2]  d1 == d[1]  d2 == d[2]
<1>1. /\ a1 \in Int /\ b1 \in Int /\ c1 \in Int /\ d1 \in Int
      /\ a2 \in Nat \ {0} /\ b2 \in Nat \ {0} /\ c2 \in Nat \ {0} /\ d2 \in Nat \ {0}
  BY DEF Proper
<1>2. a # Missing /\ b # Missing /\ c # Missing /\ d # Missing
  BY <1>1 DEF Missing
<1>3. Div(a, b) = Reduced(a1 * b2, a2 * b1) /\ Div(c, d) = Reduced(c1 * d2, c2 * d1)
  BY <1>2 DEF Div, Known
<1>4. a1 * d1 * b2 * c2 = b1 * c1 * a2 * d2
  BY DEF Alike
<1> HIDE DEF a1, a2, b1, b2, c1, c2, d1, d2
<1> DEFINE X == a1 * b2  Y == a2 * b1  Z == c1 * d2  W == c2 * d1
<1>5. X \in Int /\ Y \in Int /\ Z \in Int /\ W \in Int
  BY <1>1
<1>6. Y # 0 /\ W # 0
  <2>1. \A m, n \in Int : m # 0 /\ n # 0 => m * n # 0
    OBVIOUS
  <2>2. /\ a2 \in Int /\ a2 # 0 /\ b1 \in Int /\ b1 # 0
        /\ c2 \in Int /\ c2 # 0 /\ d1 \in Int /\ d1 # 0
    BY <1>1 DEF b1, d1
  <2> QED BY <2>1, <2>2
<1>7. X * W = Z * Y
  BY <1>1, <1>4
<1> HIDE DEF X, Y, Z, W
<1>8. /\ Proper(Reduced(X, Y)) /\ Proper(Reduced(Z, W))
      /\ Y > 0 => Reduced(X, Y) = << X, Y >>
      /\ Y < 0 => Reduced(X, Y) = << -X, -Y >>
      /\ W > 0 => Reduced(Z, W) = << Z, W >>
      /\ W < 0 => Reduced(Z, W) = << -Z, -W >>
  BY <1>5, <1>6, ReducedIsProper
<1>9. Reduced(X, Y)[1] * Reduced(Z, W)[2] = Reduced(Z, W)[1] * Reduced(X, Y)[2]
  <2>1. CASE Y > 0 /\ W > 0
    BY <1>5, <1>7, <1>8, <2>1
  <2>2. CASE Y > 0 /\ W < 0
    <3>1. X * (-W) = (-Z) * Y
      BY <1>5, <1>7
    <3> QED BY <1>5, <1>8, <2>2, <3>1
  <2>3. CASE Y < 0 /\ W > 0
    <3>1. (-X) * W = Z * (-Y)
      BY <1>5, <1>7
    <3> QED BY <1>5, <1>8, <2>3, <3>1
  <2>4. CASE Y < 0 /\ W < 0
    <3>1. (-X) * (-W) = (-Z) * (-Y)
      BY <1>5, <1>7
    <3> QED BY <1>5, <1>8, <2>4, <3>1
  <2> QED BY <1>5, <1>6, <2>1, <2>2, <2>3, <2>4
<1> QED
  BY <1>3, <1>8, <1>9 DEF X, Y, Z, W

\* The difference of two numbers that are equal crosswise.
LEMMA DifferenceIsZero ==
  ASSUME NEW q, NEW r, Proper(q), Proper(r), q[1] * r[2] = r[1] * q[2]
  PROVE  Zero(Plus(q, Neg(r)))
<1>1. /\ q[1] \in Int /\ q[2] \in Int /\ r[1] \in Int /\ r[2] \in Int
      /\ q # Missing /\ r # Missing /\ r[2] # 0
  BY DEF Proper, Missing
<1>2. Neg(r) = << -r[1], r[2] >> /\ Neg(r) # Missing
  BY <1>1 DEF Neg, Missing
<1>3. Plus(q, Neg(r)) = Reduced(q[1] * r[2] + (-r[1]) * q[2], q[2] * r[2])
  BY <1>1, <1>2 DEF Plus, Known
<1> QED
  BY <1>1, <1>3, CrosswiseZero

\* What is known is computed from what is known.
LEMMA KnownParts ==
  /\ \A a, b : Plus(a, b) # Missing => a # Missing /\ b # Missing
  /\ \A a, b : Div(a, b) # Missing => a # Missing /\ b # Missing /\ b[1] # 0
  /\ \A a : Neg(a) # Missing => a # Missing
  /\ \A a, n : Times(a, n) # Missing => a # Missing
  /\ \A a, b : GrowthRatio(a, b) # Missing => a # Missing /\ b # Missing /\ b[1] > 0
<1>1. \A a, b : Plus(a, b) # Missing => a # Missing /\ b # Missing
  BY DEF Plus, Known
<1>2. \A a, b : Div(a, b) # Missing => a # Missing /\ b # Missing /\ b[1] # 0
  BY DEF Div, Known
<1>3. \A a : Neg(a) # Missing => a # Missing
  BY DEF Neg
<1>4. \A a, n : Times(a, n) # Missing => a # Missing
  BY DEF Times
<1>5. \A a, b : GrowthRatio(a, b) # Missing => a # Missing /\ b # Missing /\ b[1] > 0
  BY DEF GrowthRatio, Known
<1> QED
  BY <1>1, <1>2, <1>3, <1>4, <1>5

\* A growth, over one denominator.
LEMMA GrowthIs ==
  ASSUME NEW a, NEW c, Proper(a), Proper(c), c[1] > 0
  PROVE  /\ GrowthRatio(a, c) =
               << (a[1] * c[2] + (-c[1]) * a[2]) * c[2], (a[2] * c[2]) * c[1] >>
         /\ Proper(GrowthRatio(a, c))
<1>1. /\ a[1] \in Int /\ c[1] \in Int /\ a[2] \in Nat \ {0} /\ c[2] \in Nat \ {0}
      /\ a # Missing /\ c # Missing
  BY DEF Proper, Missing
<1>2. Neg(c) = << -c[1], c[2] >> /\ Neg(c) # Missing
  BY <1>1 DEF Neg, Missing
<1> DEFINE n == a[1] * c[2] + (-c[1]) * a[2]
           d == a[2] * c[2]
<1>3. \A i, j \in Int : i > 0 /\ j > 0 => i * j > 0 /\ i * j \in Int
  OBVIOUS
<1>4. n \in Int /\ d \in Int /\ d > 0
  BY <1>1, <1>3
<1>5. Plus(a, Neg(c)) = Reduced(n, d)
  BY <1>1, <1>2 DEF Plus, Known
<1> HIDE DEF n, d
<1>6. Plus(a, Neg(c)) = << n, d >> /\ << n, d >> # Missing
  BY <1>4, <1>5 DEF Reduced, Missing
<1>7. Div(<< n, d >>, c) = Reduced(n * c[2], d * c[1])
  BY <1>1, <1>6 DEF Div, Known
<1>8. n * c[2] \in Int /\ d * c[1] \in Int /\ d * c[1] > 0
  BY <1>1, <1>3, <1>4
<1>9. Reduced(n * c[2], d * c[1]) = << n * c[2], d * c[1] >>
  BY <1>8 DEF Reduced
<1>10. GrowthRatio(a, c) = << n * c[2], d * c[1] >>
  BY <1>1, <1>6, <1>7, <1>9 DEF GrowthRatio, Known
<1> QED
  BY <1>8, <1>10 DEF n, d, Proper

\* What grew alike shows the same growth.
LEMMA GrowthsAlike ==
  ASSUME NEW a, NEW b, NEW c, NEW d, Proper(a), Proper(b), Proper(c), Proper(d),
         c[1] > 0, d[1] > 0, Alike(a, b, c, d)
  PROVE  GrowthRatio(a, c)[1] * GrowthRatio(b, d)[2] = GrowthRatio(b, d)[1] * GrowthRatio(a, c)[2]
<1> DEFINE a1 == a[1]  a2 == a[2]  b1 == b[1]  b2 == b[2]
           c1 == c[1]  c2 == c[2]  d1 == d[1]  d2 == d[2]
<1>1. /\ a1 \in Int /\ b1 \in Int /\ c1 \in Int /\ d1 \in Int
      /\ a2 \in Int /\ b2 \in Int /\ c2 \in Int /\ d2 \in Int
  BY DEF Proper
<1>2. a1 * d1 * b2 * c2 = b1 * c1 * a2 * d2
  BY DEF Alike
<1>3. /\ GrowthRatio(a, c) = << (a1 * c2 + (-c1) * a2) * c2, (a2 * c2) * c1 >>
      /\ GrowthRatio(b, d) = << (b1 * d2 + (-d1) * b2) * d2, (b2 * d2) * d1 >>
  BY GrowthIs
<1> HIDE DEF a1, a2, b1, b2, c1, c2, d1, d2
<1>4. ((a1 * c2 + (-c1) * a2) * c2) * ((b2 * d2) * d1)
         = (c2 * d2) * (a1 * d1 * b2 * c2) - (c2 * d2) * (a2 * b2 * c1 * d1)
  BY <1>1
<1>5. ((b1 * d2 + (-d1) * b2) * d2) * ((a2 * c2) * c1)
         = (c2 * d2) * (b1 * c1 * a2 * d2) - (c2 * d2) * (a2 * b2 * c1 * d1)
  BY <1>1
<1> QED
  BY <1>2, <1>3, <1>4, <1>5

\* SameStructureNoDrift: on what a proportional company reports, every change and
\* the gap of build_facts are zero.
THEOREM SameStructureNeverDrifts == AssessmentSpec => []SameStructureNoDrift
<1>1. AssessmentInv => SameStructureNoDrift
  <2> DEFINE v == filing.now
             p == filing.before
  <2> SUFFICES ASSUME AssessmentInv, p # << >>,
                      \A a, b \in LineItems :
                         Known({v[a], p[b]}) /\ Known({v[b], p[a]}) =>
                            v[a][1] * p[b][1] * v[b][2] * p[a][2] = v[b][1] * p[a][1] * v[a][2] * p[b][2],
                      NEW name \in DOMAIN Trends(v, p), Trends(v, p)[name] # Missing
               PROVE  Zero(Trends(v, p)[name])
    BY DEF SameStructureNoDrift
  <2>1. \A a \in LineItems : v[a] \in Fractions /\ p[a] \in Fractions
    BY FilingAssumption DEF AssessmentInv
  <2>2. \A a, b \in LineItems :
           v[a] # Missing /\ v[b] # Missing /\ p[a] # Missing /\ p[b] # Missing =>
              /\ Proper(v[a]) /\ Proper(v[b]) /\ Proper(p[a]) /\ Proper(p[b])
              /\ Alike(v[a], v[b], p[a], p[b])
    BY <2>1, ProperFractions DEF Alike, Known
  <2>3. {"operating_income", "revenue", "accounts_receivable"} \subseteq LineItems
    BY DEF LineItems
  <2> HIDE DEF v, p
  <2>4. name \in TrendNames
    BY FactDomains
  <2>5. CASE name = "operating_margin_change"
    <3> DEFINE q == Div(v.operating_income, v.revenue)
               r == Div(p.operating_income, p.revenue)
    <3>1. Levels(v, << >>).operating_margin = q /\ Levels(p, << >>).operating_margin = r
      BY DEF Levels
    <3>2. Trends(v, p)[name] = Plus(q, Neg(r))
      BY <2>5, <3>1 DEF Trends, ChangeBase
    <3>3. q # Missing /\ r # Missing
      BY <3>2, KnownParts
    <3>4. /\ v.operating_income # Missing /\ v.revenue # Missing /\ v.revenue[1] # 0
          /\ p.operating_income # Missing /\ p.revenue # Missing /\ p.revenue[1] # 0
      BY <3>3, KnownParts
    <3>5. Proper(q) /\ Proper(r) /\ q[1] * r[2] = r[1] * q[2]
      BY <2>2, <2>3, <3>4, QuotientsAlike
    <3> HIDE DEF q, r
    <3> QED BY <3>2, <3>5, DifferenceIsZero
  <2>6. CASE name = "receivable_days_change"
    <3> DEFINE q == Div(v.accounts_receivable, v.revenue)
               r == Div(p.accounts_receivable, p.revenue)
    <3>1. /\ Levels(v, << >>).receivable_days = Times(q, 365)
          /\ Levels(p, << >>).receivable_days = Times(r, 365)
      BY DEF Levels
    <3>2. Trends(v, p)[name] = Plus(Times(q, 365), Neg(Times(r, 365)))
      BY <2>6, <3>1 DEF Trends, ChangeBase
    <3>3. q # Missing /\ r # Missing
      BY <3>2, KnownParts
    <3>4. /\ v.accounts_receivable # Missing /\ v.revenue # Missing /\ v.revenue[1] # 0
          /\ p.accounts_receivable # Missing /\ p.revenue # Missing /\ p.revenue[1] # 0
      BY <3>3, KnownParts
    <3>5. Proper(q) /\ Proper(r) /\ q[1] * r[2] = r[1] * q[2]
      BY <2>2, <2>3, <3>4, QuotientsAlike
    <3> HIDE DEF q, r
    <3>6. Times(q, 365) = << q[1] * 365, q[2] >> /\ Times(r, 365) = << r[1] * 365, r[2] >>
      BY <3>3 DEF Times
    <3>7. q[1] \in Int /\ q[2] \in Nat \ {0} /\ r[1] \in Int /\ r[2] \in Nat \ {0}
      BY <3>5 DEF Proper
    <3>8. Proper(Times(q, 365)) /\ Proper(Times(r, 365))
      BY <3>6, <3>7 DEF Proper
    <3>9. (q[1] * 365) * r[2] = (r[1] * 365) * q[2]
      <4>1. \A i, j \in Int : (i * 365) * j = 365 * (i * j)
        OBVIOUS
      <4>2. (q[1] * 365) * r[2] = 365 * (q[1] * r[2]) /\ (r[1] * 365) * q[2] = 365 * (r[1] * q[2])
        BY <3>7, <4>1
      <4> QED BY <3>5, <4>2
    <3> QED BY <3>2, <3>6, <3>8, <3>9, DifferenceIsZero
  <2>7. CASE name = "accounts_receivable_growth_gap"
    <3> DEFINE q == GrowthRatio(v.accounts_receivable, p.accounts_receivable)
               r == GrowthRatio(v.revenue, p.revenue)
    <3>1. /\ Growths(v, p).accounts_receivable_growth = q
          /\ Growths(v, p).revenue_growth = r
      BY DEF Growths
    <3>2. Trends(v, p)[name] = Plus(q, Neg(r))
      BY <2>7, <3>1 DEF Trends
    <3>3. q # Missing /\ r # Missing
      BY <3>2, KnownParts
    <3>4. /\ v.accounts_receivable # Missing /\ v.revenue # Missing
          /\ p.accounts_receivable # Missing /\ p.accounts_receivable[1] > 0
          /\ p.revenue # Missing /\ p.revenue[1] > 0
      BY <3>3, KnownParts
    <3>5. Proper(q) /\ Proper(r) /\ q[1] * r[2] = r[1] * q[2]
      BY <2>2, <2>3, <3>4, GrowthIs, GrowthsAlike
    <3> HIDE DEF q, r
    <3> QED BY <3>2, <3>5, DifferenceIsZero
  <2> QED
    BY <2>4, <2>5, <2>6, <2>7 DEF TrendNames
<1> QED
  BY <1>1, AssessmentInvariant, PTL
=============================================================================

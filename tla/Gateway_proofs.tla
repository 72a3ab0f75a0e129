--------------------------- MODULE Gateway_proofs ---------------------------
(***************************************************************************)
(* Proofs about the parts that stand before and behind the handlers.       *)
(* RateLimiter keeps its quota in every window less the time a transaction *)
(* can last, refuses nobody who has not spent it, keeps its table within   *)
(* the cap but for limiters that pass the check together, and deadlocks    *)
(* only where a sweep takes part, for any limiters, keys, limits, window,  *)
(* cap and delay.  API keys are accounted for, for any number of callers,  *)
(* organizations and credentials in either store; and so are jobs, for any *)
(* workers, jobs and attempts.  The in-process fallback forgets only what  *)
(* a key spent before a crowd of others pushed it out, for any keys,       *)
(* limit, window and number of deques.                                     *)
(***************************************************************************)
EXTENDS RateLimiter, Credentials, LocalLimiter, JobQueue, FiniteSetTheorems, SequenceTheorems,
        WellFoundedInduction, TLAPS

Spending == {"allowed", "lost"}

RowOf(a) == [call |-> a.call, key |-> a.key, at |-> a.stamp]

\* The rows of its key that a transaction counts.
Mine(l) == {r \in Seen(l) : r.key = tx[l].key}

\* A transaction began within the delay and drops only rows past the window.
Ages ==
    \A l \in Limiters : tx[l] # None =>
        /\ tx[l].stamp <= clock
        /\ clock <= tx[l].stamp + MaxDelay
        /\ \A r \in tx[l].dropped : r.at < tx[l].stamp - Window

\* Every call is under way once, or answered once.
Recent ==
    /\ \A l \in Limiters : tx[l] # None => tx[l].call <= calls
    /\ \A l, m \in Limiters :
          (l # m /\ tx[l] # None /\ tx[m] # None) => tx[l].call # tx[m].call
    /\ \A a \in answers : a.call <= calls
    /\ \A a \in answers, l \in Limiters : tx[l] # None => tx[l].call # a.call
    /\ \A a, b \in answers : a.call = b.call => a = b

\* The advisory lock excludes.
Locked ==
    \A l, m \in Limiters :
        (/\ l # m
         /\ tx[l] # None /\ tx[m] # None
         /\ tx[l].key = tx[m].key
         /\ tx[l].step \notin {"sweep", "lock"})
            => tx[m].step \in {"sweep", "lock"}

Small == IsFiniteSet(rows) /\ IsFiniteSet(answers)

\* An admission is a row until it is past the window.
Kept ==
    \A a \in answers :
        /\ a.stamp <= a.at
        /\ a.at <= a.stamp + MaxDelay
        /\ a.at <= clock
        /\ a.verdict \in Spending => (RowOf(a) \in rows \/ a.stamp < clock - Window)

\* A row is an admission.
Accounted ==
    \A r \in rows : \E a \in answers : a.verdict \in Spending /\ RowOf(a) = r

\* What a transaction has found out still holds when it acts on it.
Counted ==
    \A l \in Limiters :
        At(l, "admit") => Cardinality(Mine(l)) < Limit[tx[l].key]

Pruned ==
    \A l \in Limiters :
        (At(l, "count") \/ At(l, "decide"))
            => \A r \in Mine(l) : r.at >= tx[l].stamp - Window

\* Spent, of any set of answers.
Within(A, k, from, to) ==
    {a \in A : a.key = k /\ a.verdict \in Spending /\ from <= a.at /\ a.at <= to}

Earned ==
    \A l \in Limiters :
        At(l, "limit") =>
            Cardinality(Within(answers, tx[l].key, tx[l].stamp - Window, clock))
                >= Limit[tx[l].key]

Base == TypeOK /\ Ages /\ Recent /\ Locked

IInv == Base /\ Small /\ Kept /\ Accounted /\ Counted /\ Pruned /\ Earned
             /\ QuotaHolds /\ RefusalsAreEarned

-----------------------------------------------------------------------------
(* The shapes of a step. *)

\* Transaction l goes on: nothing but its own record changes.
Moves(l) ==
    /\ tx[l] # None
    /\ tx' = [tx EXCEPT ![l] = tx'[l]]
    /\ tx'[l] \in Transaction
    /\ tx'[l].call = tx[l].call
    /\ tx'[l].key = tx[l].key
    /\ tx'[l].stamp = tx[l].stamp
    /\ \A r \in tx'[l].dropped :
          r \in tx[l].dropped \/ (r \in rows /\ r.at < tx[l].stamp - Window)
    /\ UNCHANGED <<clock, rows, lastSweep, answers, calls>>

\* Transaction l ends: the table keeps what it saw and what is still fresh.
Ends(l) ==
    /\ tx[l] # None
    /\ tx' = [tx EXCEPT ![l] = None]
    /\ UNCHANGED <<clock, lastSweep, calls>>

LEMMA Arithmetic ==
    /\ Window \in Nat /\ Retention \in Nat /\ MaxDelay \in Nat
    /\ MaxDelay <= Window /\ Window <= Retention
    /\ Limit \in [Keys -> Nat]
    /\ MaxTime \in Nat /\ MaxCalls \in Nat
BY LimiterAssumption

\* Every step before the verdict moves its own transaction along, and no more.
LEMMA StepsMove ==
    ASSUME TypeOK, NEW l \in Limiters,
           Sweep(l) \/ SkipSweep(l) \/ LockKey(l) \/ Prune(l) \/ Count(l) \/ Decide(l)
    PROVE  Moves(l)
<1> USE Arithmetic
<1>0. tx \in [Limiters -> Transaction \cup {None}] /\ rows \subseteq Row
  BY DEF TypeOK
<1>1. CASE Sweep(l)
  <2>1. tx[l] # None /\ tx[l] \in Transaction
    BY <1>0, <1>1 DEF Sweep, At
  <2>2. PICK R \in Sweepable(l) :
            tx' = [tx EXCEPT ![l].step = "lock", ![l].dropped = R, ![l].sweeping = TRUE]
    BY <1>1 DEF Sweep
  <2>3. R \subseteq rows /\ \A r \in R : r.at < tx[l].stamp - Retention
    BY <2>2 DEF Sweepable, Old
  <2>4. R \subseteq Row
    BY <2>3, <1>0
  <2>5. \A r \in R : r.at < tx[l].stamp - Window
    BY <2>1, <2>3, <2>4 DEF Transaction, Row, Times
  <2>6. tx'[l] = [tx[l] EXCEPT !.step = "lock", !.dropped = R, !.sweeping = TRUE]
    BY <1>0, <2>2
  <2>7. tx'[l] \in Transaction
    BY <2>1, <2>4, <2>6 DEF Transaction, Steps
  <2>8. tx' = [tx EXCEPT ![l] = tx'[l]]
    BY <1>0, <2>2
  <2>9. /\ tx'[l].call = tx[l].call /\ tx'[l].key = tx[l].key
        /\ tx'[l].stamp = tx[l].stamp /\ tx'[l].dropped = R
    BY <2>1, <2>6 DEF Transaction
  <2>10. UNCHANGED <<clock, rows, lastSweep, answers, calls>>
    BY <1>1 DEF Sweep
  <2> QED
    BY <2>1, <2>3, <2>5, <2>7, <2>8, <2>9, <2>10 DEF Moves
<1>2. CASE SkipSweep(l)
  <2>1. tx[l] # None /\ tx[l] \in Transaction
    BY <1>0, <1>2 DEF SkipSweep, At
  <2>2. tx' = [tx EXCEPT ![l].step = "lock"] /\ UNCHANGED <<clock, rows, lastSweep, answers, calls>>
    BY <1>2 DEF SkipSweep
  <2>3. tx'[l] = [tx[l] EXCEPT !.step = "lock"] /\ tx' = [tx EXCEPT ![l] = tx'[l]]
    BY <1>0, <2>2
  <2> QED
    BY <2>1, <2>2, <2>3 DEF Moves, Transaction, Steps
<1>3. CASE LockKey(l)
  <2>1. tx[l] # None /\ tx[l] \in Transaction
    BY <1>0, <1>3 DEF LockKey, At
  <2>2. tx' = [tx EXCEPT ![l].step = "prune"] /\ UNCHANGED <<clock, rows, lastSweep, answers, calls>>
    BY <1>3 DEF LockKey
  <2>3. tx'[l] = [tx[l] EXCEPT !.step = "prune"] /\ tx' = [tx EXCEPT ![l] = tx'[l]]
    BY <1>0, <2>2
  <2> QED
    BY <2>1, <2>2, <2>3 DEF Moves, Transaction, Steps
<1>4. CASE Prune(l)
  <2> DEFINE P == Prunable(l)
  <2>1. tx[l] # None /\ tx[l] \in Transaction
    BY <1>0, <1>4 DEF Prune, At
  <2>2. /\ tx' = [tx EXCEPT ![l].step = "count", ![l].dropped = @ \cup P]
        /\ UNCHANGED <<clock, rows, lastSweep, answers, calls>>
    BY <1>4 DEF Prune
  <2>3. P \subseteq rows /\ P \subseteq Row /\ \A r \in P : r.at < tx[l].stamp - Window
    BY <1>0 DEF Prunable, Old
  <2> HIDE DEF P
  <2>4. tx'[l] = [tx[l] EXCEPT !.step = "count", !.dropped = tx[l].dropped \cup P]
    BY <1>0, <2>2
  <2>5. tx' = [tx EXCEPT ![l] = tx'[l]]
    BY <1>0, <2>2
  <2>6. tx[l].dropped \cup P \subseteq Row
    BY <2>1, <2>3 DEF Transaction
  <2>7. tx'[l] \in Transaction
    BY <2>1, <2>4, <2>6 DEF Transaction, Steps
  <2>8. /\ tx'[l].call = tx[l].call /\ tx'[l].key = tx[l].key
        /\ tx'[l].stamp = tx[l].stamp /\ tx'[l].dropped = tx[l].dropped \cup P
    BY <2>1, <2>4 DEF Transaction
  <2> QED
    BY <2>1, <2>2, <2>3, <2>5, <2>7, <2>8 DEF Moves
<1>5. CASE Count(l)
  <2> DEFINE p == MaxRows > 0 /\ LiveTotal(l) >= MaxRows \div 2
  <2>1. tx[l] # None /\ tx[l] \in Transaction
    BY <1>0, <1>5 DEF Count, At
  <2>2. /\ tx' = [tx EXCEPT ![l].step = "decide", ![l].pressed = p]
        /\ UNCHANGED <<clock, rows, lastSweep, answers, calls>>
    BY <1>5 DEF Count
  <2>3. p \in BOOLEAN
    OBVIOUS
  <2> HIDE DEF p
  <2>4. tx'[l] = [tx[l] EXCEPT !.step = "decide", !.pressed = p]
    BY <1>0, <2>2
  <2>5. tx' = [tx EXCEPT ![l] = tx'[l]]
    BY <1>0, <2>2
  <2>6. tx'[l] \in Transaction
    BY <2>1, <2>3, <2>4 DEF Transaction, Steps
  <2>7. /\ tx'[l].call = tx[l].call /\ tx'[l].key = tx[l].key
        /\ tx'[l].stamp = tx[l].stamp /\ tx'[l].dropped = tx[l].dropped
    BY <2>1, <2>4 DEF Transaction
  <2> QED
    BY <2>1, <2>2, <2>5, <2>6, <2>7 DEF Moves
<1>6. CASE Decide(l)
  <2> DEFINE s == IF Admitted(l) THEN "admit" ELSE "limit"
  <2>1. tx[l] # None /\ tx[l] \in Transaction
    BY <1>0, <1>6 DEF Decide, At
  <2>2. tx' = [tx EXCEPT ![l].step = s] /\ UNCHANGED <<clock, rows, lastSweep, answers, calls>>
    BY <1>6 DEF Decide
  <2>3. s \in Steps
    BY DEF Steps
  <2> HIDE DEF s
  <2>4. tx'[l] = [tx[l] EXCEPT !.step = s] /\ tx' = [tx EXCEPT ![l] = tx'[l]]
    BY <1>0, <2>2
  <2> QED
    BY <2>1, <2>2, <2>3, <2>4 DEF Moves, Transaction
<1> QED
  BY <1>1, <1>2, <1>3, <1>4, <1>5, <1>6

\* A transaction that ends either leaves no trace or commits what it saw.
LEMMA StepsEnd ==
    ASSUME TypeOK, NEW l \in Limiters,
           Refuse(l) \/ RefuseNovel(l) \/ Fail(l) \/ Limited(l) \/ Admit(l)
    PROVE  Ends(l)
<1>1. CASE Refuse(l)
  BY <1>1 DEF Refuse, Unavailable, Ends, At
<1>2. CASE RefuseNovel(l)
  BY <1>2 DEF RefuseNovel, Unavailable, Ends, At
<1>3. CASE Fail(l)
  BY <1>3 DEF Fail, Unavailable, Ends
<1>4. CASE Limited(l)
  BY <1>4 DEF Limited, Answered, Ends, At
<1>5. CASE Admit(l)
  BY <1>5 DEF Admit, Answered, Ends, At
<1> QED
  BY <1>1, <1>2, <1>3, <1>4, <1>5

\* Answers and rows a transaction can leave behind.
NewAnswer(l, verdict) ==
    [ call |-> tx[l].call, key |-> tx[l].key, stamp |-> tx[l].stamp,
      at |-> clock, verdict |-> verdict ]

NewRow(l) == [call |-> tx[l].call, key |-> tx[l].key, at |-> tx[l].stamp]

Rollback(l) == Ends(l) /\ rows' = rows /\ answers' = answers

\* The five kinds of step.
LEMMA Shapes ==
    ASSUME TypeOK, Next
    PROVE  \/ Tick
           \/ \E l \in Limiters, k \in Keys : Begin(l, k)
           \/ \E l \in Limiters : Moves(l) /\ (Sweep(l) \/ SkipSweep(l) \/ LockKey(l)
                                              \/ Prune(l) \/ Count(l) \/ Decide(l))
           \/ \E l \in Limiters : Rollback(l)
           \/ \E l \in Limiters : Ends(l) /\ Limited(l)
           \/ \E l \in Limiters : Ends(l) /\ Admit(l)
<1>1. ASSUME NEW l \in Limiters, Refuse(l) \/ RefuseNovel(l) \/ Fail(l)
      PROVE  Rollback(l)
  <2>1. Ends(l)
    BY <1>1, StepsEnd
  <2>2. Unavailable(l)
    BY <1>1 DEF Refuse, RefuseNovel, Fail
  <2> QED
    BY <2>1, <2>2 DEF Rollback, Unavailable
<1>2. ASSUME NEW l \in Limiters, Limited(l) \/ Admit(l)
      PROVE  Ends(l)
  BY <1>2, StepsEnd
<1>3. ASSUME NEW l \in Limiters,
             Sweep(l) \/ SkipSweep(l) \/ LockKey(l) \/ Prune(l) \/ Count(l) \/ Decide(l)
      PROVE  Moves(l)
  BY <1>3, StepsMove
<1> QED
  BY <1>1, <1>2, <1>3 DEF Next

-----------------------------------------------------------------------------
(* Types. *)

LEMMA Started ==
    ASSUME TypeOK, NEW l \in Limiters, NEW k \in Keys, Begin(l, k)
    PROVE  /\ tx[l] = None
           /\ calls' = calls + 1 /\ calls' \in 0..MaxCalls
           /\ UNCHANGED <<clock, rows, answers>>
           /\ tx' = [tx EXCEPT ![l] = tx'[l]]
           /\ tx'[l] \in Transaction
           /\ tx'[l].step \in {"sweep", "lock"}
           /\ tx'[l].call = calls + 1 /\ tx'[l].key = k /\ tx'[l].stamp = clock
           /\ tx'[l].dropped = {}
           /\ lastSweep' \in [Limiters -> Int]
<1> USE Arithmetic
<1> DEFINE due == clock - lastSweep[l] >= Window
           start == [ step |-> IF due THEN "sweep" ELSE "lock",
                      call |-> calls + 1, key |-> k, stamp |-> clock,
                      dropped |-> {}, sweeping |-> FALSE, pressed |-> FALSE ]
<1>1. /\ tx \in [Limiters -> Transaction \cup {None}]
      /\ clock \in Times /\ calls \in 0..MaxCalls /\ lastSweep \in [Limiters -> Int]
  BY DEF TypeOK
<1>2. /\ tx[l] = None /\ calls < MaxCalls /\ calls' = calls + 1
      /\ UNCHANGED <<clock, rows, answers>>
      /\ tx' = [tx EXCEPT ![l] = start]
      /\ lastSweep' = [lastSweep EXCEPT ![l] = IF due THEN clock ELSE @]
  BY DEF Begin
<1>3. (IF due THEN "sweep" ELSE "lock") \in {"sweep", "lock"}
  OBVIOUS
<1>4. calls' \in 0..MaxCalls /\ calls + 1 \in Calls
  BY <1>1, <1>2 DEF Calls
<1>5. lastSweep' \in [Limiters -> Int]
  <2>1. clock \in Int /\ lastSweep[l] \in Int
    BY <1>1 DEF Times
  <2>2. (IF due THEN clock ELSE lastSweep[l]) \in Int
    BY <2>1
  <2>3. lastSweep' = [lastSweep EXCEPT ![l] = IF due THEN clock ELSE lastSweep[l]]
    BY <1>2
  <2> HIDE DEF due
  <2> QED
    BY <1>1, <2>2, <2>3
<1> HIDE DEF due
<1>6. start \in Transaction /\ start.step \in {"sweep", "lock"}
  BY <1>1, <1>3, <1>4 DEF Transaction, Steps
<1>7. /\ start.call = calls + 1 /\ start.key = k /\ start.stamp = clock
      /\ start.dropped = {}
  OBVIOUS
<1> HIDE DEF start
<1>8. tx'[l] = start /\ tx' = [tx EXCEPT ![l] = tx'[l]]
  BY <1>1, <1>2
<1> QED
  BY <1>2, <1>4, <1>5, <1>6, <1>7, <1>8

LEMMA NewOnes ==
    ASSUME TypeOK, NEW l \in Limiters, tx[l] # None
    PROVE  /\ NewRow(l) \in Row
           /\ \A v \in Verdicts : NewAnswer(l, v) \in Answer
           /\ tx[l] \in Transaction
<1>1. tx[l] \in Transaction /\ clock \in Times
  BY DEF TypeOK
<1>2. tx[l].call \in Calls /\ tx[l].key \in Keys /\ tx[l].stamp \in Times
  BY <1>1 DEF Transaction
<1> QED
  BY <1>1, <1>2 DEF NewRow, NewAnswer, Row, Answer

LEMMA TypeStep ==
    ASSUME TypeOK, [Next]_vars
    PROVE  TypeOK'
<1> USE Arithmetic
<1>0. /\ clock \in Times /\ rows \subseteq Row
      /\ tx \in [Limiters -> Transaction \cup {None}]
      /\ lastSweep \in [Limiters -> Int]
      /\ answers \subseteq Answer /\ calls \in 0..MaxCalls
  BY DEF TypeOK
<1>1. CASE UNCHANGED vars
  BY <1>1 DEF TypeOK, vars
<1>2. CASE Tick
  BY <1>0, <1>2 DEF Tick, TypeOK, Times
<1>3. ASSUME NEW l \in Limiters, NEW k \in Keys, Begin(l, k)
      PROVE  TypeOK'
  <2>1. /\ UNCHANGED <<clock, rows, answers>> /\ calls' \in 0..MaxCalls
        /\ tx' = [tx EXCEPT ![l] = tx'[l]] /\ tx'[l] \in Transaction
        /\ lastSweep' \in [Limiters -> Int]
    BY <1>3, Started
  <2>2. tx' \in [Limiters -> Transaction \cup {None}]
    BY <1>0, <2>1
  <2> QED
    BY <1>0, <2>1, <2>2 DEF TypeOK
<1>4. ASSUME NEW l \in Limiters, Moves(l)
      PROVE  TypeOK'
  <2>1. /\ tx' = [tx EXCEPT ![l] = tx'[l]] /\ tx'[l] \in Transaction
        /\ UNCHANGED <<clock, rows, lastSweep, answers, calls>>
    BY <1>4 DEF Moves
  <2>2. tx' \in [Limiters -> Transaction \cup {None}]
    BY <1>0, <2>1
  <2> QED
    BY <1>0, <2>1, <2>2 DEF TypeOK
<1>5. ASSUME NEW l \in Limiters, Ends(l), rows' \subseteq Row, answers' \subseteq Answer
      PROVE  TypeOK'
  <2>1. tx' \in [Limiters -> Transaction \cup {None}]
    BY <1>0, <1>5 DEF Ends
  <2> QED
    BY <1>0, <1>5, <2>1 DEF TypeOK, Ends
<1>6. ASSUME NEW l \in Limiters, Rollback(l)
      PROVE  TypeOK'
  BY <1>0, <1>5, <1>6 DEF Rollback
<1>7. ASSUME NEW l \in Limiters, Ends(l), Limited(l)
      PROVE  TypeOK'
  <2>1. rows' = Seen(l) /\ answers' = answers \cup {NewAnswer(l, "limited")}
    BY <1>7 DEF Limited, Answered, NewAnswer
  <2>2. NewAnswer(l, "limited") \in Answer
    BY <1>7, NewOnes DEF Ends, Verdicts
  <2> QED
    BY <1>0, <1>5, <1>7, <2>1, <2>2 DEF Seen
<1>8. ASSUME NEW l \in Limiters, Ends(l), Admit(l)
      PROVE  TypeOK'
  <2>1. PICK v \in {"allowed", "lost"} : answers' = answers \cup {NewAnswer(l, v)}
    BY <1>8 DEF Admit, Answered, NewAnswer
  <2>2. rows' = Seen(l) \cup {NewRow(l)}
    BY <1>8 DEF Admit, NewRow
  <2>3. NewAnswer(l, v) \in Answer /\ NewRow(l) \in Row
    BY <1>8, NewOnes DEF Ends, Verdicts
  <2> QED
    BY <1>0, <1>5, <1>8, <2>1, <2>2, <2>3 DEF Seen
<1> QED
  BY <1>1, <1>2, <1>3, <1>4, <1>6, <1>7, <1>8, Shapes

LEMMA InitTypes == Init => TypeOK
<1> SUFFICES ASSUME Init PROVE TypeOK
  OBVIOUS
<1>1. 0 \in Times /\ 0 \in 0..MaxCalls /\ -Window \in Int
  BY Arithmetic DEF Times
<1> QED
  BY <1>1 DEF Init, TypeOK

\* TypeOK: every reachable state is well typed.
THEOREM Typing == Spec => []TypeOK
BY InitTypes, TypeStep, PTL DEF Spec

-----------------------------------------------------------------------------
(* Transactions: their ages, their calls, their locks. *)

LEMMA AgesStep ==
    ASSUME Base, [Next]_vars
    PROVE  Ages'
<1> USE Arithmetic
<1>0. TypeOK /\ Ages /\ TypeOK'
  BY TypeStep DEF Base
<1>1. /\ tx \in [Limiters -> Transaction \cup {None}] /\ clock \in Nat
      /\ \A m \in Limiters : tx[m] # None =>
            tx[m].stamp \in Nat /\ tx[m].dropped \subseteq Row
  BY <1>0 DEF TypeOK, Transaction, Times
<1>2. CASE UNCHANGED vars
  BY <1>0, <1>2 DEF Ages, vars
<1>3. CASE Tick
  <2>1. clock' = clock + 1 /\ tx' = tx
    BY <1>3 DEF Tick
  <2>2. \A m \in Limiters : tx[m] # None => clock - tx[m].stamp < MaxDelay
    BY <1>3 DEF Tick
  <2>3. ASSUME NEW m \in Limiters, tx[m] # None
        PROVE  tx[m].stamp <= clock + 1 /\ clock + 1 <= tx[m].stamp + MaxDelay
    <3>1. tx[m].stamp \in Nat /\ tx[m].stamp <= clock /\ clock - tx[m].stamp < MaxDelay
      BY <1>0, <1>1, <2>2, <2>3 DEF Ages
    <3> QED
      BY <1>1, <3>1
  <2> QED
    BY <1>0, <2>1, <2>3 DEF Ages
<1>4. ASSUME NEW l \in Limiters, NEW k \in Keys, Begin(l, k)
      PROVE  Ages'
  <2>1. /\ tx' = [tx EXCEPT ![l] = tx'[l]] /\ clock' = clock
        /\ tx'[l].stamp = clock /\ tx'[l].dropped = {}
    BY <1>0, <1>4, Started
  <2>2. clock <= clock + MaxDelay
    BY <1>1
  <2>3. \A m \in Limiters \ {l} : tx'[m] = tx[m]
    BY <1>1, <2>1
  <2> QED
    BY <1>0, <1>1, <2>1, <2>2, <2>3 DEF Ages
<1>5. ASSUME NEW l \in Limiters, Moves(l)
      PROVE  Ages'
  <2>1. /\ tx[l] # None /\ tx' = [tx EXCEPT ![l] = tx'[l]] /\ clock' = clock
        /\ tx'[l].stamp = tx[l].stamp
        /\ \A r \in tx'[l].dropped :
              r \in tx[l].dropped \/ (r \in rows /\ r.at < tx[l].stamp - Window)
    BY <1>5 DEF Moves
  <2>2. \A m \in Limiters \ {l} : tx'[m] = tx[m]
    BY <1>1, <2>1
  <2>3. \A r \in tx'[l].dropped : r.at < tx'[l].stamp - Window
    BY <1>0, <2>1 DEF Ages
  <2> QED
    BY <1>0, <2>1, <2>2, <2>3 DEF Ages
<1>6. ASSUME NEW l \in Limiters, Ends(l)
      PROVE  Ages'
  <2>1. tx' = [tx EXCEPT ![l] = None] /\ clock' = clock
    BY <1>6 DEF Ends
  <2>2. tx'[l] = None /\ \A m \in Limiters \ {l} : tx'[m] = tx[m]
    BY <1>1, <2>1
  <2> QED
    BY <1>0, <2>1, <2>2 DEF Ages
<1> QED
  BY <1>0, <1>2, <1>3, <1>4, <1>5, <1>6, Shapes DEF Rollback

\* What a step may do to the calls: answer the one that ends, start the next.
LEMMA FreshEnds ==
    ASSUME Base, NEW l \in Limiters, Ends(l),
           answers' = answers
             \/ \E v \in Verdicts : answers' = answers \cup {NewAnswer(l, v)}
    PROVE  Recent'
<1>1. TypeOK /\ Recent
  BY DEF Base
<1>2. /\ tx[l] # None /\ tx'[l] = None /\ calls' = calls
      /\ \A m \in Limiters \ {l} : tx'[m] = tx[m]
  BY <1>1 DEF Ends, TypeOK
<1>3. \A a \in answers' : a \in answers \/ a.call = tx[l].call
  BY DEF NewAnswer
<1>4. \A a, b \in answers' : (a \notin answers /\ b \notin answers) => a = b
  OBVIOUS
<1>5. tx[l].call <= calls /\ \A a \in answers : a.call # tx[l].call
  BY <1>1, <1>2 DEF Recent
<1>6. \A m \in Limiters : tx'[m] # None => tx'[m] = tx[m] /\ tx[m] # None /\ m # l
  BY <1>2
<1>7. \A a \in answers' : a.call <= calls
  BY <1>1, <1>3, <1>5 DEF Recent
<1>8. \A a \in answers', m \in Limiters : tx'[m] # None => tx'[m].call # a.call
  BY <1>1, <1>2, <1>3, <1>6 DEF Recent
<1>9. \A a, b \in answers' : a.call = b.call => a = b
  BY <1>1, <1>3, <1>4, <1>5 DEF Recent
<1>10. /\ \A m \in Limiters : tx'[m] # None => tx'[m].call <= calls
       /\ \A m, n \in Limiters :
             (m # n /\ tx'[m] # None /\ tx'[n] # None) => tx'[m].call # tx'[n].call
  BY <1>1, <1>6 DEF Recent
<1> QED
  BY <1>2, <1>7, <1>8, <1>9, <1>10 DEF Recent

LEMMA Verdict ==
    ASSUME NEW l \in Limiters, Rollback(l) \/ Limited(l) \/ Admit(l)
    PROVE  \/ answers' = answers
           \/ \E v \in Verdicts : answers' = answers \cup {NewAnswer(l, v)}
BY DEF Rollback, Limited, Admit, Answered, NewAnswer, Verdicts

LEMMA FreshStep ==
    ASSUME Base, [Next]_vars
    PROVE  Recent'
<1>0. TypeOK /\ Recent
  BY DEF Base
<1>1. /\ tx \in [Limiters -> Transaction \cup {None}] /\ calls \in Nat
      /\ \A m \in Limiters : tx[m] # None => tx[m].call \in Nat
      /\ \A a \in answers : a.call \in Nat
  BY <1>0, Arithmetic DEF TypeOK, Transaction, Answer, Calls
<1>2. CASE UNCHANGED vars
  BY <1>0, <1>2 DEF Recent, vars
<1>3. CASE Tick
  BY <1>0, <1>3 DEF Recent, Tick
<1>4. ASSUME NEW l \in Limiters, NEW k \in Keys, Begin(l, k)
      PROVE  Recent'
  <2>1. /\ tx' = [tx EXCEPT ![l] = tx'[l]] /\ calls' = calls + 1 /\ answers' = answers
        /\ tx'[l].call = calls + 1
    BY <1>0, <1>4, Started
  <2>2. \A m \in Limiters \ {l} : tx'[m] = tx[m]
    BY <1>1, <2>1
  <2>3. \A m \in Limiters \ {l} : tx[m] # None => tx[m].call <= calls /\ tx[m].call # calls + 1
    BY <1>0, <1>1 DEF Recent
  <2>4. \A a \in answers : a.call <= calls /\ a.call # calls + 1 /\ a.call <= calls + 1
    BY <1>0, <1>1 DEF Recent
  <2>5. \A m \in Limiters : tx'[m] # None => tx'[m].call <= calls + 1
    BY <1>1, <2>1, <2>2, <2>3
  <2>6. \A m, n \in Limiters :
            (m # n /\ tx'[m] # None /\ tx'[n] # None) => tx'[m].call # tx'[n].call
    BY <1>0, <2>1, <2>2, <2>3 DEF Recent
  <2>7. \A a \in answers, m \in Limiters : tx'[m] # None => tx'[m].call # a.call
    BY <1>0, <2>1, <2>2, <2>4 DEF Recent
  <2> QED
    BY <1>0, <2>1, <2>4, <2>5, <2>6, <2>7 DEF Recent
<1>5. ASSUME NEW l \in Limiters, Moves(l)
      PROVE  Recent'
  <2>1. /\ tx[l] # None /\ tx'[l].call = tx[l].call /\ calls' = calls /\ answers' = answers
        /\ \A m \in Limiters \ {l} : tx'[m] = tx[m]
    BY <1>1, <1>5 DEF Moves
  <2>2. \A m \in Limiters : tx'[m] # None => tx[m] # None /\ tx'[m].call = tx[m].call
    BY <2>1
  <2> QED
    BY <1>0, <2>1, <2>2 DEF Recent
<1>6. ASSUME NEW l \in Limiters, Ends(l), Rollback(l) \/ Limited(l) \/ Admit(l)
      PROVE  Recent'
  BY <1>6, FreshEnds, Verdict
<1> QED
  BY <1>0, <1>2, <1>3, <1>4, <1>5, <1>6, Shapes DEF Rollback

LEMMA LockedStep ==
    ASSUME Base, [Next]_vars
    PROVE  Locked'
<1>0. TypeOK /\ Locked /\ tx \in [Limiters -> Transaction \cup {None}]
  BY DEF Base, TypeOK
<1>1. CASE UNCHANGED vars
  BY <1>0, <1>1 DEF Locked, vars
<1>2. CASE Tick
  BY <1>0, <1>2 DEF Locked, Tick
<1>3. ASSUME NEW l \in Limiters, NEW k \in Keys, Begin(l, k)
      PROVE  Locked'
  <2>1. tx' = [tx EXCEPT ![l] = tx'[l]] /\ tx'[l].step \in {"sweep", "lock"}
    BY <1>0, <1>3, Started
  <2>2. \A m \in Limiters \ {l} : tx'[m] = tx[m]
    BY <1>0, <2>1
  <2> QED
    BY <1>0, <2>1, <2>2 DEF Locked
<1>4. ASSUME NEW l \in Limiters, Moves(l), ~LockKey(l),
             Sweep(l) \/ SkipSweep(l) \/ LockKey(l) \/ Prune(l) \/ Count(l) \/ Decide(l)
      PROVE  Locked'
  <2>1. /\ tx[l] # None /\ tx'[l].key = tx[l].key
        /\ \A m \in Limiters \ {l} : tx'[m] = tx[m]
    BY <1>0, <1>4 DEF Moves
  <2>2. tx'[l].step \notin {"sweep", "lock"} => tx[l].step \notin {"sweep", "lock"}
    <3>0. tx[l] \in Transaction
      BY <1>0, <2>1
    <3>1. ASSUME Sweep(l) PROVE tx'[l].step = "lock"
      <4>1. PICK R : tx' = [tx EXCEPT ![l].step = "lock", ![l].dropped = R,
                                      ![l].sweeping = TRUE]
        BY <3>1 DEF Sweep
      <4>2. tx'[l] = [tx[l] EXCEPT !.step = "lock", !.dropped = R, !.sweeping = TRUE]
        BY <1>0, <4>1
      <4> QED
        BY <3>0, <4>2 DEF Transaction
    <3>3. ASSUME SkipSweep(l) PROVE tx'[l].step = "lock"
      <4>1. tx'[l] = [tx[l] EXCEPT !.step = "lock"]
        BY <1>0, <3>3 DEF SkipSweep
      <4> QED
        BY <3>0, <4>1 DEF Transaction
    <3>2. Prune(l) \/ Count(l) \/ Decide(l) => tx[l].step \in {"prune", "count", "decide"}
      BY DEF Prune, Count, Decide, At
    <3> QED
      BY <1>4, <3>1, <3>2, <3>3
  <2>3. \A m \in Limiters :
            (tx'[m] # None /\ tx'[m].step \notin {"sweep", "lock"}) =>
               tx[m] # None /\ tx[m].step \notin {"sweep", "lock"}
    BY <2>1, <2>2
  <2>4. \A m \in Limiters : tx'[m] # None => tx[m] # None /\ tx'[m].key = tx[m].key
    BY <2>1
  <2> QED
    BY <1>0, <2>3, <2>4 DEF Locked
<1>5. ASSUME NEW l \in Limiters, Moves(l), LockKey(l)
      PROVE  Locked'
  <2>1. /\ tx[l] # None /\ tx'[l].key = tx[l].key
        /\ \A m \in Limiters \ {l} : tx'[m] = tx[m]
    BY <1>0, <1>5 DEF Moves
  <2>2. \A m \in Limiters \ {l} :
            (tx[m] # None /\ tx[m].key = tx[l].key) => tx[m].step \in {"sweep", "lock"}
    BY <1>5 DEF LockKey, Rivals, HoldsKey
  <2> QED
    BY <1>0, <2>1, <2>2 DEF Locked
<1>6. ASSUME NEW l \in Limiters, Ends(l)
      PROVE  Locked'
  <2>1. tx'[l] = None /\ \A m \in Limiters \ {l} : tx'[m] = tx[m]
    BY <1>0, <1>6 DEF Ends
  <2> QED
    BY <1>0, <2>1 DEF Locked
<1> QED
  BY <1>0, <1>1, <1>2, <1>3, <1>4, <1>5, <1>6, Shapes DEF Rollback

LEMMA BaseStep ==
    ASSUME Base, [Next]_vars
    PROVE  Base'
BY TypeStep, AgesStep, FreshStep, LockedStep DEF Base

-----------------------------------------------------------------------------
(* What a step does to the table and to the answers. *)

\* A step that is neither Limited nor Admit leaves both alone.
NoAnswer == rows' = rows /\ answers' = answers /\ clock <= clock'

LEMMA Effects ==
    ASSUME Base, [Next]_vars
    PROVE  \/ NoAnswer
           \/ \E l \in Limiters : Ends(l) /\ Limited(l)
           \/ \E l \in Limiters : Ends(l) /\ Admit(l)
<1>0. TypeOK /\ clock \in Nat
  BY DEF Base, TypeOK, Times
<1>1. CASE UNCHANGED vars
  BY <1>0, <1>1 DEF NoAnswer, vars
<1>2. CASE Tick
  BY <1>0, <1>2 DEF NoAnswer, Tick
<1>3. ASSUME NEW l \in Limiters, NEW k \in Keys, Begin(l, k) PROVE NoAnswer
  BY <1>0, <1>3 DEF NoAnswer, Begin
<1>4. ASSUME NEW l \in Limiters, Moves(l) PROVE NoAnswer
  BY <1>0, <1>4 DEF NoAnswer, Moves
<1>5. ASSUME NEW l \in Limiters, Rollback(l) PROVE NoAnswer
  BY <1>0, <1>5 DEF NoAnswer, Rollback, Ends
<1> QED
  BY <1>0, <1>1, <1>2, <1>3, <1>4, <1>5, Shapes

LEMMA LimitedEffect ==
    ASSUME Base, NEW l \in Limiters, Ends(l), Limited(l)
    PROVE  /\ rows' = Seen(l) /\ answers' = answers \cup {NewAnswer(l, "limited")}
           /\ clock' = clock /\ At(l, "limit")
BY DEF Limited, Answered, NewAnswer

LEMMA AdmitEffect ==
    ASSUME Base, NEW l \in Limiters, Ends(l), Admit(l)
    PROVE  /\ rows' = Seen(l) \cup {NewRow(l)}
           /\ \E v \in Spending : answers' = answers \cup {NewAnswer(l, v)}
           /\ clock' = clock /\ At(l, "admit")
BY DEF Admit, Answered, NewAnswer, NewRow, Spending

LEMMA SmallStep ==
    ASSUME Base, Small, [Next]_vars
    PROVE  Small'
<1>1. ASSUME NEW S, NEW T, NEW x, IsFiniteSet(S), T \subseteq S \cup {x}
      PROVE  IsFiniteSet(T)
  BY <1>1, FS_AddElement, FS_Subset
<1>2. CASE NoAnswer
  BY <1>2 DEF NoAnswer, Small
<1>3. ASSUME NEW l \in Limiters, Ends(l), Limited(l) PROVE Small'
  <2>1. rows' \subseteq rows \cup {NewRow(l)}
    BY <1>3, LimitedEffect DEF Seen
  <2>2. answers' \subseteq answers \cup {NewAnswer(l, "limited")}
    BY <1>3, LimitedEffect
  <2> QED
    BY <1>1, <2>1, <2>2 DEF Small
<1>4. ASSUME NEW l \in Limiters, Ends(l), Admit(l) PROVE Small'
  <2>1. PICK v : answers' = answers \cup {NewAnswer(l, v)}
    BY <1>4, AdmitEffect
  <2>2. rows' \subseteq rows \cup {NewRow(l)}
    BY <1>4, AdmitEffect DEF Seen
  <2> QED
    BY <1>1, <2>1, <2>2 DEF Small
<1> QED
  BY <1>2, <1>3, <1>4, Effects

LEMMA KeptStep ==
    ASSUME Base, Kept, [Next]_vars
    PROVE  Kept'
<1> USE Arithmetic
<1>0. /\ TypeOK /\ Ages /\ clock \in Nat
      /\ \A a \in answers : a.at \in Nat /\ a.stamp \in Nat
      /\ \A r \in rows : r.at \in Nat
      /\ \A l \in Limiters : tx[l] # None => tx[l].stamp \in Nat
  BY DEF Base, TypeOK, Times, Answer, Row, Transaction
<1>1. clock' \in Nat
  BY TypeStep DEF Base, TypeOK, Times
<1>2. CASE NoAnswer
  <2>1. ASSUME NEW a \in answers PROVE a.at <= clock' /\
             (a.stamp < clock - Window => a.stamp < clock' - Window)
    BY <1>0, <1>1, <1>2 DEF Kept, NoAnswer
  <2> QED
    BY <1>2, <2>1 DEF Kept, NoAnswer
<1>3. ASSUME NEW l \in Limiters, tx[l] # None, clock' = clock, Seen(l) \subseteq rows',
             NEW a \in answers
      PROVE  /\ a.stamp <= a.at
             /\ a.at <= a.stamp + MaxDelay
             /\ a.at <= clock'
             /\ a.verdict \in Spending => (RowOf(a) \in rows' \/ a.stamp < clock' - Window)
  <2>1. CASE RowOf(a) \in tx[l].dropped
    <3>1. a.stamp < tx[l].stamp - Window
      BY <1>0, <1>3, <2>1 DEF Ages, RowOf
    <3>2. tx[l].stamp <= clock
      BY <1>0, <1>3 DEF Ages
    <3>3. a.stamp < clock - Window
      BY <1>0, <1>3, <3>1, <3>2
    <3> QED
      BY <1>3, <3>3 DEF Kept
  <2>2. CASE RowOf(a) \notin tx[l].dropped
    BY <1>3, <2>2 DEF Kept, Seen
  <2> QED
    BY <2>1, <2>2
<1>4. ASSUME NEW l \in Limiters, tx[l] # None, NEW v
      PROVE  /\ NewAnswer(l, v).stamp <= NewAnswer(l, v).at
             /\ NewAnswer(l, v).at <= NewAnswer(l, v).stamp + MaxDelay
             /\ NewAnswer(l, v).at <= clock
             /\ NewAnswer(l, v).verdict = v
             /\ RowOf(NewAnswer(l, v)) = NewRow(l)
  BY <1>0, <1>4 DEF NewAnswer, Ages, RowOf, NewRow
<1>5. ASSUME NEW l \in Limiters, Ends(l), Limited(l) PROVE Kept'
  <2>1. /\ tx[l] # None /\ clock' = clock /\ rows' = Seen(l)
        /\ answers' = answers \cup {NewAnswer(l, "limited")}
    BY <1>5, LimitedEffect DEF Ends
  <2>2. "limited" \notin Spending
    BY DEF Spending
  <2>3. ASSUME NEW a \in answers'
        PROVE  /\ a.stamp <= a.at
               /\ a.at <= a.stamp + MaxDelay
               /\ a.at <= clock'
               /\ a.verdict \in Spending => (RowOf(a) \in rows' \/ a.stamp < clock' - Window)
    BY <1>3, <1>4, <2>1, <2>2
  <2> QED
    BY <2>3 DEF Kept
<1>6. ASSUME NEW l \in Limiters, Ends(l), Admit(l) PROVE Kept'
  <2>1. /\ tx[l] # None /\ clock' = clock /\ rows' = Seen(l) \cup {NewRow(l)}
    BY <1>6, AdmitEffect DEF Ends
  <2>2. PICK v \in Spending : answers' = answers \cup {NewAnswer(l, v)}
    BY <1>6, AdmitEffect
  <2>3. ASSUME NEW a \in answers'
        PROVE  /\ a.stamp <= a.at
               /\ a.at <= a.stamp + MaxDelay
               /\ a.at <= clock'
               /\ a.verdict \in Spending => (RowOf(a) \in rows' \/ a.stamp < clock' - Window)
    BY <1>3, <1>4, <2>1, <2>2
  <2> QED
    BY <2>3 DEF Kept
<1> QED
  BY <1>2, <1>5, <1>6, Effects

LEMMA AccountedStep ==
    ASSUME Base, Accounted, [Next]_vars
    PROVE  Accounted'
<1>1. CASE NoAnswer
  BY <1>1 DEF NoAnswer, Accounted
<1>2. ASSUME NEW l \in Limiters, Ends(l), Limited(l) PROVE Accounted'
  BY <1>2, LimitedEffect DEF Accounted, Seen
<1>3. ASSUME NEW l \in Limiters, Ends(l), Admit(l) PROVE Accounted'
  <2>1. PICK v \in Spending : answers' = answers \cup {NewAnswer(l, v)}
    BY <1>3, AdmitEffect
  <2>2. RowOf(NewAnswer(l, v)) = NewRow(l) /\ NewAnswer(l, v).verdict = v
    BY DEF RowOf, NewAnswer, NewRow
  <2>3. rows' = Seen(l) \cup {NewRow(l)}
    BY <1>3, AdmitEffect
  <2> QED
    BY <2>1, <2>2, <2>3 DEF Accounted, Seen
<1> QED
  BY <1>1, <1>2, <1>3, Effects

-----------------------------------------------------------------------------
(* What a transaction has found out. *)

\* Where each step before the verdict leads, and with which deletes.
LEMMA Leads ==
    ASSUME TypeOK, NEW l \in Limiters, tx[l] # None
    PROVE  /\ Sweep(l) \/ SkipSweep(l) => tx'[l].step = "lock"
           /\ LockKey(l) => tx'[l].step = "prune"
           /\ Prune(l) => /\ tx'[l].step = "count"
                          /\ tx'[l].dropped = tx[l].dropped \cup Prunable(l)
           /\ Count(l) => /\ tx[l].step = "count" /\ tx'[l].step = "decide"
                          /\ tx'[l].dropped = tx[l].dropped
           /\ Decide(l) => /\ tx[l].step = "decide"
                           /\ tx'[l].step = IF Admitted(l) THEN "admit" ELSE "limit"
                           /\ tx'[l].dropped = tx[l].dropped
<1>0. tx[l] \in Transaction /\ tx \in [Limiters -> Transaction \cup {None}]
  BY DEF TypeOK
<1>1. ASSUME Sweep(l) PROVE tx'[l].step = "lock"
  <2>1. PICK R : tx' = [tx EXCEPT ![l].step = "lock", ![l].dropped = R,
                                  ![l].sweeping = TRUE]
    BY <1>1 DEF Sweep
  <2>2. tx'[l] = [tx[l] EXCEPT !.step = "lock", !.dropped = R, !.sweeping = TRUE]
    BY <1>0, <2>1
  <2> QED
    BY <1>0, <2>2 DEF Transaction
<1>2. ASSUME SkipSweep(l) PROVE tx'[l].step = "lock"
  <2>1. tx'[l] = [tx[l] EXCEPT !.step = "lock"]
    BY <1>0, <1>2 DEF SkipSweep
  <2> QED
    BY <1>0, <2>1 DEF Transaction
<1>3. ASSUME LockKey(l) PROVE tx'[l].step = "prune"
  <2>1. tx'[l] = [tx[l] EXCEPT !.step = "prune"]
    BY <1>0, <1>3 DEF LockKey
  <2> QED
    BY <1>0, <2>1 DEF Transaction
<1>4. ASSUME Prune(l)
      PROVE  tx'[l].step = "count" /\ tx'[l].dropped = tx[l].dropped \cup Prunable(l)
  <2> DEFINE P == Prunable(l)
  <2>1. tx' = [tx EXCEPT ![l].step = "count", ![l].dropped = @ \cup P]
    BY <1>4 DEF Prune
  <2> HIDE DEF P
  <2>2. tx'[l] = [tx[l] EXCEPT !.step = "count", !.dropped = tx[l].dropped \cup P]
    BY <1>0, <2>1
  <2>3. tx'[l].step = "count" /\ tx'[l].dropped = tx[l].dropped \cup P
    BY <1>0, <2>2 DEF Transaction
  <2> QED
    BY <2>3 DEF P
<1>5. ASSUME Count(l)
      PROVE  /\ tx[l].step = "count" /\ tx'[l].step = "decide"
             /\ tx'[l].dropped = tx[l].dropped
  <2> DEFINE p == MaxRows > 0 /\ LiveTotal(l) >= MaxRows \div 2
  <2>1. tx[l].step = "count" /\ tx' = [tx EXCEPT ![l].step = "decide", ![l].pressed = p]
    BY <1>5 DEF Count, At
  <2> HIDE DEF p
  <2>2. tx'[l] = [tx[l] EXCEPT !.step = "decide", !.pressed = p]
    BY <1>0, <2>1
  <2> QED
    BY <1>0, <2>1, <2>2 DEF Transaction
<1>6. ASSUME Decide(l)
      PROVE  /\ tx[l].step = "decide"
             /\ tx'[l].step = IF Admitted(l) THEN "admit" ELSE "limit"
             /\ tx'[l].dropped = tx[l].dropped
  <2> DEFINE s == IF Admitted(l) THEN "admit" ELSE "limit"
  <2>1. tx[l].step = "decide" /\ tx' = [tx EXCEPT ![l].step = s]
    BY <1>6 DEF Decide, At
  <2> HIDE DEF s
  <2>2. tx'[l] = [tx[l] EXCEPT !.step = s]
    BY <1>0, <2>1
  <2>3. tx'[l].step = s /\ tx'[l].dropped = tx[l].dropped
    BY <1>0, <2>2 DEF Transaction
  <2> QED
    BY <2>1, <2>3 DEF s
<1> QED
  BY <1>1, <1>2, <1>3, <1>4, <1>5, <1>6

\* A transaction that goes on was left alone, moved, or has just begun.
LEMMA WhoMoved ==
    ASSUME Base, [Next]_vars, NEW m \in Limiters, tx'[m] # None,
           tx'[m].step \notin {"sweep", "lock", "prune"}
    PROVE  \/ tx'[m] = tx[m]
           \/ Moves(m) /\ (Prune(m) \/ Count(m) \/ Decide(m))
<1>0. TypeOK /\ tx \in [Limiters -> Transaction \cup {None}]
  BY DEF Base, TypeOK
<1>1. CASE UNCHANGED vars
  BY <1>1 DEF vars
<1>2. CASE Tick
  BY <1>2 DEF Tick
<1>3. ASSUME NEW l \in Limiters, NEW k \in Keys, Begin(l, k) PROVE tx'[m] = tx[m]
  <2>1. tx' = [tx EXCEPT ![l] = tx'[l]] /\ tx'[l].step \in {"sweep", "lock"}
    BY <1>0, <1>3, Started
  <2> QED
    BY <1>0, <2>1
<1>4. ASSUME NEW l \in Limiters, Moves(l), l # m PROVE tx'[m] = tx[m]
  BY <1>0, <1>4 DEF Moves
<1>5. ASSUME NEW l \in Limiters, Ends(l) PROVE tx'[m] = tx[m]
  BY <1>0, <1>5 DEF Ends
<1>6. ASSUME Moves(m), Sweep(m) \/ SkipSweep(m) \/ LockKey(m) PROVE FALSE
  BY <1>0, <1>6, Leads DEF Moves
<1> QED
  BY <1>0, <1>1, <1>2, <1>3, <1>4, <1>5, <1>6, Shapes DEF Rollback

\* While a transaction holds its key, the rows it counts can only go.
LEMMA MineShrinks ==
    ASSUME Base, [Next]_vars, NEW m \in Limiters, tx[m] # None, tx'[m] = tx[m],
           tx[m].step \notin {"sweep", "lock"}
    PROVE  Mine(m)' \subseteq Mine(m)
<1>1. CASE NoAnswer
  BY <1>1 DEF NoAnswer, Mine, Seen
<1>2. ASSUME NEW l \in Limiters, Ends(l), Limited(l) PROVE Mine(m)' \subseteq Mine(m)
  BY <1>2, LimitedEffect DEF Mine, Seen
<1>3. ASSUME NEW l \in Limiters, Ends(l), Admit(l) PROVE Mine(m)' \subseteq Mine(m)
  <2>1. rows' = Seen(l) \cup {NewRow(l)} /\ tx[l] # None /\ tx[l].step = "admit"
    BY <1>3, AdmitEffect DEF At
  <2>2. l # m
    BY <1>3 DEF Ends, Base, TypeOK
  <2>3. tx[l].key # tx[m].key
    BY <2>1, <2>2 DEF Base, Locked
  <2>4. NewRow(l).key = tx[l].key
    BY DEF NewRow
  <2> QED
    BY <2>1, <2>3, <2>4 DEF Mine, Seen
<1> QED
  BY <1>1, <1>2, <1>3, Effects

LEMMA MineIsFinite ==
    ASSUME Small, NEW l \in Limiters
    PROVE  IsFiniteSet(Mine(l)) /\ Cardinality(Mine(l)) \in Nat
BY FS_Subset, FS_CardinalityType DEF Small, Mine, Seen

LEMMA CountedStep ==
    ASSUME Base, Small, Counted, [Next]_vars
    PROVE  Counted'
<1> SUFFICES ASSUME NEW m \in Limiters, At(m, "admit")'
             PROVE  Cardinality(Mine(m)') < Limit[tx'[m].key]
  BY DEF Counted
<1>0. TypeOK /\ tx'[m] # None /\ tx'[m].step = "admit"
  BY DEF At, Base
<1>1. CASE tx'[m] = tx[m]
  <2>1. Mine(m)' \subseteq Mine(m)
    BY <1>0, <1>1, MineShrinks
  <2>2. Cardinality(Mine(m)) < Limit[tx[m].key]
    BY <1>0, <1>1 DEF Counted, At
  <2>3. /\ Cardinality(Mine(m)') <= Cardinality(Mine(m))
        /\ Cardinality(Mine(m)') \in Nat /\ Cardinality(Mine(m)) \in Nat
    BY <2>1, MineIsFinite, FS_Subset, FS_CardinalityType
  <2>4. Limit[tx[m].key] \in Nat
    BY <1>0, <1>1, Arithmetic DEF TypeOK, Transaction
  <2> QED
    BY <1>1, <2>2, <2>3, <2>4
<1>2. CASE Moves(m) /\ Decide(m)
  <2>1. tx[m] # None /\ rows' = rows /\ tx'[m].key = tx[m].key
    BY <1>2 DEF Moves
  <2>2. Admitted(m) /\ tx'[m].dropped = tx[m].dropped
    BY <1>0, <1>2, <2>1, Leads
  <2>3. Mine(m)' = Mine(m)
    BY <2>1, <2>2 DEF Mine, Seen
  <2> QED
    BY <2>1, <2>2, <2>3 DEF Admitted, LiveForKey, Mine
<1>3. CASE Moves(m) /\ (Prune(m) \/ Count(m))
  BY <1>0, <1>3, Leads DEF Moves
<1> QED
  BY <1>0, <1>1, <1>2, <1>3, WhoMoved

LEMMA PrunedStep ==
    ASSUME Base, Pruned, [Next]_vars
    PROVE  Pruned'
<1> SUFFICES ASSUME NEW m \in Limiters, At(m, "count")' \/ At(m, "decide")'
             PROVE  \A r \in Mine(m)' : r.at >= tx'[m].stamp - Window
  BY DEF Pruned
<1>0. TypeOK /\ tx'[m] # None /\ tx'[m].step \in {"count", "decide"}
  BY DEF At, Base
<1>1. CASE tx'[m] = tx[m]
  <2>1. Mine(m)' \subseteq Mine(m)
    BY <1>0, <1>1, MineShrinks
  <2> QED
    BY <1>0, <1>1, <2>1 DEF Pruned, At
<1>2. CASE Moves(m) /\ Count(m)
  <2>1. tx[m] # None /\ rows' = rows /\ tx'[m].key = tx[m].key /\ tx'[m].stamp = tx[m].stamp
    BY <1>2 DEF Moves
  <2>2. tx[m].step = "count" /\ tx'[m].dropped = tx[m].dropped
    BY <1>0, <1>2, <2>1, Leads
  <2>3. Mine(m)' = Mine(m)
    BY <2>1, <2>2 DEF Mine, Seen
  <2> QED
    BY <2>1, <2>2, <2>3 DEF Pruned, At
<1>3. CASE Moves(m) /\ Prune(m)
  <2>1. tx[m] # None /\ rows' = rows /\ tx'[m].key = tx[m].key /\ tx'[m].stamp = tx[m].stamp
    BY <1>3 DEF Moves
  <2>2. tx'[m].dropped = tx[m].dropped \cup Prunable(m)
    BY <1>0, <1>3, <2>1, Leads
  <2>3. ASSUME NEW r \in Mine(m)' PROVE r.at >= tx[m].stamp - Window
    <3>1. r \in rows /\ r \notin tx[m].dropped /\ r \notin Prunable(m) /\ r.key = tx[m].key
      BY <2>1, <2>2, <2>3 DEF Mine, Seen
    <3>2. ~(r.at < tx[m].stamp - Window)
      BY <3>1 DEF Prunable, Old
    <3>3. r.at \in Int /\ tx[m].stamp \in Int
      BY <1>0, <2>1, <3>1 DEF TypeOK, Row, Transaction, Times
    <3> QED
      BY <3>2, <3>3, Arithmetic
  <2> QED
    BY <2>1, <2>3
<1>4. CASE Moves(m) /\ Decide(m)
  BY <1>0, <1>4, Leads DEF Moves
<1> QED
  BY <1>0, <1>1, <1>2, <1>3, <1>4, WhoMoved

-----------------------------------------------------------------------------
(* Counting: rows stand for admissions and admissions for rows. *)

LEMMA Grows ==
    ASSUME Base, [Next]_vars
    PROVE  answers \subseteq answers' /\ clock <= clock' /\ clock \in Nat /\ clock' \in Nat
<1>0. clock \in Nat /\ clock' \in Nat
  BY TypeStep, Arithmetic DEF Base, TypeOK, Times
<1>1. CASE NoAnswer
  BY <1>0, <1>1 DEF NoAnswer
<1>2. ASSUME NEW l \in Limiters, Ends(l), Limited(l)
      PROVE  answers \subseteq answers' /\ clock <= clock'
  BY <1>0, <1>2, LimitedEffect
<1>3. ASSUME NEW l \in Limiters, Ends(l), Admit(l)
      PROVE  answers \subseteq answers' /\ clock <= clock'
  BY <1>0, <1>3, AdmitEffect
<1> QED
  BY <1>0, <1>1, <1>2, <1>3, Effects

LEMMA WithinIsFinite ==
    ASSUME NEW A, IsFiniteSet(A), NEW k, NEW from, NEW to
    PROVE  IsFiniteSet(Within(A, k, from, to)) /\ Cardinality(Within(A, k, from, to)) \in Nat
BY FS_Subset, FS_CardinalityType DEF Within

\* What was spent in an interval stays spent in any longer one.
LEMMA WithinGrows ==
    ASSUME NEW A, NEW B, A \subseteq B, IsFiniteSet(B), NEW k,
           \A a \in A : a.at \in Int,
           NEW from \in Int, NEW to \in Int, NEW from2 \in Int, NEW to2 \in Int,
           from2 <= from, to <= to2
    PROVE  Cardinality(Within(A, k, from, to)) <= Cardinality(Within(B, k, from2, to2))
<1>1. Within(A, k, from, to) \subseteq Within(B, k, from2, to2)
  BY DEF Within
<1> QED
  BY <1>1, WithinIsFinite, FS_Subset

\* The rows a pruned transaction counts were spent within its window.
LEMMA RowsWereSpent ==
    ASSUME Base, Small, Kept, Accounted, Pruned, NEW l \in Limiters, At(l, "decide")
    PROVE  Cardinality(Mine(l)) <= Cardinality(Within(answers, tx[l].key, tx[l].stamp - Window, clock))
<1> DEFINE S == Within(answers, tx[l].key, tx[l].stamp - Window, clock)
           Witness(r, a) == a.verdict \in Spending /\ RowOf(a) = r
           f == [r \in Mine(l) |-> CHOOSE a \in answers : Witness(r, a)]
<1>1. ASSUME NEW r \in Mine(l)
      PROVE  f[r] \in S /\ RowOf(f[r]) = r
  <2>1. \E a \in answers : Witness(r, a)
    BY <1>1 DEF Accounted, Mine, Seen
  <2>2. f[r] \in answers /\ f[r].verdict \in Spending /\ RowOf(f[r]) = r
    BY <2>1, <1>1
  <2> HIDE DEF f
  <2> DEFINE a == f[r]
  <2>3. a \in answers /\ a.verdict \in Spending /\ RowOf(a) = r
    BY <2>2
  <2> HIDE DEF a
  <2>4. r.at = a.stamp /\ r.key = a.key
    BY <2>3 DEF RowOf
  <2>5. r.at >= tx[l].stamp - Window /\ r.key = tx[l].key
    BY <1>1 DEF Pruned, Mine
  <2>6. a.stamp <= a.at /\ a.at <= clock
    BY <2>3 DEF Kept
  <2>7. a.stamp \in Int /\ a.at \in Int /\ tx[l].stamp \in Int
    BY <2>3, Arithmetic DEF Base, TypeOK, Answer, Transaction, At, Times
  <2>8. tx[l].stamp - Window <= a.at
    BY <2>4, <2>5, <2>6, <2>7, Arithmetic
  <2>9. a \in S
    BY <2>3, <2>4, <2>5, <2>6, <2>8 DEF Within
  <2> QED
    BY <2>3, <2>9 DEF a
<1> HIDE DEF f, S
<1>2. f \in Injection(Mine(l), S)
  <2>1. f \in [Mine(l) -> S]
    BY <1>1 DEF f
  <2>2. \A r, q \in Mine(l) : f[r] = f[q] => r = q
    BY <1>1
  <2> QED
    BY <2>1, <2>2 DEF Injection, IsInjective
<1>3. IsFiniteSet(S)
  BY WithinIsFinite DEF S, Small
<1>4. Cardinality(Mine(l)) <= Cardinality(S)
  BY <1>2, <1>3, FS_Injection
<1> QED
  BY <1>4 DEF S

\* Admissions that a transaction can still see are rows that it counts.
LEMMA SpentAreRows ==
    ASSUME Base, Small, Kept, NEW l \in Limiters, tx[l] # None,
           NEW S \in SUBSET answers,
           \A a \in S : a.verdict \in Spending /\ a.key = tx[l].key
                        /\ clock - Window <= a.stamp
    PROVE  Cardinality(S) <= Cardinality(Mine(l))
<1> DEFINE f == [a \in S |-> RowOf(a)]
<1>0. /\ clock \in Int /\ tx[l].stamp \in Int /\ tx[l].stamp <= clock
      /\ \A a \in answers : a.stamp \in Int
  BY Arithmetic DEF Base, TypeOK, Ages, Answer, Transaction, Times
<1>1. ASSUME NEW a \in S
      PROVE  RowOf(a) \in Mine(l)
  <2>1. a \in answers /\ a.verdict \in Spending /\ clock - Window <= a.stamp
    BY <1>1
  <2>2. RowOf(a) \in rows
    BY <1>0, <2>1, Arithmetic DEF Kept
  <2>3. RowOf(a).at = a.stamp /\ RowOf(a).key = a.key
    BY DEF RowOf
  <2>4. RowOf(a) \notin tx[l].dropped
    <3>1. SUFFICES ASSUME RowOf(a) \in tx[l].dropped PROVE FALSE
      OBVIOUS
    <3>2. a.stamp < tx[l].stamp - Window
      BY <2>3, <3>1 DEF Base, Ages
    <3> QED
      BY <1>0, <2>1, <3>2, Arithmetic
  <2> QED
    BY <1>1, <2>2, <2>3, <2>4 DEF Mine, Seen
<1>2. \A a, b \in S : RowOf(a) = RowOf(b) => a = b
  BY DEF RowOf, Base, Recent
<1>3. f \in Injection(S, Mine(l))
  BY <1>1, <1>2 DEF Injection, IsInjective
<1> QED
  BY <1>3, MineIsFinite, FS_Injection

LEMMA EarnedStep ==
    ASSUME Base, Small, Kept, Accounted, Pruned, Earned, [Next]_vars
    PROVE  Earned'
<1> SUFFICES ASSUME NEW m \in Limiters, At(m, "limit")'
             PROVE  Cardinality(Within(answers', tx'[m].key, tx'[m].stamp - Window, clock'))
                      >= Limit[tx'[m].key]
  BY DEF Earned
<1>0. TypeOK /\ tx'[m] # None /\ tx'[m].step = "limit"
  BY DEF At, Base
<1>1. ASSUME tx[m] # None, tx'[m].key = tx[m].key, tx'[m].stamp = tx[m].stamp,
             Cardinality(Within(answers, tx[m].key, tx[m].stamp - Window, clock))
                 >= Limit[tx[m].key]
      PROVE  Cardinality(Within(answers', tx'[m].key, tx'[m].stamp - Window, clock'))
               >= Limit[tx'[m].key]
  <2> DEFINE k == tx[m].key
             from == tx[m].stamp - Window
             C == Cardinality(Within(answers, k, from, clock))
             D == Cardinality(Within(answers', k, from, clock'))
  <2>1. from \in Int /\ clock \in Int /\ clock' \in Int /\ clock <= clock'
    BY <1>0, <1>1, Grows, Arithmetic DEF TypeOK, Transaction, Times
  <2>2. answers \subseteq answers' /\ \A a \in answers : a.at \in Int
    BY <1>0, Grows, Arithmetic DEF TypeOK, Answer, Times
  <2>3. IsFiniteSet(answers) /\ IsFiniteSet(answers')
    BY SmallStep DEF Small
  <2>4. Limit[k] \in Nat
    BY <1>0, <1>1, Arithmetic DEF TypeOK, Transaction
  <2>5. C \in Nat /\ D \in Nat
    BY <2>3, WithinIsFinite
  <2>6. C >= Limit[k]
    BY <1>1
  <2> HIDE DEF k, from
  <2>7. C <= D
    BY <2>1, <2>2, <2>3, WithinGrows
  <2> HIDE DEF C, D
  <2>8. D >= Limit[k]
    BY <2>4, <2>5, <2>6, <2>7
  <2> QED
    BY <1>1, <2>8 DEF D, k, from
<1>2. CASE tx'[m] = tx[m]
  BY <1>0, <1>1, <1>2 DEF Earned, At
<1>3. CASE Moves(m) /\ Decide(m)
  <2>1. tx[m] # None /\ tx'[m].key = tx[m].key /\ tx'[m].stamp = tx[m].stamp
    BY <1>3 DEF Moves
  <2>2. At(m, "decide") /\ ~Admitted(m)
    BY <1>0, <1>3, <2>1, Leads DEF At
  <2>3. ~(Cardinality(Mine(m)) < Limit[tx[m].key])
    BY <2>2 DEF Admitted, LiveForKey, Mine
  <2>4. Cardinality(Mine(m)) <= Cardinality(Within(answers, tx[m].key, tx[m].stamp - Window, clock))
    BY <2>2, RowsWereSpent
  <2>5. /\ Cardinality(Mine(m)) \in Nat
        /\ Cardinality(Within(answers, tx[m].key, tx[m].stamp - Window, clock)) \in Nat
        /\ Limit[tx[m].key] \in Nat
    BY <1>0, <2>1, MineIsFinite, WithinIsFinite, Arithmetic DEF Small, TypeOK, Transaction
  <2>6. Cardinality(Within(answers, tx[m].key, tx[m].stamp - Window, clock)) >= Limit[tx[m].key]
    BY <2>3, <2>4, <2>5
  <2> QED
    BY <1>1, <2>1, <2>6
<1>4. CASE Moves(m) /\ (Prune(m) \/ Count(m))
  BY <1>0, <1>4, Leads DEF Moves
<1> QED
  BY <1>0, <1>2, <1>3, <1>4, WhoMoved

-----------------------------------------------------------------------------
(* The two promises. *)

LEMMA SpentIsWithin ==
    /\ QuotaHolds <=>
          \A k \in Keys, x \in Times :
             Cardinality(Within(answers, k, x, x + Window - MaxDelay)) <= Limit[k]
    /\ RefusalsAreEarned <=>
          \A a \in answers : a.verdict = "limited" =>
             Cardinality(Within(answers, a.key, a.at - Window - MaxDelay, a.at))
                >= Limit[a.key]
<1>1. ASSUME NEW k, NEW from, NEW to
      PROVE  Spent(k, from, to) = Within(answers, k, from, to)
  BY DEF Spent, Within, Spending
<1> QED
  BY <1>1 DEF QuotaHolds, RefusalsAreEarned

\* An admission is the last of its window: the rows counted are those before it.
LEMMA AdmissionFits ==
    ASSUME Base, Small, Kept, Counted, NEW l \in Limiters, At(l, "admit"),
           NEW x \in Times, x <= clock, clock <= x + Window - MaxDelay
    PROVE  Cardinality(Within(answers, tx[l].key, x, x + Window - MaxDelay))
              < Limit[tx[l].key]
<1> DEFINE S == Within(answers, tx[l].key, x, x + Window - MaxDelay)
<1>0. tx[l] # None /\ tx[l] \in Transaction
  BY DEF At, Base, TypeOK
<1>1. ASSUME NEW a \in S
      PROVE  a.verdict \in Spending /\ a.key = tx[l].key /\ clock - Window <= a.stamp
  <2>1. a \in answers /\ a.verdict \in Spending /\ a.key = tx[l].key /\ x <= a.at
    BY DEF Within
  <2>2. a.at <= a.stamp + MaxDelay
    BY <2>1 DEF Kept
  <2>3. a.at \in Int /\ a.stamp \in Int /\ clock \in Int /\ x \in Int
    BY <2>1, Arithmetic DEF Base, TypeOK, Answer, Times
  <2>4. clock - Window <= a.stamp
    BY <2>1, <2>2, <2>3, Arithmetic
  <2> QED
    BY <2>1, <2>4
<1>2. S \in SUBSET answers
  BY DEF Within
<1>3. S \in SUBSET answers /\ IsFiniteSet(answers)
  BY <1>2 DEF Small
<1> HIDE DEF S
<1>4. Cardinality(S) <= Cardinality(Mine(l))
  BY <1>0, <1>1, <1>2, SpentAreRows
<1>5. Cardinality(Mine(l)) < Limit[tx[l].key]
  BY DEF Counted
<1>6. /\ Cardinality(S) \in Nat /\ Cardinality(Mine(l)) \in Nat
      /\ Limit[tx[l].key] \in Nat
  BY <1>0, <1>3, FS_Subset, FS_CardinalityType, MineIsFinite, Arithmetic DEF Transaction
<1>7. Cardinality(S) < Limit[tx[l].key]
  BY <1>4, <1>5, <1>6
<1> QED
  BY <1>7 DEF S

LEMMA QuotaStep ==
    ASSUME Base, Small, Kept, Counted, QuotaHolds, [Next]_vars
    PROVE  QuotaHolds'
<1> SUFFICES ASSUME NEW k \in Keys, NEW x \in Times
             PROVE  Cardinality(Within(answers', k, x, x + Window - MaxDelay)) <= Limit[k]
  <2>1. ASSUME NEW k, NEW from, NEW to
        PROVE  Spent(k, from, to)' = Within(answers', k, from, to)
    BY DEF Spent, Within, Spending
  <2> QED
    BY <2>1 DEF QuotaHolds
<1> DEFINE S == Within(answers, k, x, x + Window - MaxDelay)
           T == Within(answers', k, x, x + Window - MaxDelay)
<1>0. Cardinality(S) <= Limit[k]
  BY SpentIsWithin
<1>1. IsFiniteSet(S) /\ Cardinality(S) \in Nat /\ IsFiniteSet(T) /\ Cardinality(T) \in Nat
  BY WithinIsFinite, SmallStep DEF Small
<1>2. Limit[k] \in Nat
  BY Arithmetic
<1>3. ASSUME T \subseteq S PROVE Cardinality(T) <= Limit[k]
  <2>1. Cardinality(T) <= Cardinality(S)
    BY <1>1, <1>3, FS_Subset
  <2> HIDE DEF S, T
  <2> QED
    BY <1>0, <1>1, <1>2, <2>1
<1>4. CASE NoAnswer
  BY <1>3, <1>4 DEF NoAnswer
<1>5. ASSUME NEW l \in Limiters, Ends(l), Limited(l) PROVE Cardinality(T) <= Limit[k]
  <2>1. answers' = answers \cup {NewAnswer(l, "limited")}
    BY <1>5, LimitedEffect
  <2>2. NewAnswer(l, "limited").verdict \notin Spending
    BY DEF NewAnswer, Spending
  <2>3. T \subseteq S
    BY <2>1, <2>2 DEF Within
  <2> QED
    BY <1>3, <2>3
<1>6. ASSUME NEW l \in Limiters, Ends(l), Admit(l) PROVE Cardinality(T) <= Limit[k]
  <2>1. PICK v \in Spending : answers' = answers \cup {NewAnswer(l, v)}
    BY <1>6, AdmitEffect
  <2> DEFINE n == NewAnswer(l, v)
  <2>2. n.key = tx[l].key /\ n.at = clock
    BY DEF NewAnswer
  <2>3. CASE n \notin T
    <3>1. T \subseteq S
      BY <2>1, <2>3 DEF Within
    <3> QED
      BY <1>3, <3>1
  <2>4. CASE n \in T
    <3>1. k = tx[l].key /\ x <= clock /\ clock <= x + Window - MaxDelay
      BY <2>2, <2>4 DEF Within
    <3>2. At(l, "admit")
      BY <1>6, AdmitEffect
    <3>3. Cardinality(S) < Limit[k]
      BY <3>1, <3>2, AdmissionFits
    <3>4. T \subseteq S \cup {n}
      BY <2>1 DEF Within
    <3> HIDE DEF S, T, n
    <3>5. /\ IsFiniteSet(S \cup {n})
          /\ Cardinality(S \cup {n}) \in Nat
          /\ Cardinality(S \cup {n}) <= Cardinality(S) + 1
      <4> DEFINE U == S \cup {n}
      <4>1. IsFiniteSet(S) /\ Cardinality(S) \in Nat
        BY <1>1
      <4>2. /\ IsFiniteSet(U)
            /\ Cardinality(U) = IF n \in S THEN Cardinality(S) ELSE Cardinality(S) + 1
        BY <4>1, FS_AddElement
      <4> HIDE DEF U
      <4>3. Cardinality(U) \in Nat /\ Cardinality(U) <= Cardinality(S) + 1
        BY <4>1, <4>2
      <4> QED
        BY <4>2, <4>3 DEF U
    <3>6. Cardinality(T) <= Cardinality(S \cup {n})
      BY <3>4, <3>5, FS_Subset
    <3> QED
      BY <1>1, <1>2, <3>3, <3>5, <3>6
  <2> QED
    BY <2>3, <2>4
<1> QED
  BY <1>4, <1>5, <1>6, Effects

LEMMA RefusalStep ==
    ASSUME Base, Small, Kept, Earned, RefusalsAreEarned, [Next]_vars
    PROVE  RefusalsAreEarned'
<1> SUFFICES ASSUME NEW a \in answers', a.verdict = "limited"
             PROVE  Cardinality(Within(answers', a.key, a.at - Window - MaxDelay, a.at))
                       >= Limit[a.key]
  <2>1. ASSUME NEW k, NEW from, NEW to
        PROVE  Spent(k, from, to)' = Within(answers', k, from, to)
    BY DEF Spent, Within, Spending
  <2> QED
    BY <2>1 DEF RefusalsAreEarned
<1>0. /\ answers \subseteq answers' /\ answers' \subseteq Answer
      /\ IsFiniteSet(answers) /\ IsFiniteSet(answers')
      /\ \A b \in answers' : b.at \in Int
  BY Grows, SmallStep, TypeStep, Arithmetic DEF Small, Base, TypeOK, Answer, Times
<1> DEFINE k == a.key
           D == Cardinality(Within(answers', k, a.at - Window - MaxDelay, a.at))
\* An interval of the answers so far that held the limit, within the answer's own.
<1>1. ASSUME NEW from \in Int, a.at - Window - MaxDelay <= from,
             Cardinality(Within(answers, k, from, a.at)) >= Limit[k]
      PROVE  D >= Limit[k]
  <2> DEFINE C == Cardinality(Within(answers, k, from, a.at))
  <2>1. C \in Nat /\ D \in Nat /\ Limit[k] \in Nat
    BY <1>0, WithinIsFinite, Arithmetic DEF Answer
  <2>2. a.at \in Int /\ a.at - Window - MaxDelay \in Int
    BY <1>0, Arithmetic
  <2> HIDE DEF k
  <2>3. C <= D
    BY <1>0, <1>1, <2>2, WithinGrows
  <2>4. C >= Limit[k]
    BY <1>1
  <2> HIDE DEF C, D
  <2> QED
    BY <2>1, <2>3, <2>4
<1>2. CASE a \in answers
  <2>1. a.at - Window - MaxDelay \in Int
    BY <1>0, Arithmetic
  <2>2. Cardinality(Within(answers, k, a.at - Window - MaxDelay, a.at)) >= Limit[k]
    BY <1>2, SpentIsWithin
  <2> QED
    BY <1>1, <2>1, <2>2
<1>3. ASSUME NEW l \in Limiters, Ends(l), Limited(l), a \notin answers
      PROVE  D >= Limit[k]
  <2>1. a = NewAnswer(l, "limited") /\ At(l, "limit")
    BY <1>3, LimitedEffect
  <2>2. k = tx[l].key /\ a.at = clock /\ a.stamp = tx[l].stamp
    BY <2>1 DEF NewAnswer
  <2>3. Cardinality(Within(answers, k, tx[l].stamp - Window, a.at)) >= Limit[k]
    BY <2>1, <2>2 DEF Earned
  <2>4. tx[l].stamp \in Int /\ clock \in Int /\ clock <= tx[l].stamp + MaxDelay
    BY <2>1, Arithmetic DEF At, Base, TypeOK, Ages, Transaction, Times
  <2>5. tx[l].stamp - Window \in Int /\ a.at - Window - MaxDelay <= tx[l].stamp - Window
    BY <2>2, <2>4, Arithmetic
  <2> QED
    BY <1>1, <2>3, <2>5
<1>4. ASSUME NEW l \in Limiters, Ends(l), Admit(l) PROVE a \in answers
  <2>1. PICK v \in Spending : answers' = answers \cup {NewAnswer(l, v)}
    BY <1>4, AdmitEffect
  <2>2. a # NewAnswer(l, v)
    BY DEF NewAnswer, Spending
  <2> QED
    BY <2>1, <2>2
<1>5. CASE NoAnswer
  BY <1>2, <1>5 DEF NoAnswer
<1> QED
  BY <1>2, <1>3, <1>4, <1>5, Effects

LEMMA Invariance == Spec => []IInv
<1>1. ASSUME Init PROVE IInv
  <2>0. \A l \in Limiters : tx[l] = None
    BY <1>1 DEF Init
  <2>1. Base
    BY <1>1, <2>0, InitTypes DEF Init, Base, Ages, Recent, Locked
  <2>2. Small
    BY <1>1, FS_EmptySet DEF Init, Small
  <2>3. Kept /\ Accounted /\ RefusalsAreEarned
    BY <1>1 DEF Init, Kept, Accounted, RefusalsAreEarned
  <2>4. Counted /\ Pruned /\ Earned
    BY <2>0 DEF Counted, Pruned, Earned, At
  <2>5. QuotaHolds
    <3>1. ASSUME NEW k, NEW from, NEW to PROVE Cardinality(Spent(k, from, to)) = 0
      <4>1. Spent(k, from, to) = {}
        BY <1>1 DEF Init, Spent
      <4> QED
        BY <4>1, FS_EmptySet
    <3> QED
      BY <3>1, Arithmetic DEF QuotaHolds
  <2> QED
    BY <2>1, <2>2, <2>3, <2>4, <2>5 DEF IInv
<1>2. ASSUME IInv, [Next]_vars PROVE IInv'
  BY <1>2, BaseStep, SmallStep, KeptStep, AccountedStep, CountedStep, PrunedStep,
     EarnedStep, QuotaStep, RefusalStep DEF IInv
<1> QED
  BY <1>1, <1>2, PTL DEF Spec

\* The shared window holds, whatever the limiters, keys, limits, window, retention,
\* cap and delay: no key is admitted more than its limit in any window less the time
\* that a transaction can last.
THEOREM QuotaIsKept == Spec => []QuotaHolds
<1>1. IInv => QuotaHolds
  BY DEF IInv
<1> QED
  BY <1>1, Invariance, PTL

\* Nobody is told that it is over its limit who did not spend it within the window.
THEOREM RefusalsAreAlwaysEarned == Spec => []RefusalsAreEarned
<1>1. IInv => RefusalsAreEarned
  BY DEF IInv
<1> QED
  BY <1>1, Invariance, PTL

\* Deletes of a transaction that has not pruned are a sweeper's.
SweepersDelete ==
    \A l \in Limiters :
        tx[l] # None /\ tx[l].step \in {"sweep", "lock", "prune"}
            => tx[l].sweeping \/ tx[l].dropped = {}

\* A sweep is the only delete before the prune, and takes the lock with it.
LEMMA SweepersDeleteStep ==
    ASSUME Base, SweepersDelete, [Next]_vars
    PROVE  SweepersDelete'
<1> SUFFICES ASSUME NEW m \in Limiters, tx'[m] # None, tx'[m].step \in {"sweep", "lock", "prune"}
             PROVE  tx'[m].sweeping \/ tx'[m].dropped = {}
  BY DEF SweepersDelete
<1>0. TypeOK /\ tx \in [Limiters -> Transaction \cup {None}]
  BY DEF Base, TypeOK
<1>1. CASE tx'[m] = tx[m]
  BY <1>1 DEF SweepersDelete
<1>2. ASSUME NEW k \in Keys, Begin(m, k) PROVE tx'[m].dropped = {}
  BY <1>0, <1>2, Started
<1>3. ASSUME Moves(m), Sweep(m) PROVE tx'[m].sweeping
  <2>1. PICK R : tx' = [tx EXCEPT ![m].step = "lock", ![m].dropped = R, ![m].sweeping = TRUE]
    BY <1>3 DEF Sweep
  <2>2. tx'[m] = [tx[m] EXCEPT !.step = "lock", !.dropped = R, !.sweeping = TRUE]
    BY <1>0, <2>1
  <2>3. tx[m] \in Transaction
    BY <1>0, <1>3 DEF Moves
  <2>4. tx'[m].sweeping = TRUE
    BY <2>2, <2>3 DEF Transaction
  <2> QED BY <2>4
<1>4. ASSUME Moves(m), SkipSweep(m) \/ LockKey(m)
      PROVE  tx'[m].sweeping \/ tx'[m].dropped = {}
  <2>1. tx[m] \in Transaction
    BY <1>0, <1>4 DEF Moves
  <2>2. \E s : tx' = [tx EXCEPT ![m].step = s]
    BY <1>4 DEF SkipSweep, LockKey
  <2>3. PICK s : tx'[m] = [tx[m] EXCEPT !.step = s]
    BY <1>0, <2>2
  <2>4. tx'[m].sweeping = tx[m].sweeping /\ tx'[m].dropped = tx[m].dropped
    BY <2>1, <2>3 DEF Transaction
  <2>5. tx[m] # None /\ tx[m].step \in {"sweep", "lock", "prune"}
    BY <1>4 DEF SkipSweep, LockKey, At
  <2>6. tx[m].sweeping \/ tx[m].dropped = {}
    BY <2>5 DEF SweepersDelete
  <2> QED BY <2>4, <2>6
<1>5. ASSUME Moves(m), Prune(m) \/ Count(m) \/ Decide(m) PROVE FALSE
  BY <1>0, <1>5, Leads DEF Moves
<1>6. ASSUME NEW l \in Limiters, l # m, Moves(l) PROVE tx'[m] = tx[m]
  BY <1>0, <1>6 DEF Moves
<1>7. ASSUME NEW l \in Limiters, l # m, NEW k \in Keys, Begin(l, k) PROVE tx'[m] = tx[m]
  <2>1. tx' = [tx EXCEPT ![l] = tx'[l]]
    BY <1>0, <1>7, Started
  <2> QED BY <1>0, <1>7, <2>1
<1>8. ASSUME NEW l \in Limiters, Ends(l) PROVE tx'[m] = tx[m]
  BY <1>0, <1>8 DEF Ends
<1>9. CASE Tick \/ UNCHANGED vars
  BY <1>1, <1>9 DEF Tick, vars
<1> QED
  BY <1>0, <1>1, <1>2, <1>3, <1>4, <1>5, <1>6, <1>7, <1>8, <1>9, Shapes DEF Rollback

\* Of two transactions that wait for each other one has swept, for any limiters and
\* keys: the waits of pruning and locking alone have no cycle.
THEOREM OnlySweepersEverDeadlock == Spec => []OnlySweepersDeadlock
<1>1. SweepersDelete => OnlySweepersDeadlock
  <2> SUFFICES ASSUME SweepersDelete, NEW l \in Limiters, NEW m \in Limiters,
                      Waits(l, m), Waits(m, l)
               PROVE  tx[l].sweeping \/ tx[m].sweeping
    BY DEF OnlySweepersDeadlock
  <2>1. /\ tx[l] # None /\ tx[l].step \in {"sweep", "lock", "prune"}
        /\ tx[m] # None /\ tx[m].step \in {"sweep", "lock", "prune"}
    BY DEF Waits, At
  <2>2. ASSUME tx[l].dropped = {}, tx[m].dropped = {} PROVE FALSE
    <3>1. At(l, "lock") /\ HoldsKey(m, tx[l].key)
      BY <2>2 DEF Waits
    <3>2. At(m, "lock") /\ HoldsKey(l, tx[m].key)
      BY <2>2 DEF Waits
    <3> QED BY <3>1, <3>2 DEF At, HoldsKey
  <2>3. ASSUME tx[l].dropped # {} PROVE tx[l].sweeping
    BY <2>1, <2>3 DEF SweepersDelete
  <2>4. ASSUME tx[m].dropped # {} PROVE tx[m].sweeping
    BY <2>1, <2>4 DEF SweepersDelete
  <2> QED BY <2>2, <2>3, <2>4
<1>2. Init => SweepersDelete
  BY DEF Init, SweepersDelete
<1>3. IInv /\ SweepersDelete /\ [Next]_vars => SweepersDelete'
  BY SweepersDeleteStep DEF IInv
<1> QED BY <1>1, <1>2, <1>3, Invariance, PTL DEF Spec

-----------------------------------------------------------------------------
(* The cap of the table. *)

\* Transactions past the check of the capacity, and those of them that will not free
\* a live row when they commit.
Past(l) == At(l, "decide") \/ At(l, "admit")
Fillers == {l \in Limiters : Past(l) /\ tx[l].dropped \cap Live = {}}

\* The keys of the table, and the transactions let in without pressure that will
\* add one.
TableKeys == {r.key : r \in Live}
Newcomers == {l \in Limiters : Past(l) /\ ~tx[l].pressed /\ tx[l].key \notin TableKeys}

\* Two transactions never delete the same row.
DropsApart ==
    \A l, m \in Limiters :
        l # m /\ tx[l] # None /\ tx[m] # None => tx[l].dropped \cap tx[m].dropped = {}

\* What is deleted is of the own key or past retention.
OwnOrStale ==
    \A l \in Limiters : tx[l] # None =>
        \A r \in tx[l].dropped : r.key = tx[l].key \/ r.at < tx[l].stamp - Retention

\* A key admitted under pressure has a row that no commit takes away.
Known ==
    \A l \in Limiters :
        At(l, "admit") /\ tx[l].pressed
            => \E r \in Mine(l) : r.at >= tx[l].stamp - Window

\* The table and whoever is past the check have room together.
Room ==
    MaxRows > 0 => Cardinality(Live) + Cardinality(Fillers)
                     <= MaxRows - 1 + Cardinality(Limiters)
KeyRoom ==
    MaxRows > 1 => Cardinality(TableKeys) + Cardinality(Newcomers)
                     <= MaxRows \div 2 - 1 + Cardinality(Limiters)

\* What each step makes of the deletes and of the pressure.
LEMMA Deletes ==
    ASSUME TypeOK, NEW l \in Limiters, tx[l] # None
    PROVE  /\ Sweep(l) => /\ tx'[l].dropped \subseteq Old(Retention, l)
                          /\ ~Contended(l, tx'[l].dropped)
           /\ SkipSweep(l) \/ LockKey(l) => tx'[l].dropped = tx[l].dropped
           /\ Decide(l) => tx'[l].pressed = tx[l].pressed
           /\ Count(l) => tx'[l].pressed = (MaxRows > 0 /\ LiveTotal(l) >= MaxRows \div 2)
<1>0. tx[l] \in Transaction /\ tx \in [Limiters -> Transaction \cup {None}]
  BY DEF TypeOK
<1>1. ASSUME Sweep(l)
      PROVE  tx'[l].dropped \subseteq Old(Retention, l) /\ ~Contended(l, tx'[l].dropped)
  <2>1. PICK R \in Sweepable(l) :
          /\ ~Contended(l, R)
          /\ tx' = [tx EXCEPT ![l].step = "lock", ![l].dropped = R, ![l].sweeping = TRUE]
    BY <1>1 DEF Sweep
  <2>2. tx'[l] = [tx[l] EXCEPT !.step = "lock", !.dropped = R, !.sweeping = TRUE]
    BY <1>0, <2>1
  <2>3. tx'[l].dropped = R
    BY <1>0, <2>2 DEF Transaction
  <2> QED BY <2>1, <2>3 DEF Sweepable
<1>2. ASSUME SkipSweep(l) \/ LockKey(l) PROVE tx'[l].dropped = tx[l].dropped
  <2>1. \E s : tx' = [tx EXCEPT ![l].step = s]
    BY <1>2 DEF SkipSweep, LockKey
  <2>2. PICK s : tx'[l] = [tx[l] EXCEPT !.step = s]
    BY <1>0, <2>1
  <2> QED BY <1>0, <2>2 DEF Transaction
<1>3. ASSUME Decide(l) PROVE tx'[l].pressed = tx[l].pressed
  <2> DEFINE s == IF Admitted(l) THEN "admit" ELSE "limit"
  <2>1. tx' = [tx EXCEPT ![l].step = s]
    BY <1>3 DEF Decide
  <2> HIDE DEF s
  <2>2. tx'[l] = [tx[l] EXCEPT !.step = s]
    BY <1>0, <2>1
  <2> QED BY <1>0, <2>2 DEF Transaction
<1>4. ASSUME Count(l)
      PROVE  tx'[l].pressed = (MaxRows > 0 /\ LiveTotal(l) >= MaxRows \div 2)
  <2> DEFINE p == MaxRows > 0 /\ LiveTotal(l) >= MaxRows \div 2
  <2>1. tx' = [tx EXCEPT ![l].step = "decide", ![l].pressed = p]
    BY <1>4 DEF Count
  <2> HIDE DEF p
  <2>2. tx'[l] = [tx[l] EXCEPT !.step = "decide", !.pressed = p]
    BY <1>0, <2>1
  <2>3. tx'[l].pressed = p
    BY <1>0, <2>2 DEF Transaction
  <2> QED BY <2>3 DEF p
<1> QED BY <1>1, <1>2, <1>3, <1>4

\* Who still runs after a step either was left alone, or moved, or has just begun.
LEMMA WhoRuns ==
    ASSUME Base, [Next]_vars, NEW m \in Limiters, tx'[m] # None
    PROVE  \/ tx[m] # None /\ tx'[m] = tx[m]
           \/ tx'[m].dropped = {} /\ tx'[m].step \in {"sweep", "lock"} /\ rows' = rows
           \/ Moves(m) /\ (Sweep(m) \/ SkipSweep(m) \/ LockKey(m)
                             \/ Prune(m) \/ Count(m) \/ Decide(m))
<1>0. TypeOK /\ tx \in [Limiters -> Transaction \cup {None}]
  BY DEF Base, TypeOK
<1>1. ASSUME NEW l \in Limiters, NEW k \in Keys, Begin(l, k)
      PROVE  \/ tx[m] # None /\ tx'[m] = tx[m]
             \/ tx'[m].dropped = {} /\ tx'[m].step \in {"sweep", "lock"} /\ rows' = rows
  <2>1. /\ tx' = [tx EXCEPT ![l] = tx'[l]] /\ tx'[l].dropped = {} /\ rows' = rows
        /\ tx'[l].step \in {"sweep", "lock"}
    BY <1>0, <1>1, Started
  <2> QED BY <1>0, <2>1
<1>2. ASSUME NEW l \in Limiters, l # m, Moves(l) PROVE tx'[m] = tx[m]
  BY <1>0, <1>2 DEF Moves
<1>3. ASSUME NEW l \in Limiters, Ends(l) PROVE tx'[m] = tx[m]
  BY <1>0, <1>3 DEF Ends
<1>4. ASSUME Tick \/ UNCHANGED vars PROVE tx'[m] = tx[m]
  BY <1>4 DEF Tick, vars
<1> QED BY <1>0, <1>1, <1>2, <1>3, <1>4, Shapes DEF Rollback

\* A delete waits for a rival's uncommitted delete of the same row.
LEMMA DropsApartStep ==
    ASSUME Base, DropsApart, [Next]_vars
    PROVE  DropsApart'
<1>0. TypeOK /\ tx \in [Limiters -> Transaction \cup {None}]
  BY DEF Base, TypeOK
<1>1. ASSUME NEW l \in Limiters, Moves(l),
             Sweep(l) \/ SkipSweep(l) \/ LockKey(l) \/ Prune(l) \/ Count(l) \/ Decide(l)
      PROVE  /\ \A m \in Limiters \ {l} : tx'[m] = tx[m]
             /\ \A m \in Limiters \ {l} : tx[m] # None => tx'[l].dropped \cap tx[m].dropped = {}
  <2>1. tx[l] # None /\ \A m \in Limiters \ {l} : tx'[m] = tx[m]
    BY <1>0, <1>1 DEF Moves
  <2>2. ASSUME NEW m \in Limiters \ {l}, tx[m] # None
        PROVE  tx'[l].dropped \cap tx[m].dropped = {}
    <3>1. m \in Rivals(l) /\ tx[l].dropped \cap tx[m].dropped = {}
      BY <2>1, <2>2 DEF Rivals, DropsApart
    <3>2. CASE Sweep(l)
      BY <1>0, <2>1, <3>1, <3>2, Deletes DEF Contended
    <3>3. CASE SkipSweep(l) \/ LockKey(l)
      BY <1>0, <2>1, <3>1, <3>3, Deletes
    <3>4. CASE Prune(l)
      <4>1. ~Contended(l, Prunable(l))
        BY <3>4 DEF Prune
      <4>2. tx'[l].dropped = tx[l].dropped \cup Prunable(l)
        BY <1>0, <2>1, <3>4, Leads
      <4> QED BY <3>1, <4>1, <4>2 DEF Contended
    <3>5. CASE Count(l) \/ Decide(l)
      BY <1>0, <2>1, <3>1, <3>5, Leads
    <3> QED BY <1>1, <3>2, <3>3, <3>4, <3>5
  <2> QED BY <2>1, <2>2
<1>2. ASSUME NEW l \in Limiters, NEW k \in Keys, Begin(l, k) PROVE DropsApart'
  <2>1. tx'[l].dropped = {} /\ tx' = [tx EXCEPT ![l] = tx'[l]]
    BY <1>0, <1>2, Started
  <2>2. \A m \in Limiters \ {l} : tx'[m] = tx[m]
    BY <1>0, <2>1
  <2> QED BY <2>1, <2>2 DEF DropsApart
<1>3. ASSUME NEW l \in Limiters, Ends(l) PROVE DropsApart'
  <2>1. tx'[l] = None /\ \A m \in Limiters \ {l} : tx'[m] = tx[m]
    BY <1>0, <1>3 DEF Ends
  <2> QED BY <2>1 DEF DropsApart
<1>4. ASSUME NEW l \in Limiters, Moves(l),
             Sweep(l) \/ SkipSweep(l) \/ LockKey(l) \/ Prune(l) \/ Count(l) \/ Decide(l)
      PROVE  DropsApart'
  BY <1>1, <1>4 DEF DropsApart
<1>5. CASE Tick \/ UNCHANGED vars
  BY <1>5 DEF Tick, vars, DropsApart
<1> QED BY <1>0, <1>2, <1>3, <1>4, <1>5, Shapes DEF Rollback

\* A sweep deletes what is past retention, a prune what is of the locked key.
LEMMA OwnOrStaleStep ==
    ASSUME Base, OwnOrStale, [Next]_vars
    PROVE  OwnOrStale'
<1> SUFFICES ASSUME NEW m \in Limiters, tx'[m] # None, NEW r \in tx'[m].dropped
             PROVE  r.key = tx'[m].key \/ r.at < tx'[m].stamp - Retention
  BY DEF OwnOrStale
<1>0. TypeOK
  BY DEF Base
<1>1. CASE tx[m] # None /\ tx'[m] = tx[m]
  BY <1>1 DEF OwnOrStale
<1>2. ASSUME Moves(m), r \in tx[m].dropped
      PROVE  r.key = tx'[m].key \/ r.at < tx'[m].stamp - Retention
  BY <1>2 DEF Moves, OwnOrStale
<1>3. ASSUME Moves(m), Sweep(m)
      PROVE  r.at < tx'[m].stamp - Retention
  BY <1>0, <1>3, Deletes DEF Moves, Old
<1>4. ASSUME Moves(m), SkipSweep(m) \/ LockKey(m)
      PROVE  r \in tx[m].dropped
  BY <1>0, <1>4, Deletes DEF Moves
<1>5. ASSUME Moves(m), Prune(m)
      PROVE  r \in tx[m].dropped \/ r.key = tx'[m].key
  BY <1>0, <1>5, Leads DEF Moves, Prunable
<1>6. ASSUME Moves(m), Count(m) \/ Decide(m)
      PROVE  r \in tx[m].dropped
  BY <1>0, <1>6, Leads DEF Moves
<1> QED BY <1>1, <1>2, <1>3, <1>4, <1>5, <1>6, WhoRuns

\* Nothing a transaction has deleted is live, but rows of its own key.
LEMMA StaleIsDead ==
    ASSUME Base, OwnOrStale, NEW l \in Limiters, tx[l] # None, NEW r \in tx[l].dropped,
           r \in rows, r.at >= clock - Retention
    PROVE  r.key = tx[l].key
<1>1. /\ tx[l].stamp \in Nat /\ clock \in Nat /\ r.at \in Nat /\ Retention \in Nat
      /\ tx[l].stamp <= clock
  BY LimiterAssumption DEF Base, TypeOK, Transaction, Row, Times, Ages
<1>2. ~(r.at < tx[l].stamp - Retention)
  BY <1>1
<1> QED BY <1>2 DEF OwnOrStale

\* A row within the window of a transaction is live as long as it lasts.
LEMMA FreshIsLive ==
    ASSUME Base, NEW l \in Limiters, tx[l] # None, NEW r \in rows,
           r.at >= tx[l].stamp - Window
    PROVE  r.at >= clock - Retention
<1>1. /\ tx[l].stamp \in Nat /\ clock \in Nat /\ r.at \in Nat
      /\ clock <= tx[l].stamp + MaxDelay
  BY DEF Base, TypeOK, Transaction, Row, Times, Ages
<1> QED BY <1>1, LimiterAssumption, RetentionAssumption

\* What leaves a set A makes room for whoever it was kept out for: nobody new in G
\* but those whose part of A has gone.
LEMMA Traded ==
    ASSUME NEW A, NEW B, NEW F, NEW G, NEW d, IsFiniteSet(A), IsFiniteSet(F), B \subseteq A,
           \A m \in G \ F : d[m] \cap A # {} /\ d[m] \cap B = {},
           \A m, n \in G \ F : m # n => d[m] \cap d[n] = {}
    PROVE  Cardinality(B) + Cardinality(G) <= Cardinality(A) + Cardinality(F)
<1> DEFINE N == G \ F
           O == A \ B
           f == [m \in N |-> CHOOSE r \in d[m] : r \in A]
<1>1. \A m \in N : f[m] \in d[m] /\ f[m] \in O
  OBVIOUS
<1>2. f \in Injection(N, O)
  <2>1. f \in [N -> O]
    BY <1>1
  <2>2. \A m, n \in N : m # n => d[m] \cap d[n] = {}
    OBVIOUS
  <2> HIDE DEF f, N, O
  <2>3. \A m, n \in N : f[m] = f[n] => m = n
    BY <1>1, <2>2
  <2> QED BY <2>1, <2>3 DEF Injection, IsInjective
<1>3. IsFiniteSet(O) /\ IsFiniteSet(B) /\ Cardinality(O) = Cardinality(A) - Cardinality(B)
  <2>1. A \cap B = B
    OBVIOUS
  <2>2. IsFiniteSet(A \ B) /\ Cardinality(A \ B) = Cardinality(A) - Cardinality(A \cap B)
    BY FS_Difference
  <2>3. IsFiniteSet(B)
    BY FS_Subset
  <2> QED BY <2>1, <2>2, <2>3
<1> HIDE DEF f
<1>4. IsFiniteSet(N) /\ Cardinality(N) <= Cardinality(O)
  BY <1>2, <1>3, FS_Injection
<1>5. G \subseteq F \cup N
  OBVIOUS
<1> HIDE DEF N, O
<1>6. IsFiniteSet(F \cup N) /\ Cardinality(F \cup N) <= Cardinality(F) + Cardinality(N)
  <2>1. /\ IsFiniteSet(F \cup N) /\ IsFiniteSet(F \cap N)
        /\ Cardinality(F \cup N)
              = Cardinality(F) + Cardinality(N) - Cardinality(F \cap N)
    BY <1>4, FS_Union, FS_Intersection
  <2>2. /\ Cardinality(F \cap N) \in Nat /\ Cardinality(F) \in Nat
        /\ Cardinality(N) \in Nat
    BY <1>4, <2>1, FS_CardinalityType
  <2> QED BY <2>1, <2>2
<1>7. IsFiniteSet(G) /\ Cardinality(G) <= Cardinality(F \cup N)
  BY <1>5, <1>6, FS_Subset
<1>8. /\ Cardinality(A) \in Nat /\ Cardinality(B) \in Nat /\ Cardinality(F) \in Nat
      /\ Cardinality(G) \in Nat /\ Cardinality(N) \in Nat /\ Cardinality(O) \in Nat
      /\ Cardinality(F \cup N) \in Nat
  BY <1>3, <1>4, <1>6, <1>7, FS_CardinalityType
<1> DEFINE a == Cardinality(A)
           b == Cardinality(B)
           c == Cardinality(F)
           e == Cardinality(G)
           n == Cardinality(N)
           o == Cardinality(O)
           u == Cardinality(F \cup N)
<1>9. /\ a \in Nat /\ b \in Nat /\ c \in Nat /\ e \in Nat
      /\ n \in Nat /\ o \in Nat /\ u \in Nat
      /\ o = a - b /\ n <= o /\ u <= c + n /\ e <= u
  BY <1>3, <1>4, <1>6, <1>7, <1>8
<1> HIDE DEF a, b, c, e, n, o, u
<1>10. b + e <= a + c
  BY <1>9
<1> QED BY <1>10 DEF a, b, c, e

\* One row more and one transaction less, whatever else went.
LEMMA Settled ==
    ASSUME NEW A, NEW B, NEW F, NEW G, NEW x, NEW l, IsFiniteSet(A), IsFiniteSet(F),
           B \subseteq A \cup {x}, l \in F, G \subseteq F \ {l}
    PROVE  Cardinality(B) + Cardinality(G) <= Cardinality(A) + Cardinality(F)
<1>1. IsFiniteSet(A \cup {x}) /\ Cardinality(A \cup {x}) <= Cardinality(A) + 1
  <2>1. /\ IsFiniteSet(A \cup {x})
        /\ Cardinality(A \cup {x}) = IF x \in A THEN Cardinality(A) ELSE Cardinality(A) + 1
    BY FS_AddElement
  <2>2. Cardinality(A) \in Nat
    BY FS_CardinalityType
  <2> QED BY <2>1, <2>2
<1>2. IsFiniteSet(F \ {l}) /\ Cardinality(F \ {l}) = Cardinality(F) - 1
  BY FS_RemoveElement
<1>3. IsFiniteSet(B) /\ Cardinality(B) <= Cardinality(A \cup {x})
  BY <1>1, FS_Subset
<1>4. IsFiniteSet(G) /\ Cardinality(G) <= Cardinality(F \ {l})
  BY <1>2, FS_Subset
<1>5. /\ Cardinality(A) \in Nat /\ Cardinality(B) \in Nat /\ Cardinality(F) \in Nat
      /\ Cardinality(G) \in Nat /\ Cardinality(A \cup {x}) \in Nat
      /\ Cardinality(F \ {l}) \in Nat
  BY <1>1, <1>2, <1>3, <1>4, FS_CardinalityType
<1> QED BY <1>1, <1>2, <1>3, <1>4, <1>5

\* What is kept of the arithmetic of sizes.
LEMMA Sizes ==
    ASSUME Small
    PROVE  /\ IsFiniteSet(Live) /\ Cardinality(Live) \in Nat
           /\ IsFiniteSet(TableKeys) /\ Cardinality(TableKeys) \in Nat
           /\ Cardinality(TableKeys) <= Cardinality(Live)
           /\ IsFiniteSet(Fillers) /\ Cardinality(Fillers) \in Nat
           /\ Cardinality(Fillers) <= Cardinality(Limiters)
           /\ IsFiniteSet(Newcomers) /\ Cardinality(Newcomers) \in Nat
           /\ Cardinality(Newcomers) <= Cardinality(Limiters)
           /\ Cardinality(Limiters) \in Nat
<1>1. IsFiniteSet(Live)
  BY FS_Subset DEF Small, Live
<1>2. IsFiniteSet(TableKeys) /\ Cardinality(TableKeys) <= Cardinality(Live)
  <2> DEFINE f == [r \in Live |-> r.key]
  <2>1. f \in Surjection(Live, TableKeys)
    BY DEF Surjection, TableKeys
  <2> HIDE DEF f
  <2> QED BY <1>1, <2>1, FS_Surjection
<1>3. IsFiniteSet(Limiters)
  BY LimiterAssumption
<1>4. IsFiniteSet(Fillers) /\ Cardinality(Fillers) <= Cardinality(Limiters)
  BY <1>3, FS_Subset DEF Fillers
<1>5. IsFiniteSet(Newcomers) /\ Cardinality(Newcomers) <= Cardinality(Limiters)
  BY <1>3, FS_Subset DEF Newcomers
<1> QED BY <1>1, <1>2, <1>3, <1>4, <1>5, FS_CardinalityType

\* A key admitted under pressure stays known until it is admitted: a row within its
\* window is deleted by nobody else.
LEMMA KnownStep ==
    ASSUME Base, Small, Pruned, OwnOrStale, Known, [Next]_vars
    PROVE  Known'
<1> SUFFICES ASSUME NEW m \in Limiters, tx'[m] # None, tx'[m].step = "admit", tx'[m].pressed
             PROVE  \E r \in Mine(m)' : r.at >= tx'[m].stamp - Window
  BY DEF Known, At
<1>0. TypeOK /\ Locked
  BY DEF Base
<1>1. CASE Moves(m) /\ (Prune(m) \/ Count(m) \/ Decide(m))
  <2>1. /\ tx[m] # None /\ tx'[m].stamp = tx[m].stamp /\ tx'[m].key = tx[m].key
        /\ rows' = rows
    BY <1>1 DEF Moves
  <2>2. Decide(m)
    BY <1>0, <1>1, <2>1, Leads
  <2>3. tx[m].step = "decide" /\ tx'[m].dropped = tx[m].dropped /\ Admitted(m)
    BY <1>0, <2>1, <2>2, Leads
  <2>4. tx[m].pressed
    BY <1>0, <2>1, <2>2, Deletes
  <2>5. LiveForKey(m) # 0
    BY <2>2, <2>3, <2>4 DEF Decide, Novel
  <2>6. Mine(m) # {}
    BY <2>5, FS_EmptySet DEF LiveForKey, Mine
  <2>7. \A r \in Mine(m) : r.at >= tx[m].stamp - Window
    BY <2>1, <2>3 DEF Pruned, At
  <2>8. Mine(m)' = Mine(m)
    BY <2>1, <2>3 DEF Mine, Seen
  <2> QED BY <2>1, <2>6, <2>7, <2>8
<1>2. CASE tx'[m] = tx[m]
  <2>1. PICK r \in Mine(m) : r.at >= tx[m].stamp - Window
    BY <1>2 DEF Known, At
  <2>2. r \in rows /\ r \notin tx[m].dropped /\ r.key = tx[m].key
    BY <2>1 DEF Mine, Seen
  <2>3. ASSUME NEW l \in Limiters, Ends(l), At(l, "limit") \/ At(l, "admit"),
               r \in tx[l].dropped
        PROVE  FALSE
    <3>1. l # m
      BY <1>0, <1>2, <2>3 DEF Ends, TypeOK
    <3>2. r.at >= clock - Retention
      BY <1>2, <2>1, <2>2, FreshIsLive
    <3>3. tx[l] # None /\ tx[l].step \notin {"sweep", "lock"}
      BY <2>3 DEF At
    <3>4. tx[l].key = tx[m].key
      BY <2>2, <2>3, <3>2, <3>3, StaleIsDead
    <3> QED BY <1>0, <1>2, <3>1, <3>3, <3>4 DEF Locked
  <2>4. r \in rows'
    <3>1. CASE NoAnswer
      BY <2>2, <3>1 DEF NoAnswer
    <3>2. ASSUME NEW l \in Limiters, Ends(l), Limited(l) PROVE r \in rows'
      BY <2>2, <2>3, <3>2, LimitedEffect DEF Seen
    <3>3. ASSUME NEW l \in Limiters, Ends(l), Admit(l) PROVE r \in rows'
      BY <2>2, <2>3, <3>3, AdmitEffect DEF Seen
    <3> QED BY <3>1, <3>2, <3>3, Effects
  <2>5. r \in Mine(m)'
    BY <1>2, <2>2, <2>4 DEF Mine, Seen
  <2> QED BY <1>2, <2>1, <2>5
<1> QED BY <1>1, <1>2, WhoMoved

\* Who is past the check after a step either was before, or has just counted.
LEMMA WhoIsPast ==
    ASSUME Base, [Next]_vars, NEW m \in Limiters, Past(m)'
    PROVE  \/ /\ Past(m) /\ tx[m] # None
              /\ tx'[m].dropped = tx[m].dropped
              /\ tx'[m].pressed = tx[m].pressed /\ tx'[m].key = tx[m].key
           \/ Moves(m) /\ Count(m)
<1>0. TypeOK
  BY DEF Base
<1>1. tx'[m] # None /\ tx'[m].step \in {"decide", "admit"}
  BY DEF Past, At
<1>2. CASE tx'[m] = tx[m]
  BY <1>1, <1>2 DEF Past, At
<1>3. CASE Moves(m) /\ Prune(m)
  BY <1>0, <1>1, <1>3, Leads DEF Moves
<1>4. CASE Moves(m) /\ Decide(m)
  <2>1. tx[m] # None /\ tx'[m].key = tx[m].key
    BY <1>4 DEF Moves
  <2>2. tx[m].step = "decide" /\ tx'[m].dropped = tx[m].dropped
    BY <1>0, <1>4, <2>1, Leads
  <2>3. tx'[m].pressed = tx[m].pressed
    BY <1>0, <1>4, <2>1, Deletes
  <2> QED BY <2>1, <2>2, <2>3 DEF Past, At
<1> QED BY <1>1, <1>2, <1>3, <1>4, WhoMoved

\* Rows leave the table, or grow old; the only one that comes is an admission's.
LEMMA LiveAfter ==
    ASSUME Base, [Next]_vars
    PROVE  \/ Live' \subseteq Live
           \/ \E l \in Limiters : Ends(l) /\ Admit(l)
<1>0. clock \in Nat /\ clock' \in Nat /\ Retention \in Nat /\ \A r \in rows : r.at \in Nat
  BY TypeStep, LimiterAssumption DEF Base, TypeOK, Times, Row
<1>1. ASSUME NoAnswer PROVE Live' \subseteq Live
  <2>1. \A r \in rows : r.at >= clock' - Retention => r.at >= clock - Retention
    BY <1>0, <1>1 DEF NoAnswer
  <2> QED BY <1>1, <2>1 DEF NoAnswer, Live
<1>2. ASSUME NEW l \in Limiters, Ends(l), Limited(l) PROVE Live' \subseteq Live
  BY <1>2, LimitedEffect DEF Seen, Live
<1> QED BY <1>1, <1>2, Effects

\* An admission brings its row in and takes its deletes away.
LEMMA LiveAdmits ==
    ASSUME Base, NEW l \in Limiters, Ends(l), Admit(l)
    PROVE  /\ tx[l] # None /\ Past(l) /\ ~Past(l)'
           /\ Live' \subseteq (Live \ tx[l].dropped) \cup {NewRow(l)}
           /\ Live \ tx[l].dropped \subseteq Live'
<1>1. At(l, "admit") /\ rows' = Seen(l) \cup {NewRow(l)} /\ clock' = clock
  BY AdmitEffect
<1>2. tx'[l] = None
  BY DEF Ends, Base, TypeOK
<1> QED BY <1>1, <1>2 DEF Past, At, Live, Seen

\* Without an admission or a count, room can only grow.
LEMMA RoomIsTraded ==
    ASSUME Base, Small, DropsApart, [Next]_vars, Live' \subseteq Live,
           \A m \in Limiters : Moves(m) /\ Count(m) => m \in Fillers \/ m \notin Fillers'
    PROVE  Cardinality(Live') + Cardinality(Fillers')
              <= Cardinality(Live) + Cardinality(Fillers)
<1> DEFINE d == [m \in Limiters |-> tx[m].dropped]
<1>1. \A m \in Fillers' \ Fillers :
         /\ m \in Limiters /\ tx[m] # None
         /\ tx[m].dropped \cap Live # {} /\ tx[m].dropped \cap Live' = {}
  <2> SUFFICES ASSUME NEW m \in Fillers', m \notin Fillers
               PROVE  /\ m \in Limiters /\ tx[m] # None
                      /\ tx[m].dropped \cap Live # {} /\ tx[m].dropped \cap Live' = {}
    OBVIOUS
  <2>1. m \in Limiters /\ Past(m)' /\ tx'[m].dropped \cap Live' = {}
    BY DEF Fillers
  <2>2. Past(m) /\ tx[m] # None /\ tx'[m].dropped = tx[m].dropped
    BY <2>1, WhoIsPast
  <2> QED BY <2>1, <2>2 DEF Fillers
<1>2. \A m \in Fillers' \ Fillers : d[m] \cap Live # {} /\ d[m] \cap Live' = {}
  BY <1>1
<1>3. \A m, n \in Fillers' \ Fillers : m # n => d[m] \cap d[n] = {}
  BY <1>1 DEF DropsApart
<1> HIDE DEF d
<1>4. IsFiniteSet(Live) /\ IsFiniteSet(Fillers)
  BY Sizes
<1> QED BY <1>2, <1>3, <1>4, Traded

\* An admission fills the room it was counted for; a count that finds room below
\* the cap starts from a table no larger than what it saw.
LEMMA RoomStep ==
    ASSUME Base, Small, Small', DropsApart, Room, [Next]_vars, MaxRows > 0
    PROVE  Cardinality(Live') + Cardinality(Fillers') <= MaxRows - 1 + Cardinality(Limiters)
<1>0. /\ Cardinality(Live) \in Nat /\ Cardinality(Fillers) \in Nat /\ MaxRows \in Nat
      /\ Cardinality(Live') \in Nat /\ Cardinality(Fillers') \in Nat
      /\ Cardinality(Limiters) \in Nat
      /\ IsFiniteSet(Live) /\ IsFiniteSet(Fillers) /\ IsFiniteSet(Fillers')
      /\ Cardinality(Live) + Cardinality(Fillers) <= MaxRows - 1 + Cardinality(Limiters)
      /\ Cardinality(Fillers') <= Cardinality(Limiters)
  <2>1. /\ IsFiniteSet(Fillers') /\ Cardinality(Live') \in Nat /\ Cardinality(Fillers') \in Nat
        /\ Cardinality(Fillers') <= Cardinality(Limiters)
    <3>1. Fillers' \subseteq Limiters
      BY DEF Fillers
    <3>2. IsFiniteSet(Limiters)
      BY LimiterAssumption
    <3>3. IsFiniteSet(Live')
      <4>1. IsFiniteSet(rows')
        BY DEF Small
      <4> QED BY <4>1, FS_Subset DEF Live
    <3> QED BY <3>1, <3>2, <3>3, FS_Subset, FS_CardinalityType
  <2> QED BY <2>1, Sizes, LimiterAssumption DEF Room
<1>1. ASSUME Cardinality(Live') + Cardinality(Fillers')
                <= Cardinality(Live) + Cardinality(Fillers)
      PROVE  Cardinality(Live') + Cardinality(Fillers') <= MaxRows - 1 + Cardinality(Limiters)
  BY <1>0, <1>1
<1>2. ASSUME NEW l \in Limiters, Ends(l), Admit(l)
      PROVE  Cardinality(Live') + Cardinality(Fillers')
                <= Cardinality(Live) + Cardinality(Fillers)
  <2>0. /\ tx[l] # None /\ Past(l) /\ ~Past(l)'
        /\ Live' \subseteq (Live \ tx[l].dropped) \cup {NewRow(l)}
        /\ Live \ tx[l].dropped \subseteq Live'
    BY <1>2, LiveAdmits
  <2>1. Fillers' \subseteq Fillers \ {l}
    <3> SUFFICES ASSUME NEW m \in Fillers' PROVE m \in Fillers /\ m # l
      OBVIOUS
    <3>1. m \in Limiters /\ Past(m)' /\ tx'[m].dropped \cap Live' = {}
      BY DEF Fillers
    <3>2. m # l
      BY <2>0, <3>1
    <3>3. ~(Moves(m) /\ Count(m))
      BY <1>2 DEF Moves, Ends, Base, TypeOK, Count, Admit, At, Unavailable, Answered
    <3>4. Past(m) /\ tx[m] # None /\ tx'[m].dropped = tx[m].dropped
      BY <3>1, <3>3, WhoIsPast
    <3>5. tx[m].dropped \cap tx[l].dropped = {}
      BY <2>0, <3>1, <3>2, <3>4 DEF DropsApart
    <3>6. tx[m].dropped \cap Live = {}
      BY <2>0, <3>1, <3>4, <3>5
    <3> QED BY <3>1, <3>2, <3>4, <3>6 DEF Fillers
  <2>2. CASE l \in Fillers
    <3>1. Live' \subseteq Live \cup {NewRow(l)}
      BY <2>0
    <3> QED BY <1>0, <2>1, <2>2, <3>1, Settled
  <2>3. CASE l \notin Fillers
    <3>1. PICK r \in Live : r \in tx[l].dropped
      BY <2>0, <2>3 DEF Fillers
    <3> DEFINE rest == Live \ {r}
    <3>2. Live' \subseteq rest \cup {NewRow(l)}
      BY <2>0, <3>1
    <3>3. IsFiniteSet(rest) /\ Cardinality(rest) = Cardinality(Live) - 1
      BY <1>0, FS_RemoveElement
    <3> HIDE DEF rest
    <3>4. /\ IsFiniteSet(rest \cup {NewRow(l)})
          /\ Cardinality(rest \cup {NewRow(l)}) <= Cardinality(rest) + 1
      <4>1. /\ IsFiniteSet(rest \cup {NewRow(l)})
            /\ Cardinality(rest \cup {NewRow(l)})
                  = IF NewRow(l) \in rest THEN Cardinality(rest) ELSE Cardinality(rest) + 1
        BY <3>3, FS_AddElement
      <4>2. Cardinality(rest) \in Nat
        BY <3>3, FS_CardinalityType
      <4> QED BY <4>1, <4>2
    <3>5. Cardinality(Live') <= Cardinality(rest \cup {NewRow(l)})
      BY <3>2, <3>4, FS_Subset
    <3>6. Cardinality(Fillers') <= Cardinality(Fillers)
      BY <1>0, <2>1, FS_Subset
    <3>7. Cardinality(rest) \in Nat /\ Cardinality(rest \cup {NewRow(l)}) \in Nat
      BY <3>3, <3>4, FS_CardinalityType
    <3> QED BY <1>0, <3>3, <3>4, <3>5, <3>6, <3>7
  <2> QED BY <2>2, <2>3
<1>3. ASSUME NEW l \in Limiters, Moves(l), Count(l), l \in Fillers', l \notin Fillers
      PROVE  Cardinality(Live') + Cardinality(Fillers') <= MaxRows - 1 + Cardinality(Limiters)
  <2> DEFINE C == {r \in Seen(l) : r.at >= tx[l].stamp - Retention}
  <2>1. tx[l] # None /\ rows' = rows /\ clock' = clock /\ tx'[l].dropped = tx[l].dropped
    BY <1>3, Leads DEF Moves, Base
  <2>2. Live' = Live /\ tx[l].dropped \cap Live = {}
    BY <1>3, <2>1 DEF Fillers, Live
  <2>3. Live \subseteq C
    <3>1. /\ clock \in Nat /\ tx[l].stamp \in Nat /\ tx[l].stamp <= clock /\ Retention \in Nat
          /\ \A r \in rows : r.at \in Nat
      BY <2>1, LimiterAssumption DEF Base, Ages, TypeOK, Transaction, Times, Row
    <3> QED BY <2>2, <3>1 DEF Live, Seen
  <2>4. IsFiniteSet(C)
    BY FS_Subset DEF Small, Seen
  <2>5. Cardinality(C) < MaxRows
    <3>1. ~AtCapacity(l) /\ LiveTotal(l) = Cardinality(C)
      BY <1>3 DEF Count, LiveTotal
    <3>2. Cardinality(C) \in Nat
      BY <2>4, FS_CardinalityType
    <3> HIDE DEF C
    <3> QED BY <1>0, <3>1, <3>2 DEF AtCapacity
  <2> HIDE DEF C
  <2>6. Cardinality(Live) <= Cardinality(C) /\ Cardinality(C) \in Nat
    BY <2>3, <2>4, FS_Subset, FS_CardinalityType
  <2>7. Cardinality(Live') = Cardinality(Live)
    BY <2>2
  <2> QED BY <1>0, <2>5, <2>6, <2>7
<1>4. ASSUME ~\E l \in Limiters : Ends(l) /\ Admit(l),
             \A m \in Limiters : Moves(m) /\ Count(m) => m \in Fillers \/ m \notin Fillers'
      PROVE  Cardinality(Live') + Cardinality(Fillers')
                <= Cardinality(Live) + Cardinality(Fillers)
  BY <1>4, LiveAfter, RoomIsTraded
<1> QED BY <1>1, <1>2, <1>3, <1>4

\* As long as no key comes, the newcomers stay within what the keys that went leave.
LEMMA KeyRoomIsTraded ==
    ASSUME Base, Small, [Next]_vars, TableKeys' \subseteq TableKeys,
           \A m \in Limiters : Moves(m) /\ Count(m) => m \in Newcomers \/ m \notin Newcomers'
    PROVE  Cardinality(TableKeys') + Cardinality(Newcomers')
              <= Cardinality(TableKeys) + Cardinality(Newcomers)
<1> DEFINE d == [m \in Limiters |-> {tx[m].key}]
<1>1. \A m \in Newcomers' \ Newcomers :
         /\ m \in Limiters /\ Past(m) /\ tx[m] # None
         /\ tx[m].key \in TableKeys /\ tx[m].key \notin TableKeys'
  <2> SUFFICES ASSUME NEW m \in Newcomers', m \notin Newcomers
               PROVE  /\ m \in Limiters /\ Past(m) /\ tx[m] # None
                      /\ tx[m].key \in TableKeys /\ tx[m].key \notin TableKeys'
    OBVIOUS
  <2>1. m \in Limiters /\ Past(m)' /\ ~tx'[m].pressed /\ tx'[m].key \notin TableKeys'
    BY DEF Newcomers
  <2>2. /\ Past(m) /\ tx[m] # None /\ tx'[m].pressed = tx[m].pressed
        /\ tx'[m].key = tx[m].key
    BY <2>1, WhoIsPast
  <2> QED BY <2>1, <2>2 DEF Newcomers
<1>2. \A m \in Newcomers' \ Newcomers : d[m] \cap TableKeys # {} /\ d[m] \cap TableKeys' = {}
  BY <1>1
<1>3. \A m, n \in Newcomers' \ Newcomers : m # n => d[m] \cap d[n] = {}
  BY <1>1 DEF Base, Locked, Past, At
<1> HIDE DEF d
<1>4. IsFiniteSet(TableKeys) /\ IsFiniteSet(Newcomers)
  BY Sizes
<1> QED BY <1>2, <1>3, <1>4, Traded

\* The same of the keys: only one let in without pressure brings a new one.
LEMMA KeyRoomStep ==
    ASSUME Base, Small, Small', OwnOrStale, Known, KeyRoom, [Next]_vars, MaxRows > 1
    PROVE  Cardinality(TableKeys') + Cardinality(Newcomers')
              <= MaxRows \div 2 - 1 + Cardinality(Limiters)
<1> DEFINE half == MaxRows \div 2
<1>0. /\ Cardinality(TableKeys) \in Nat /\ Cardinality(Newcomers) \in Nat /\ half \in Nat
      /\ Cardinality(TableKeys') \in Nat /\ Cardinality(Newcomers') \in Nat
      /\ Cardinality(Limiters) \in Nat
      /\ IsFiniteSet(TableKeys) /\ IsFiniteSet(Newcomers) /\ IsFiniteSet(Newcomers')
      /\ Cardinality(TableKeys) + Cardinality(Newcomers) <= half - 1 + Cardinality(Limiters)
      /\ Cardinality(Newcomers') <= Cardinality(Limiters)
  <2>1. /\ IsFiniteSet(Newcomers') /\ Cardinality(Newcomers') \in Nat
        /\ Cardinality(Newcomers') <= Cardinality(Limiters)
    <3>1. Newcomers' \subseteq Limiters
      BY DEF Newcomers
    <3>2. IsFiniteSet(Limiters)
      BY LimiterAssumption
    <3> QED BY <3>1, <3>2, FS_Subset, FS_CardinalityType
  <2>2. Cardinality(TableKeys') \in Nat
    <3> DEFINE f == [r \in Live' |-> r.key]
    <3>1. IsFiniteSet(rows')
      BY DEF Small
    <3>2. IsFiniteSet(Live')
      BY <3>1, FS_Subset DEF Live
    <3>3. f \in Surjection(Live', TableKeys')
      BY DEF Surjection, TableKeys
    <3> HIDE DEF f
    <3> QED BY <3>2, <3>3, FS_Surjection, FS_CardinalityType
  <2>3. half \in Nat
    BY LimiterAssumption
  <2> QED BY <2>1, <2>2, <2>3, Sizes DEF KeyRoom
<1> HIDE DEF half
<1>1. ASSUME Cardinality(TableKeys') + Cardinality(Newcomers')
                <= Cardinality(TableKeys) + Cardinality(Newcomers)
      PROVE  Cardinality(TableKeys') + Cardinality(Newcomers') <= half - 1 + Cardinality(Limiters)
  BY <1>0, <1>1
<1>2. ASSUME NEW l \in Limiters, tx[l] # None, tx[l].key \notin TableKeys
      PROVE  tx[l].dropped \cap Live = {}
  <2> SUFFICES ASSUME NEW r \in Live, r \in tx[l].dropped PROVE FALSE
    OBVIOUS
  <2>1. r.key = tx[l].key
    BY <1>2, StaleIsDead DEF Live
  <2> QED BY <1>2, <2>1 DEF TableKeys
<1>3. ASSUME NEW l \in Limiters, Ends(l), Admit(l)
      PROVE  Cardinality(TableKeys') + Cardinality(Newcomers')
                <= Cardinality(TableKeys) + Cardinality(Newcomers)
  <2>0. /\ tx[l] # None /\ Past(l) /\ ~Past(l)'
        /\ Live' \subseteq (Live \ tx[l].dropped) \cup {NewRow(l)}
        /\ Live \ tx[l].dropped \subseteq Live'
        /\ NewRow(l).key = tx[l].key
    BY <1>3, LiveAdmits DEF NewRow
  <2>1. \A m \in Limiters : ~(Moves(m) /\ Count(m))
    <3> SUFFICES ASSUME NEW m \in Limiters, Moves(m), Count(m) PROVE FALSE
      OBVIOUS
    <3>1. tx'[l] = None /\ tx[l].step = "admit"
      BY <1>3 DEF Ends, Admit, At, Base, TypeOK
    <3>2. CASE m = l
      BY <3>1, <3>2 DEF Count, At
    <3>3. CASE m # l
      BY <2>0, <3>1, <3>3 DEF Moves, Base, TypeOK
    <3> QED BY <3>2, <3>3
  <2>2. CASE tx[l].key \in TableKeys
    <3>1. TableKeys' \subseteq TableKeys
      BY <2>0, <2>2 DEF TableKeys
    <3> QED BY <2>1, <3>1, KeyRoomIsTraded
  <2>3. CASE tx[l].key \notin TableKeys
    <3>1. Live \subseteq Live'
      BY <1>2, <2>0, <2>3
    <3>2. TableKeys \subseteq TableKeys' /\ TableKeys' \subseteq TableKeys \cup {tx[l].key}
      BY <2>0, <3>1 DEF TableKeys
    <3>3. ~tx[l].pressed
      <4> SUFFICES ASSUME tx[l].pressed PROVE FALSE
        OBVIOUS
      <4>1. PICK r \in Mine(l) : r.at >= tx[l].stamp - Window
        BY <1>3 DEF Known, Admit
      <4>2. r \in rows /\ r.key = tx[l].key
        BY <4>1 DEF Mine, Seen
      <4>3. r.at >= clock - Retention
        BY <2>0, <4>1, <4>2, FreshIsLive
      <4> QED BY <2>3, <4>2, <4>3 DEF Live, TableKeys
    <3>4. l \in Newcomers
      BY <2>0, <2>3, <3>3 DEF Newcomers
    <3>5. Newcomers' \subseteq Newcomers \ {l}
      <4> SUFFICES ASSUME NEW m \in Newcomers' PROVE m \in Newcomers /\ m # l
        OBVIOUS
      <4>1. m \in Limiters /\ Past(m)' /\ ~tx'[m].pressed /\ tx'[m].key \notin TableKeys'
        BY DEF Newcomers
      <4>2. /\ Past(m) /\ tx'[m].pressed = tx[m].pressed /\ tx'[m].key = tx[m].key
        BY <2>1, <4>1, WhoIsPast
      <4> QED BY <2>0, <3>2, <4>1, <4>2 DEF Newcomers
    <3> QED BY <1>0, <3>2, <3>4, <3>5, Settled
  <2> QED BY <2>2, <2>3
<1>4. ASSUME NEW l \in Limiters, Moves(l), Count(l), l \in Newcomers', l \notin Newcomers
      PROVE  Cardinality(TableKeys') + Cardinality(Newcomers') <= half - 1 + Cardinality(Limiters)
  <2> DEFINE C == {r \in Seen(l) : r.at >= tx[l].stamp - Retention}
  <2>1. /\ tx[l] # None /\ rows' = rows /\ clock' = clock
        /\ tx'[l].dropped = tx[l].dropped /\ tx'[l].key = tx[l].key
    BY <1>4, Leads DEF Moves, Base
  <2>2. Live' = Live /\ TableKeys' = TableKeys
    BY <2>1 DEF Live, TableKeys
  <2>3. tx[l].dropped \cap Live = {}
    BY <1>2, <1>4, <2>1, <2>2 DEF Newcomers
  <2>4. Live \subseteq C
    <3>1. /\ clock \in Nat /\ tx[l].stamp \in Nat /\ tx[l].stamp <= clock /\ Retention \in Nat
          /\ \A r \in rows : r.at \in Nat
      BY <2>1, LimiterAssumption DEF Base, Ages, TypeOK, Transaction, Times, Row
    <3> QED BY <2>3, <3>1 DEF Live, Seen
  <2>5. IsFiniteSet(C)
    BY FS_Subset DEF Small, Seen
  <2>6. Cardinality(C) < half
    <3>1. ~tx'[l].pressed /\ LiveTotal(l) = Cardinality(C)
      BY <1>4 DEF Newcomers, LiveTotal
    <3>2. Cardinality(C) \in Nat
      BY <2>5, FS_CardinalityType
    <3>3. tx'[l].pressed = (MaxRows > 0 /\ LiveTotal(l) >= half)
      BY <1>4, <2>1, Deletes DEF Base, half
    <3>4. MaxRows > 0
      BY LimiterAssumption
    <3> HIDE DEF C
    <3>5. ~(LiveTotal(l) >= half)
      BY <3>1, <3>3, <3>4
    <3> QED BY <1>0, <3>1, <3>2, <3>5
  <2> HIDE DEF C
  <2>7. Cardinality(Live) <= Cardinality(C) /\ Cardinality(C) \in Nat
    BY <2>4, <2>5, FS_Subset, FS_CardinalityType
  <2>8. Cardinality(TableKeys') = Cardinality(TableKeys)
    BY <2>2
  <2>9. Cardinality(TableKeys) <= Cardinality(Live) /\ Cardinality(Live) \in Nat
    BY Sizes
  <2> QED BY <1>0, <2>6, <2>7, <2>8, <2>9
<1>5. ASSUME ~\E l \in Limiters : Ends(l) /\ Admit(l),
             \A m \in Limiters : Moves(m) /\ Count(m) => m \in Newcomers \/ m \notin Newcomers'
      PROVE  Cardinality(TableKeys') + Cardinality(Newcomers')
                <= Cardinality(TableKeys) + Cardinality(Newcomers)
  <2>1. TableKeys' \subseteq TableKeys
    BY <1>5, LiveAfter DEF TableKeys
  <2> QED BY <1>5, <2>1, KeyRoomIsTraded
<1> QED BY <1>1, <1>3, <1>4, <1>5 DEF half

\* What the two bounds rest on.
Capped == DropsApart /\ OwnOrStale /\ Known /\ Room /\ KeyRoom

\* The table's cap holds but for the limiters that pass the check together, and new
\* keys take at most half of it, again but for them, whatever the limiters, keys,
\* cap, sweeps and delay.
THEOREM CapacityStaysBounded == Spec => []CapacityIsBounded
<1>1. Init => Capped
  <2> SUFFICES ASSUME Init PROVE Capped
    OBVIOUS
  <2>1. \A l \in Limiters : tx[l] = None
    BY DEF Init
  <2>2. Live = {} /\ TableKeys = {} /\ Fillers = {} /\ Newcomers = {}
    BY <2>1 DEF Init, Live, TableKeys, Fillers, Newcomers, Past, At
  <2>3. DropsApart /\ OwnOrStale /\ Known
    BY <2>1 DEF DropsApart, OwnOrStale, Known, At
  <2>4. Cardinality(Limiters) \in Nat /\ MaxRows \in Nat
    BY LimiterAssumption, FS_CardinalityType
  <2>5. Room
    BY <2>2, <2>4, FS_EmptySet DEF Room
  <2>6. KeyRoom
    BY <2>2, <2>4, FS_EmptySet DEF KeyRoom
  <2> QED BY <2>3, <2>5, <2>6 DEF Capped
<1>2. ASSUME IInv, Capped, [Next]_vars PROVE Capped'
  <2>0. Base /\ Small /\ Pruned /\ DropsApart /\ OwnOrStale /\ Known /\ Room /\ KeyRoom
    BY <1>2 DEF IInv, Capped
  <2>1. Small'
    BY <1>2, <2>0, SmallStep
  <2>2. DropsApart' /\ OwnOrStale' /\ Known'
    BY <1>2, <2>0, DropsApartStep, OwnOrStaleStep, KnownStep
  <2>3. Room'
    BY <1>2, <2>0, <2>1, RoomStep DEF Room
  <2>4. KeyRoom'
    BY <1>2, <2>0, <2>1, KeyRoomStep DEF KeyRoom
  <2> QED BY <2>2, <2>3, <2>4 DEF Capped
<1>3. IInv /\ Capped => CapacityIsBounded
  <2> SUFFICES ASSUME IInv, Capped PROVE CapacityIsBounded
    OBVIOUS
  <2>1. /\ Cardinality(Live) \in Nat /\ Cardinality(Fillers) \in Nat
        /\ Cardinality(TableKeys) \in Nat /\ Cardinality(Newcomers) \in Nat
        /\ Cardinality(Limiters) \in Nat /\ MaxRows \in Nat /\ MaxRows \div 2 \in Nat
    BY Sizes, LimiterAssumption DEF IInv
  <2>2. MaxRows > 0 => Cardinality(Live) <= MaxRows - 1 + Cardinality(Limiters)
    BY <2>1 DEF Capped, Room
  <2>3. MaxRows > 1 => Cardinality(TableKeys) <= MaxRows \div 2 - 1 + Cardinality(Limiters)
    BY <2>1 DEF Capped, KeyRoom
  <2> QED BY <2>2, <2>3 DEF CapacityIsBounded, TableKeys
<1> QED BY <1>1, <1>2, <1>3, Invariance, PTL DEF Spec

-----------------------------------------------------------------------------
(* API keys. *)

KeysOf(org) == {i \in Registered : creds[i].org = org}
Rotates(c) == call[c].step \in {"replace", "insert"}
Registers(c) == call[c].step = "register"

CredTypes ==
    /\ durable \in BOOLEAN
    /\ orgs \in Nat
    /\ creds \in [Ids -> {Unused} \cup [is : {"credential"}, org : Nat, active : BOOLEAN]]
    /\ call \in [Callers -> {Quiet} \cup [step : {"register"}, org : Nat]
                    \cup [step : {"replace", "insert"}, old : Ids, new : Ids, org : Nat]]

\* An organization whose bootstrap has not come to its second commit, or never
\* will, has no key at all; and it is one bootstrap's.
NoKeyYet(c) ==
    /\ call[c].org \in (1 .. orgs) \ cut
    /\ KeysOf(call[c].org) = {}
    /\ \A d \in Callers : Registers(d) /\ call[d].org = call[c].org => d = c
Vacant ==
    /\ \A i \in Registered : creds[i].org \in (1 .. orgs) \ cut
    /\ \A c \in Callers : Registers(c) => NoKeyYet(c)
    /\ cut \subseteq 1 .. orgs

\* A rotation holds a key of its organization and an id nobody else has; in the
\* durable store the key is live, and locked.
Held ==
    \A c \in Callers : Rotates(c) =>
        /\ call[c].old \in KeysOf(call[c].org)
        /\ call[c].new \notin Registered
        /\ \A d \in Callers : Rotates(d) /\ call[d].new = call[c].new => d = c
        /\ durable => /\ call[c].step = "replace"
                      /\ creds[call[c].old].active
                      /\ \A d \in Callers : Rotates(d) /\ call[d].old = call[c].old => d = c

Served(org) ==
    IF durable THEN \E i \in Ids : LiveKeys(org) = {i}
    ELSE Rotating(org) \/ LiveKeys(org) # {}

AllServed == \A org \in 1 .. orgs : org \in cut \/ Waiting(org) \/ Served(org)

CredInv == CredTypes /\ Vacant /\ Held /\ AllServed

USE DEF NoKeyYet, KeysOf, Rotates, Registers, Registered, LiveKeys, Waiting, Rotating

LEMMA CredInvInit == CredInit => CredInv
BY DEF CredInit, CredInv, CredTypes, Vacant, Held, AllServed, Unused, Quiet

LEMMA CreateKeeps ==
    ASSUME CredInv, NEW c \in Callers, CreateOrganization(c)
    PROVE  CredInv'
<1> DEFINE r == [step |-> "register", org |-> orgs + 1]
<1>1. /\ orgs' = orgs + 1 /\ orgs \in Nat
      /\ UNCHANGED << durable, creds, cut >>
      /\ call' = [call EXCEPT ![c] = r]
      /\ call[c].step = "none"
  BY DEF CreateOrganization, CredInv, CredTypes, Quiet
<1>2. /\ call'[c] = r
      /\ \A d \in Callers : d # c => call'[d] = call[d]
  BY <1>1 DEF CredInv, CredTypes
<1>3. r.step = "register" /\ r.org = orgs + 1
  OBVIOUS
<1>4. CredTypes'
  BY <1>1 DEF CredInv, CredTypes
<1> HIDE DEF r
<1>5. Vacant'
  BY <1>1, <1>2, <1>3 DEF CredInv, Vacant
<1>6. Held'
  BY <1>1, <1>2, <1>3 DEF CredInv, Held
<1>7. AllServed'
  BY <1>1, <1>2, <1>3 DEF CredInv, AllServed, Served
<1> QED
  BY <1>4, <1>5, <1>6, <1>7 DEF CredInv

LEMMA RegisterKeeps ==
    ASSUME CredInv, NEW c \in Callers, RegisterKey(c)
    PROVE  CredInv'
<1>1. PICK i \in Fresh : creds' = [creds EXCEPT ![i] = Credential(call[c].org, TRUE)]
  BY DEF RegisterKey
<1>2. i \in Ids \ (Registered \cup Pending)
  BY DEF Fresh
<1>0. PICK o \in Nat : o = call[c].org
  BY DEF RegisterKey, CredInv, CredTypes, Quiet
<1> DEFINE k == Credential(o, TRUE)
<1>3. /\ call[c].step = "register" /\ o = call[c].org
      /\ UNCHANGED << durable, orgs, cut >>
      /\ call' = [call EXCEPT ![c] = Quiet]
      /\ c \in Callers
  BY <1>0 DEF RegisterKey
<1>4. /\ call'[c] = Quiet
      /\ \A d \in Callers : d # c => call'[d] = call[d]
      /\ creds'[i] = k
      /\ \A j \in Ids : j # i => creds'[j] = creds[j]
  BY <1>1, <1>2, <1>3 DEF CredInv, CredTypes
<1>5. k # Unused /\ k.org = o /\ k.active = TRUE /\ Quiet.step = "none"
  BY DEF Credential, Unused, Quiet
<1>6. CredTypes'
  BY <1>0, <1>1, <1>2, <1>3 DEF CredInv, CredTypes, Credential
<1>7. Registered' = Registered \cup {i} /\ i \notin Registered
  BY <1>2, <1>4, <1>5
<1> HIDE DEF k
<1>8. Vacant'
  <2>1. \A j \in Registered' : creds'[j].org \in (1 .. orgs) \ cut
    BY <1>3, <1>4, <1>5, <1>7 DEF CredInv, Vacant
  <2>2. \A d \in Callers : Registers(d)' =>
          d # c /\ Registers(d) /\ call'[d] = call[d] /\ call[d].org # o
    BY <1>3, <1>4, <1>5 DEF CredInv, Vacant
  <2>3. \A d \in Callers : Registers(d)' => KeysOf(call[d].org)' = {}
    BY <1>4, <1>5, <1>7, <2>2 DEF CredInv, Vacant
  <2> QED
    BY <1>3, <2>1, <2>2, <2>3 DEF CredInv, Vacant
<1>9. Held'
  <2>1. \A d \in Callers : Rotates(d)' =>
          d # c /\ Rotates(d) /\ call'[d] = call[d] /\ call[d].new # i
    BY <1>2, <1>4, <1>5 DEF Pending
  <2> QED
    BY <1>3, <1>4, <1>7, <2>1 DEF CredInv, Held
<1>10. AllServed'
  <2>1. ASSUME NEW g \in 1 .. orgs, g # o  PROVE (g \in cut \/ Waiting(g) \/ Served(g))'
    <3>1. LiveKeys(g)' = LiveKeys(g)
      BY <1>4, <1>5, <1>7, <2>1
    <3>2. Waiting(g) => Waiting(g)'
      BY <1>3, <1>4, <2>1
    <3>3. Rotating(g) => Rotating(g)'
      BY <1>3, <1>4, <2>1
    <3> QED
      BY <1>3, <3>1, <3>2, <3>3 DEF CredInv, AllServed, Served
  <2>2. LiveKeys(o)' = {i}
    BY <1>3, <1>4, <1>5, <1>7 DEF CredInv, Vacant
  <2>3. Served(o)'
    BY <1>2, <2>2 DEF Served
  <2> QED
    BY <1>3, <2>1, <2>3 DEF AllServed
<1> QED
  BY <1>6, <1>8, <1>9, <1>10 DEF CredInv

LEMMA CutBootstrapKeeps ==
    ASSUME CredInv, NEW c \in Callers, CutBootstrap(c)
    PROVE  CredInv'
<1>1. /\ call[c].step = "register"
      /\ cut' = cut \cup {call[c].org}
      /\ call' = [call EXCEPT ![c] = Quiet]
      /\ UNCHANGED << durable, orgs, creds >>
  BY DEF CutBootstrap
<1>2. /\ call'[c] = Quiet /\ Quiet.step = "none"
      /\ \A d \in Callers : d # c => call'[d] = call[d]
  BY <1>1 DEF CredInv, CredTypes, Quiet
<1>3. CredTypes'
  BY <1>1 DEF CredInv, CredTypes
<1>4. Vacant'
  <2>1. \A d \in Callers : Registers(d)' =>
          /\ d # c /\ Registers(d) /\ call'[d] = call[d]
          /\ call[d].org # call[c].org
    BY <1>1, <1>2 DEF CredInv, Vacant
  <2>2. \A i \in Registered : creds[i].org # call[c].org
    BY <1>1 DEF CredInv, Vacant
  <2>3. call[c].org \in 1 .. orgs
    BY <1>1 DEF CredInv, Vacant
  <2>4. ASSUME NEW d \in Callers, Registers(d)'  PROVE NoKeyYet(d)'
    BY <1>1, <1>2, <2>1, <2>4 DEF CredInv, Vacant
  <2>5. \A i \in Registered' : creds'[i].org \in (1 .. orgs') \ cut'
    BY <1>1, <2>2 DEF CredInv, Vacant
  <2>6. cut' \subseteq 1 .. orgs'
    BY <1>1, <2>3 DEF CredInv, Vacant
  <2> QED
    BY <2>4, <2>5, <2>6 DEF Vacant
<1>5. Held'
  BY <1>1, <1>2 DEF CredInv, Held
<1>6. AllServed'
  <2>1. ASSUME NEW g \in 1 .. orgs, g # call[c].org
        PROVE  (g \in cut \/ Waiting(g) \/ Served(g))'
    <3>1. Waiting(g) => Waiting(g)'
      BY <1>1, <1>2, <2>1
    <3>2. Rotating(g) => Rotating(g)'
      BY <1>1, <1>2
    <3>3. LiveKeys(g)' = LiveKeys(g)
      BY <1>1
    <3> QED
      BY <1>1, <3>1, <3>2, <3>3 DEF CredInv, AllServed, Served
  <2> QED
    BY <1>1, <2>1 DEF AllServed
<1> QED
  BY <1>3, <1>4, <1>5, <1>6 DEF CredInv

LEMMA StartKeeps ==
    ASSUME CredInv, NEW c \in Callers, NEW i \in Ids, StartRotation(c, i)
    PROVE  CredInv'
<1>1. PICK new \in Fresh :
        call' = [call EXCEPT ![c] = [step |-> "replace", old |-> i, new |-> new,
                                     org |-> creds[i].org]]
  BY DEF StartRotation
<1> DEFINE r == [step |-> "replace", old |-> i, new |-> new, org |-> creds[i].org]
<1>2. /\ new \in Ids \ (Registered \cup Pending)
      /\ call[c] = Quiet /\ Quiet.step = "none" /\ i \in Registered
      /\ UNCHANGED << durable, orgs, creds, cut >>
      /\ durable => creds[i].active /\ RowFree(i)
  BY DEF Fresh, StartRotation, Selects, Quiet
<1>3. /\ call'[c] = r
      /\ \A d \in Callers : d # c => call'[d] = call[d]
  BY <1>1 DEF CredInv, CredTypes
<1>4. r.step = "replace" /\ r.old = i /\ r.new = new /\ r.org = creds[i].org
  OBVIOUS
<1>5. creds[i].org \in Nat
  BY <1>2 DEF CredInv, CredTypes
<1>6. CredTypes'
  BY <1>1, <1>2, <1>5 DEF CredInv, CredTypes
<1> HIDE DEF r
<1>7. Vacant'
  BY <1>2, <1>3, <1>4 DEF CredInv, Vacant
<1>8. Held'
  <2>1. i \in KeysOf(creds[i].org)
    BY <1>2
  <2>2. \A d \in Callers : d # c /\ Rotates(d) => call[d].new # new
    BY <1>2 DEF Pending
  <2>3. durable => \A d \in Callers : d # c /\ Rotates(d) => call[d].old # i
    BY <1>2 DEF RowFree, CredInv, Held
  <2> QED
    BY <1>2, <1>3, <1>4, <2>1, <2>2, <2>3 DEF CredInv, Held
<1>9. AllServed'
  <2>1. \A g \in 1 .. orgs : (Waiting(g) => Waiting(g)') /\ (Rotating(g) => Rotating(g)')
    BY <1>2, <1>3
  <2> QED
    BY <1>2, <2>1 DEF CredInv, AllServed, Served
<1> QED
  BY <1>6, <1>7, <1>8, <1>9 DEF CredInv

LEMMA ReplaceKeeps ==
    ASSUME CredInv, NEW c \in Callers, Replace(c)
    PROVE  CredInv'
<1>0. PICK old \in Ids, new \in Ids, o \in Nat :
        old = call[c].old /\ new = call[c].new /\ o = call[c].org
  BY DEF Replace, CredInv, CredTypes, Quiet
<1> DEFINE k == Credential(o, TRUE)
<1>1. /\ durable /\ call[c].step = "replace"
      /\ creds' = [creds EXCEPT ![old].active = FALSE, ![new] = k]
      /\ call' = [call EXCEPT ![c] = Quiet]
      /\ UNCHANGED << durable, orgs, cut >>
  BY <1>0 DEF Replace
<1>2. /\ old \in Registered /\ creds[old].org = o /\ creds[old].active
      /\ new \notin Registered
      /\ \A d \in Callers : Rotates(d) /\ call[d].new = new => d = c
      /\ \A d \in Callers : Rotates(d) /\ call[d].old = old => d = c
  BY <1>0, <1>1 DEF CredInv, Held
<1>3. old \in Ids /\ new \in Ids /\ o \in Nat /\ old # new
  BY <1>0, <1>2 DEF CredInv, CredTypes, Quiet
<1>4. /\ call'[c] = Quiet /\ Quiet.step = "none"
      /\ \A d \in Callers : d # c => call'[d] = call[d]
      /\ creds'[new] = k
      /\ creds'[old] = [creds[old] EXCEPT !.active = FALSE]
      /\ \A j \in Ids : j # old /\ j # new => creds'[j] = creds[j]
  BY <1>1, <1>3 DEF CredInv, CredTypes, Quiet
<1>5. k # Unused /\ k.org = o /\ k.active = TRUE
  BY DEF Credential, Unused
<1>6. creds[old] \in [is : {"credential"}, org : Nat, active : BOOLEAN]
  BY <1>2 DEF CredInv, CredTypes
<1>7. /\ creds'[old] # Unused /\ creds'[old].org = o /\ ~creds'[old].active
      /\ creds'[old] \in [is : {"credential"}, org : Nat, active : BOOLEAN]
  BY <1>2, <1>4, <1>6 DEF Unused
<1>8. CredTypes'
  <2>1. k \in [is : {"credential"}, org : Nat, active : BOOLEAN]
    BY <1>3 DEF Credential
  <2>2. DOMAIN creds' = Ids /\ \A j \in Ids : creds'[j] \in
            {Unused} \cup [is : {"credential"}, org : Nat, active : BOOLEAN]
    BY <1>1, <1>4, <1>7, <2>1 DEF CredInv, CredTypes
  <2>3. creds' = [j \in Ids |-> creds'[j]]
    BY <1>1 DEF CredInv, CredTypes
  <2>4. creds' \in [Ids -> {Unused} \cup [is : {"credential"}, org : Nat, active : BOOLEAN]]
    BY <2>2, <2>3
  <2> QED
    BY <1>1, <2>4 DEF CredInv, CredTypes
<1> HIDE DEF k
<1>9. Registered' = Registered \cup {new}
  BY <1>2, <1>3, <1>4, <1>5, <1>7
<1>10. \A j \in Registered : creds'[j].org = creds[j].org
  BY <1>2, <1>4, <1>7
<1>11. Vacant'
  <2>1. o \in (1 .. orgs) \ cut /\ \A d \in Callers : Registers(d) => call[d].org # o
    BY <1>2 DEF CredInv, Vacant
  <2>2. \A j \in Registered' : creds'[j].org \in (1 .. orgs) \ cut
    BY <1>4, <1>5, <1>9, <1>10, <2>1 DEF CredInv, Vacant
  <2>3. \A d \in Callers : Registers(d)' => Registers(d) /\ call'[d] = call[d]
    BY <1>4
  <2>4. \A g : g # o => KeysOf(g)' = KeysOf(g)
    BY <1>4, <1>5, <1>9, <1>10
  <2>5. ASSUME NEW d \in Callers, Registers(d)'  PROVE NoKeyYet(d)'
    <3>1. Registers(d) /\ call'[d] = call[d] /\ call[d].org # o /\ NoKeyYet(d)
      BY <2>1, <2>3, <2>5 DEF CredInv, Vacant
    <3>2. KeysOf(call[d].org)' = {}
      <4>1. PICK g : g = call[d].org
        OBVIOUS
      <4>2. KeysOf(g)' = KeysOf(g)
        BY <2>4, <3>1, <4>1
      <4> QED
        BY <3>1, <4>1, <4>2
    <3>3. \A e \in Callers : Registers(e)' /\ call'[e].org = call'[d].org => e = d
      BY <2>3, <3>1
    <3> HIDE DEF KeysOf
    <3> QED
      BY <1>1, <3>1, <3>2, <3>3
  <2> QED
    BY <1>1, <2>2, <2>5 DEF CredInv, Vacant
<1>12. Held'
  <2>1. \A d \in Callers : Rotates(d)' =>
          /\ d # c /\ Rotates(d) /\ call'[d] = call[d]
          /\ call[d].new # new /\ call[d].old # old
    BY <1>2, <1>4
  <2>2. \A d \in Callers : Rotates(d) /\ d # c => creds'[call[d].old] = creds[call[d].old]
    BY <1>2, <1>4 DEF CredInv, Held
  <2>3. \A d \in Callers : Rotates(d) => call[d].old \in Registered
    BY DEF CredInv, Held
  <2> SUFFICES ASSUME NEW d \in Callers, Rotates(d)'
        PROVE  /\ call'[d].old \in KeysOf(call[d].org)'
               /\ call'[d].new \notin Registered'
               /\ \A e \in Callers : Rotates(e)' /\ call'[e].new = call'[d].new => e = d
               /\ /\ call'[d].step = "replace"
                  /\ creds'[call'[d].old].active
                  /\ \A e \in Callers : Rotates(e)' /\ call'[e].old = call'[d].old => e = d
    BY <1>1 DEF Held
  <2>4. call'[d] = call[d] /\ Rotates(d) /\ d # c /\ call[d].new # new /\ call[d].old # old
    BY <2>1
  <2>5. /\ call[d].old \in KeysOf(call[d].org)
        /\ call[d].new \notin Registered
        /\ call[d].step = "replace" /\ creds[call[d].old].active
    BY <1>1, <2>4 DEF CredInv, Held
  <2>6. \A e \in Callers : Rotates(e)' /\ call'[e].new = call'[d].new => e = d
    BY <2>1, <2>4 DEF CredInv, Held
  <2>7. \A e \in Callers : Rotates(e)' /\ call'[e].old = call'[d].old => e = d
    BY <1>1, <2>1, <2>4 DEF CredInv, Held
  <2>8. call[d].old \in Registered' /\ creds'[call[d].old].org = call[d].org
    BY <1>9, <1>10, <2>5
  <2>9. creds'[call[d].old] = creds[call[d].old]
    BY <2>2, <2>4
  <2> QED
    BY <1>9, <2>4, <2>5, <2>6, <2>7, <2>8, <2>9
<1>13. AllServed'
  <2>1. ASSUME NEW g \in 1 .. orgs, g # o  PROVE (g \in cut \/ Waiting(g) \/ Served(g))'
    <3>1. LiveKeys(g)' = LiveKeys(g)
      BY <1>2, <1>4, <1>5, <1>7, <1>9, <2>1
    <3>2. Waiting(g) => Waiting(g)'
      BY <1>1, <1>4
    <3> QED
      BY <1>1, <3>1, <3>2 DEF CredInv, AllServed, Served
  <2>2. ~Waiting(o) /\ o \notin cut /\ o \in 1 .. orgs
    BY <1>2 DEF CredInv, Vacant
  <2>3. PICK x \in Ids : LiveKeys(o) = {x}
    BY <1>1, <2>2 DEF CredInv, AllServed, Served
  <2>4. x = old
    BY <1>2, <2>3
  <2>5. LiveKeys(o)' = {new}
    BY <1>4, <1>5, <1>7, <1>9, <2>3, <2>4
  <2>6. Served(o)'
    BY <1>1, <1>3, <2>5 DEF Served
  <2> QED
    BY <1>1, <2>1, <2>6 DEF AllServed
<1> QED
  BY <1>8, <1>11, <1>12, <1>13 DEF CredInv

LEMMA CutRotationKeeps ==
    ASSUME CredInv, NEW c \in Callers, CutRotation(c)
    PROVE  CredInv'
<1>1. /\ durable /\ call[c].step = "replace"
      /\ call' = [call EXCEPT ![c] = Quiet]
      /\ UNCHANGED << durable, orgs, creds, cut >>
  BY DEF CutRotation
<1>2. /\ call'[c] = Quiet /\ Quiet.step = "none"
      /\ \A d \in Callers : d # c => call'[d] = call[d]
  BY <1>1 DEF CredInv, CredTypes, Quiet
<1>3. CredTypes'
  BY <1>1 DEF CredInv, CredTypes
<1>4. Vacant'
  BY <1>1, <1>2 DEF CredInv, Vacant
<1>5. Held'
  BY <1>1, <1>2 DEF CredInv, Held
<1>6. AllServed'
  <2>1. \A g \in 1 .. orgs : Waiting(g) => Waiting(g)'
    BY <1>1, <1>2
  <2> QED
    BY <1>1, <2>1 DEF CredInv, AllServed, Served
<1> QED
  BY <1>3, <1>4, <1>5, <1>6 DEF CredInv

LEMMA DeactivateKeeps ==
    ASSUME CredInv, NEW c \in Callers, Deactivate(c)
    PROVE  CredInv'
<1>0. PICK old \in Ids, o \in Nat : old = call[c].old /\ o = call[c].org
  BY DEF Deactivate, CredInv, CredTypes, Quiet
<1>1. /\ ~durable /\ call[c].step = "replace"
      /\ creds' = [creds EXCEPT ![old].active = FALSE]
      /\ call' = [call EXCEPT ![c].step = "insert"]
      /\ UNCHANGED << durable, orgs, cut >>
  BY <1>0 DEF Deactivate
<1>2. old \in Registered /\ creds[old].org = o /\ old \in Ids
  BY <1>0, <1>1 DEF CredInv, Held
<1>3. call[c] \in [step : {"replace", "insert"}, old : Ids, new : Ids, org : Nat]
  BY <1>1 DEF CredInv, CredTypes, Quiet
<1>4. /\ call'[c] = [call[c] EXCEPT !.step = "insert"]
      /\ \A d \in Callers : d # c => call'[d] = call[d]
      /\ creds'[old] = [creds[old] EXCEPT !.active = FALSE]
      /\ \A j \in Ids : j # old => creds'[j] = creds[j]
  BY <1>1, <1>2 DEF CredInv, CredTypes
<1>5. /\ call'[c].step = "insert" /\ call'[c].old = old /\ call'[c].new = call[c].new
      /\ call'[c].org = o
      /\ call'[c] \in [step : {"replace", "insert"}, old : Ids, new : Ids, org : Nat]
  BY <1>0, <1>3, <1>4
<1>6. creds[old] \in [is : {"credential"}, org : Nat, active : BOOLEAN]
  BY <1>2 DEF CredInv, CredTypes
<1>7. /\ creds'[old] # Unused /\ creds'[old].org = o
      /\ creds'[old] \in [is : {"credential"}, org : Nat, active : BOOLEAN]
  BY <1>2, <1>4, <1>6 DEF Unused
<1>8. CredTypes'
  <2>1. creds' \in [Ids -> {Unused} \cup [is : {"credential"}, org : Nat, active : BOOLEAN]]
    BY <1>1, <1>2, <1>4, <1>7 DEF CredInv, CredTypes
  <2>2. call' \in [Callers -> {Quiet} \cup [step : {"register"}, org : Nat]
                    \cup [step : {"replace", "insert"}, old : Ids, new : Ids, org : Nat]]
    BY <1>1, <1>4, <1>5 DEF CredInv, CredTypes
  <2> QED
    BY <1>1, <2>1, <2>2 DEF CredInv, CredTypes
<1>9. Registered' = Registered /\ \A j \in Registered : creds'[j].org = creds[j].org
  BY <1>2, <1>4, <1>7
<1>10. /\ \A d \in Callers : Registers(d)' <=> Registers(d)
       /\ \A d \in Callers : Rotates(d)' <=> Rotates(d)
       /\ \A d \in Callers : Registers(d) => call'[d].org = call[d].org
       /\ \A d \in Callers : Rotates(d) =>
              /\ call'[d].org = call[d].org
              /\ call'[d].old = call[d].old /\ call'[d].new = call[d].new
  BY <1>1, <1>4, <1>5
<1>11. \A g : KeysOf(g)' = KeysOf(g)
  BY <1>9
<1>12. Vacant'
  BY <1>1, <1>9, <1>10, <1>11 DEF CredInv, Vacant
<1>13. Held'
  BY <1>1, <1>9, <1>10, <1>11 DEF CredInv, Held
<1>14. AllServed'
  <2>1. ASSUME NEW g \in 1 .. orgs, g # o  PROVE (g \in cut \/ Waiting(g) \/ Served(g))'
    <3>1. LiveKeys(g)' = LiveKeys(g)
      BY <1>2, <1>4, <1>7, <1>9, <2>1
    <3>2. Waiting(g) => Waiting(g)'
      BY <1>10
    <3>3. Rotating(g) => Rotating(g)'
      BY <1>10
    <3> QED
      BY <1>1, <3>1, <3>2, <3>3 DEF CredInv, AllServed, Served
  <2>2. Rotating(o)'
    BY <1>5
  <2> QED
    BY <1>1, <2>1, <2>2 DEF AllServed, Served
<1> QED
  BY <1>8, <1>12, <1>13, <1>14 DEF CredInv

LEMMA InsertKeeps ==
    ASSUME CredInv, NEW c \in Callers, Insert(c)
    PROVE  CredInv'
<1>0. PICK new \in Ids, o \in Nat : new = call[c].new /\ o = call[c].org
  BY DEF Insert, CredInv, CredTypes, Quiet
<1> DEFINE k == Credential(o, TRUE)
<1>1. /\ call[c].step = "insert"
      /\ creds' = [creds EXCEPT ![new] = k]
      /\ call' = [call EXCEPT ![c] = Quiet]
      /\ UNCHANGED << durable, orgs, cut >>
  BY <1>0 DEF Insert
<1>2. /\ ~durable /\ new \notin Registered
      /\ call[c].old \in KeysOf(o)
      /\ \A d \in Callers : Rotates(d) /\ call[d].new = new => d = c
  BY <1>0, <1>1 DEF CredInv, Held
<1>3. new \in Ids /\ o \in Nat
  BY <1>0
<1>4. /\ call'[c] = Quiet /\ Quiet.step = "none"
      /\ \A d \in Callers : d # c => call'[d] = call[d]
      /\ creds'[new] = k
      /\ \A j \in Ids : j # new => creds'[j] = creds[j]
  BY <1>1, <1>3 DEF CredInv, CredTypes, Quiet
<1>5. k # Unused /\ k.org = o /\ k.active = TRUE
  BY DEF Credential, Unused
<1>6. CredTypes'
  BY <1>1, <1>3 DEF CredInv, CredTypes, Credential
<1> HIDE DEF k
<1>7. Registered' = Registered \cup {new}
  BY <1>2, <1>3, <1>4, <1>5
<1>8. o \in (1 .. orgs) \ cut /\ \A d \in Callers : Registers(d) => call[d].org # o
  BY <1>2 DEF CredInv, Vacant
<1>9. Vacant'
  <2>1. \A j \in Registered' : creds'[j].org \in (1 .. orgs) \ cut
    BY <1>2, <1>4, <1>5, <1>7, <1>8 DEF CredInv, Vacant
  <2>2. \A d \in Callers : Registers(d)' => Registers(d) /\ call'[d] = call[d]
    BY <1>4
  <2>3. \A g : g # o => KeysOf(g)' = KeysOf(g)
    BY <1>2, <1>4, <1>5, <1>7
  <2>4. ASSUME NEW d \in Callers, Registers(d)'  PROVE NoKeyYet(d)'
    <3>1. Registers(d) /\ call'[d] = call[d] /\ call[d].org # o /\ NoKeyYet(d)
      BY <1>8, <2>2, <2>4 DEF CredInv, Vacant
    <3>2. KeysOf(call[d].org)' = {}
      <4>1. PICK g : g = call[d].org
        OBVIOUS
      <4>2. KeysOf(g)' = KeysOf(g)
        BY <2>3, <3>1, <4>1
      <4> QED
        BY <3>1, <4>1, <4>2
    <3>3. \A e \in Callers : Registers(e)' /\ call'[e].org = call'[d].org => e = d
      BY <2>2, <3>1
    <3> HIDE DEF KeysOf
    <3> QED
      BY <1>1, <3>1, <3>2, <3>3
  <2> QED
    BY <1>1, <2>1, <2>4 DEF CredInv, Vacant
<1>10. Held'
  <2>1. \A d \in Callers : Rotates(d)' =>
          d # c /\ Rotates(d) /\ call'[d] = call[d] /\ call[d].new # new
    BY <1>2, <1>4
  <2> QED
    BY <1>1, <1>2, <1>4, <1>7, <2>1 DEF CredInv, Held
<1>11. AllServed'
  <2>1. ASSUME NEW g \in 1 .. orgs, g # o  PROVE (g \in cut \/ Waiting(g) \/ Served(g))'
    <3>1. LiveKeys(g)' = LiveKeys(g)
      BY <1>2, <1>4, <1>5, <1>7, <2>1
    <3>2. Waiting(g) => Waiting(g)'
      BY <1>1, <1>4
    <3>3. Rotating(g) => Rotating(g)'
      BY <1>0, <1>4, <2>1
    <3> QED
      BY <1>1, <3>1, <3>2, <3>3 DEF CredInv, AllServed, Served
  <2>2. new \in LiveKeys(o)'
    BY <1>4, <1>5, <1>7
  <2> QED
    BY <1>1, <1>2, <2>1, <2>2 DEF AllServed, Served
<1> QED
  BY <1>6, <1>9, <1>10, <1>11 DEF CredInv

LEMMA CredInvStep == CredInv /\ [CredNext]_credVars => CredInv'
<1> SUFFICES ASSUME CredInv, [CredNext]_credVars PROVE CredInv'
  OBVIOUS
<1>1. CASE UNCHANGED credVars
  <2> USE <1>1 DEF credVars
  <2>1. CredTypes' /\ Vacant' /\ Held'
    BY DEF CredInv, CredTypes, Vacant, Held
  <2>2. AllServed'
    BY DEF CredInv, AllServed, Served
  <2> QED
    BY <2>1, <2>2 DEF CredInv
<1>2. CASE CredNext
  BY <1>2, CreateKeeps, RegisterKeeps, CutBootstrapKeeps, StartKeeps, ReplaceKeeps,
     CutRotationKeeps, DeactivateKeeps, InsertKeeps DEF CredNext
<1> QED
  BY <1>1, <1>2

LEMMA InvServesAll == CredInv => OneKeyPerOrganization
<1> SUFFICES ASSUME CredInv, NEW org \in 1 .. orgs
    PROVE  IF org \in cut \/ Waiting(org) THEN LiveKeys(org) = {}
           ELSE IF durable THEN Cardinality(LiveKeys(org)) = 1
           ELSE Rotating(org) \/ LiveKeys(org) # {}
  BY DEF OneKeyPerOrganization
<1>1. CASE org \in cut \/ Waiting(org)
  BY <1>1 DEF CredInv, Vacant
<1>2. CASE ~(org \in cut \/ Waiting(org)) /\ durable
  <2>1. PICK i \in Ids : LiveKeys(org) = {i}
    BY <1>2 DEF CredInv, AllServed, Served
  <2>2. Cardinality({i}) = 1
    BY FS_Singleton
  <2> QED
    BY <1>2, <2>1, <2>2
<1>3. CASE ~(org \in cut \/ Waiting(org)) /\ ~durable
  BY <1>3 DEF CredInv, AllServed, Served
<1> QED
  BY <1>1, <1>2, <1>3

(***************************************************************************)
(* "Rotation revokes the former credential", and no failure takes the last *)
(* one: however many callers bootstrap and rotate, fail or lose answers,   *)
(* an organization has exactly one live key in the durable store (none     *)
(* while its bootstrap is between its two commits, or for good if it ended *)
(* there), and in the process at least one unless a rotation is under way. *)
(***************************************************************************)
THEOREM OneKeyEach == CredSpec => []OneKeyPerOrganization
<1>1. CredInit => CredInv
  BY CredInvInit
<1>2. CredInv /\ [CredNext]_credVars => CredInv'
  BY CredInvStep
<1>3. CredInv => OneKeyPerOrganization
  BY InvServesAll
<1> QED
  BY <1>1, <1>2, <1>3, PTL DEF CredSpec

HIDE DEF NoKeyYet, KeysOf, Rotates, Registers, Registered, LiveKeys, Waiting, Rotating

-----------------------------------------------------------------------------
(* The job queue *)

JobSet == [identity : Identities, attempts : 0 .. MaxAttempts,
           status : {"queued", "running", "retry", "failed", "completed"}]

JobTypes ==
    /\ jobs \in Seq(JobSet)
    /\ claims \in [JobWorkers -> Nat]
    /\ done \subseteq DOMAIN jobs

\* A claim is of a running job, and of one worker.
ClaimsAreSole ==
    \A w \in JobWorkers : claims[w] # 0 =>
        /\ claims[w] \in DOMAIN jobs
        /\ jobs[claims[w]].status = "running"
        /\ \A v \in JobWorkers : claims[v] = claims[w] => v = w

Sound(j) ==
    /\ jobs[j].status \in {"queued", "retry"} => jobs[j].attempts < MaxAttempts
    /\ jobs[j].status = "running" => \E w \in JobWorkers : claims[w] = j
    /\ jobs[j].status = "failed" => jobs[j].attempts = MaxAttempts
    /\ j \in done <=> jobs[j].status = "completed"

JobInv == JobTypes /\ ClaimsAreSole /\ \A j \in DOMAIN jobs : Sound(j)

USE JobAssumption

LEMMA JobInvInit == JobInit => JobInv
BY DEF JobInit, JobInv, JobTypes, ClaimsAreSole

LEMMA EnqueueKeeps ==
    ASSUME JobInv, NEW identity \in Identities, Enqueue(identity)
    PROVE  JobInv'
<1> DEFINE job == [identity |-> identity, status |-> "queued", attempts |-> 0]
<1>1. UNCHANGED << claims, dead, done >>
  BY DEF Enqueue
<1>2. CASE jobs' = jobs
  BY <1>1, <1>2 DEF JobInv, JobTypes, ClaimsAreSole, Sound
<1>3. CASE jobs' = Append(jobs, job)
  <2>1. job \in JobSet /\ job.status = "queued" /\ job.attempts = 0
    BY DEF JobSet
  <2> HIDE DEF job
  <2>2. /\ jobs' \in Seq(JobSet)
        /\ DOMAIN jobs' = DOMAIN jobs \cup {Len(jobs) + 1}
        /\ Len(jobs) + 1 \notin DOMAIN jobs
        /\ jobs'[Len(jobs) + 1] = job
        /\ \A j \in DOMAIN jobs : jobs'[j] = jobs[j]
    BY <1>3, <2>1 DEF JobInv, JobTypes
  <2>3. JobTypes' /\ ClaimsAreSole'
    BY <1>1, <2>2 DEF JobInv, JobTypes, ClaimsAreSole
  <2>4. Len(jobs) + 1 \notin done
    BY <2>2 DEF JobInv, JobTypes
  <2>5. ASSUME NEW j \in DOMAIN jobs' PROVE Sound(j)'
    BY <1>1, <2>1, <2>2, <2>4, <2>5 DEF JobInv, Sound
  <2> QED
    BY <2>3, <2>5 DEF JobInv
<1> QED
  BY <1>2, <1>3 DEF Enqueue

LEMMA ClaimKeeps ==
    ASSUME JobInv, NEW w \in JobWorkers, Claim(w)
    PROVE  JobInv'
<1>1. PICK j \in DOMAIN jobs :
        /\ Claimable(j)
        /\ jobs' = [jobs EXCEPT ![j].status = "running", ![j].attempts = @ + 1]
        /\ claims' = [claims EXCEPT ![w] = j]
  BY DEF Claim
<1>2. claims[w] = 0 /\ UNCHANGED << dead, done >>
  BY DEF Claim
<1>3. /\ j \in Nat \ {0} /\ jobs[j] \in JobSet /\ jobs[j].attempts < MaxAttempts
      /\ jobs[j].status \in {"queued", "retry"}
  BY <1>1 DEF Claimable, JobInv, JobTypes
<1>4. /\ jobs'[j] = [jobs[j] EXCEPT !.status = "running", !.attempts = @ + 1]
      /\ DOMAIN jobs' = DOMAIN jobs /\ Len(jobs') = Len(jobs)
      /\ \A i \in DOMAIN jobs : i # j => jobs'[i] = jobs[i]
  BY <1>1 DEF JobInv, JobTypes
<1>5. jobs'[j] \in JobSet /\ jobs'[j].status = "running"
  <2>1. jobs[j].attempts + 1 \in 0 .. MaxAttempts
    BY <1>3 DEF JobSet
  <2>2. jobs'[j] = [identity |-> jobs[j].identity, attempts |-> jobs[j].attempts + 1,
                    status |-> "running"]
    BY <1>3, <1>4 DEF JobSet
  <2> QED
    BY <1>3, <2>1, <2>2 DEF JobSet
<1>6. jobs' \in Seq(JobSet)
  <2>0. DOMAIN jobs = 1 .. Len(jobs)
    BY DEF JobInv, JobTypes
  <2>1. jobs' = [i \in 1 .. Len(jobs) |-> jobs'[i]]
    <3>1. jobs' = [i \in DOMAIN jobs |-> jobs'[i]]
      BY <1>1
    <3> QED
      BY <2>0, <3>1
  <2>2. \A i \in 1 .. Len(jobs) : jobs'[i] \in JobSet
    BY <1>4, <1>5 DEF JobInv, JobTypes
  <2>3. Len(jobs) \in Nat
    BY DEF JobInv, JobTypes
  <2> QED
    BY <2>1, <2>2, <2>3
<1>7. claims'[w] = j /\ \A v \in JobWorkers : v # w => claims'[v] = claims[v]
  BY <1>1 DEF JobInv, JobTypes
<1>8. \A v \in JobWorkers : claims[v] # j
  BY <1>3 DEF JobInv, ClaimsAreSole
<1>9. JobTypes'
  BY <1>1, <1>2, <1>3, <1>4, <1>6 DEF JobInv, JobTypes
<1>10. ClaimsAreSole'
  <2> SUFFICES ASSUME NEW v \in JobWorkers, claims'[v] # 0
        PROVE  /\ claims'[v] \in DOMAIN jobs'
               /\ jobs'[claims'[v]].status = "running"
               /\ \A u \in JobWorkers : claims'[u] = claims'[v] => u = v
    BY DEF ClaimsAreSole
  <2>1. CASE v = w
    BY <1>4, <1>5, <1>7, <1>8, <2>1
  <2>2. CASE v # w
    <3>1. claims'[v] = claims[v] /\ claims[v] # j /\ claims[v] \in DOMAIN jobs
      BY <1>7, <1>8, <2>2 DEF JobInv, ClaimsAreSole
    <3> QED
      BY <1>4, <1>7, <2>2, <3>1 DEF JobInv, ClaimsAreSole
  <2> QED
    BY <2>1, <2>2
<1>11. j \notin done
  BY <1>3 DEF JobInv, Sound
<1>12. ASSUME NEW i \in DOMAIN jobs' PROVE Sound(i)'
  <2>1. CASE i = j
    BY <1>2, <1>5, <1>7, <1>11, <2>1 DEF Sound
  <2>2. CASE i # j
    BY <1>2, <1>3, <1>4, <1>7, <1>12, <2>2 DEF JobInv, JobTypes, Sound
  <2> QED
    BY <2>1, <2>2
<1> QED
  BY <1>9, <1>10, <1>12 DEF JobInv

\* A worker answers for the job it runs: what it leaves is completed, failed
\* after the last attempt, or to be retried.
LEMMA AnswerKeeps ==
    ASSUME JobInv, NEW w \in JobWorkers, claims[w] # 0,
           NEW s \in {"retry", "failed", "completed"},
           s = "retry" => jobs[claims[w]].attempts < MaxAttempts,
           s = "failed" => jobs[claims[w]].attempts = MaxAttempts,
           jobs' = [jobs EXCEPT ![claims[w]].status = s],
           claims' = [claims EXCEPT ![w] = 0],
           done' = IF s = "completed" THEN done \cup {claims[w]} ELSE done
    PROVE  JobInv'
<1>1. PICK j \in DOMAIN jobs : j = claims[w]
  BY DEF JobInv, ClaimsAreSole
<1>2. jobs[j] \in JobSet /\ jobs[j].status = "running" /\ j \in Nat \ {0} /\ j \notin done
  BY <1>1 DEF JobInv, JobTypes, ClaimsAreSole, Sound
<1>3. /\ jobs'[j] = [jobs[j] EXCEPT !.status = s]
      /\ DOMAIN jobs' = DOMAIN jobs /\ Len(jobs') = Len(jobs)
      /\ \A i \in DOMAIN jobs : i # j => jobs'[i] = jobs[i]
  BY <1>1 DEF JobInv, JobTypes
<1>4. /\ jobs'[j] \in JobSet /\ jobs'[j].status = s
      /\ jobs'[j].attempts = jobs[j].attempts
  BY <1>2, <1>3 DEF JobSet
<1>5. jobs' \in Seq(JobSet)
  BY <1>1, <1>3, <1>4 DEF JobInv, JobTypes
<1>6. claims'[w] = 0 /\ \A v \in JobWorkers : v # w => claims'[v] = claims[v] /\ claims[v] # j
  BY <1>1, <1>2 DEF JobInv, JobTypes, ClaimsAreSole
<1>7. JobTypes'
  BY <1>1, <1>3, <1>5 DEF JobInv, JobTypes
<1>8. ClaimsAreSole'
  BY <1>1, <1>3, <1>6 DEF JobInv, ClaimsAreSole
<1>9. ASSUME NEW i \in DOMAIN jobs' PROVE Sound(i)'
  <2>1. CASE i = j
    BY <1>1, <1>2, <1>4, <2>1 DEF Sound
  <2>2. CASE i # j
    <3>1. i \in done' <=> i \in done
      BY <1>1, <2>2
    <3>2. \A v \in JobWorkers : claims[v] = i => claims'[v] = i
      BY <1>1, <1>6, <2>2
    <3> QED
      BY <1>3, <1>9, <2>2, <3>1, <3>2 DEF JobInv, Sound
  <2> QED
    BY <2>1, <2>2
<1> QED
  BY <1>7, <1>8, <1>9 DEF JobInv

LEMMA FailKeeps ==
    ASSUME JobInv, NEW w \in JobWorkers, FailJob(w)
    PROVE  JobInv'
<1>1. /\ claims[w] # 0 /\ UNCHANGED done
      /\ jobs' = [jobs EXCEPT ![claims[w]].status = FailedStatus(claims[w])]
      /\ claims' = [claims EXCEPT ![w] = 0]
  BY DEF FailJob
<1>2. claims[w] \in DOMAIN jobs
  BY <1>1 DEF JobInv, ClaimsAreSole
<1>5. jobs[claims[w]].attempts \in 0 .. MaxAttempts
  <2>1. jobs[claims[w]] \in JobSet
    BY <1>2 DEF JobInv, JobTypes
  <2> QED
    BY <2>1 DEF JobSet
<1>3. CASE jobs[claims[w]].attempts < MaxAttempts
  <2>1. FailedStatus(claims[w]) = "retry"
    BY <1>3 DEF FailedStatus
  <2> QED
    BY <1>1, <1>3, <2>1, AnswerKeeps
<1>4. CASE jobs[claims[w]].attempts = MaxAttempts
  <2>1. FailedStatus(claims[w]) = "failed"
    BY <1>4 DEF FailedStatus
  <2> QED
    BY <1>1, <1>4, <2>1, AnswerKeeps
<1> QED
  BY <1>3, <1>4, <1>5

LEMMA JobInvStep == JobInv /\ [JobNext]_jobVars => JobInv'
<1> SUFFICES ASSUME JobInv, [JobNext]_jobVars PROVE JobInv'
  OBVIOUS
<1>1. CASE UNCHANGED << jobs, claims, done >>
  BY <1>1 DEF JobInv, JobTypes, ClaimsAreSole, Sound
<1>2. ASSUME NEW w \in JobWorkers, CompleteJob(w) PROVE JobInv'
  BY <1>2, AnswerKeeps DEF CompleteJob
<1> QED
  BY <1>1, <1>2, EnqueueKeeps, ClaimKeeps, FailKeeps DEF JobNext, jobVars, Die

(***************************************************************************)
(* Among workers that answer once per claim, for any workers, jobs and     *)
(* number of attempts: a job queued or to be retried can be claimed; one   *)
(* that is running was claimed by exactly one worker, which may have died  *)
(* with it; a job is given up only after its last attempt, and is not run  *)
(* again once completed.                                                   *)
(***************************************************************************)
THEOREM NoJobEverStranded == JobSpec => []NoJobIsStranded
<1>1. JobInit => JobInv
  BY JobInvInit
<1>2. JobInv /\ [JobNext]_jobVars => JobInv'
  BY JobInvStep
<1>3. JobInv => NoJobIsStranded
  <2> SUFFICES ASSUME JobInv, NEW j \in DOMAIN jobs
      PROVE  /\ jobs[j].status \in {"queued", "retry"} => Claimable(j) /\ RunBy(j) = {}
             /\ jobs[j].status = "running" => Cardinality(RunBy(j)) = 1 /\ j \notin done
             /\ jobs[j].status = "failed" => jobs[j].attempts = MaxAttempts
             /\ j \in done <=> jobs[j].status = "completed"
    BY DEF NoJobIsStranded
  <2>1. Sound(j) /\ j \in Nat \ {0}
    BY DEF JobInv, JobTypes
  <2>2. jobs[j].status \in {"queued", "retry"} => Claimable(j) /\ RunBy(j) = {}
    BY <2>1 DEF Sound, Claimable, RunBy, JobInv, ClaimsAreSole
  <2>3. ASSUME jobs[j].status = "running"  PROVE Cardinality(RunBy(j)) = 1 /\ j \notin done
    <3>1. PICK w \in JobWorkers : claims[w] = j
      BY <2>1, <2>3 DEF Sound
    <3>2. RunBy(j) = {w}
      BY <2>1, <3>1 DEF RunBy, JobInv, ClaimsAreSole
    <3>3. Cardinality({w}) = 1
      BY FS_Singleton
    <3> QED
      BY <2>1, <2>3, <3>2, <3>3 DEF Sound
  <2> QED
    BY <2>1, <2>2, <2>3 DEF Sound
<1> QED
  BY <1>1, <1>2, <1>3, PTL DEF JobSpec

-----------------------------------------------------------------------------
(***************************************************************************)
(* LocalLimiter: what a deque remembers.  The dict is in the order of the  *)
(* keys' last calls, a key that is not in it any more has seen MaxKeys     *)
(* others since its last call, and a deque holds whatever was admitted     *)
(* since the call that made it and still counts.  So an admission over the *)
(* limit is one whose rivals lie before that call, which found no deque.   *)
(***************************************************************************)

Entry == [key : LocalKeys, times : Seq(Nat)]
LoggedCall == [key : LocalKeys, at : Nat, ok : BOOLEAN]

LocalTypes == now \in Nat /\ events \in Seq(Entry) /\ log \in Seq(LoggedCall)

\* A key has one deque, and there are no more of them than MaxKeys.
OneDeque ==
    /\ \A m, n \in DOMAIN events : events[m].key = events[n].key => m = n
    /\ Len(events) <= MaxKeys

LastCalled(c, p) ==
    /\ p \in DOMAIN log /\ log[p].key = c
    /\ \A i \in p + 1 .. Len(log) : log[i].key # c

\* The dict is in the order of the last calls.
InOrder ==
    /\ \A n \in DOMAIN events : \E p \in Nat : LastCalled(events[n].key, p)
    /\ \A m, n \in DOMAIN events : m < n =>
          \E i \in DOMAIN log :
             /\ log[i].key = events[n].key
             /\ \A h \in i .. Len(log) : log[h].key # events[m].key

KeysBetween(p, q) == {log[n].key : n \in p + 1 .. q - 1}

\* A key that is not in the dict any more has been crowded out since its last call.
Forgotten ==
    \A c \in LocalKeys \ Tracked :
        (\E i \in DOMAIN log : log[i].key = c)
            => \E p \in Nat : LastCalled(c, p) /\ Cardinality(KeysBetween(p, Len(log) + 1)) >= MaxKeys

\* Call b of key k found no deque: it was the first, or k had been crowded out.
Starts(k, b) ==
    \/ \A i \in 1 .. b - 1 : log[i].key # k
    \/ \E p \in 1 .. b - 1 :
          /\ log[p].key = k
          /\ \A h \in p + 1 .. b - 1 : log[h].key # k
          /\ Cardinality(KeysBetween(p, b)) >= MaxKeys

AdmittedSince(k, b, t) ==
    {i \in b .. Len(log) : log[i].key = k /\ log[i].ok /\ log[i].at + LocalWindow > t}
StillCounted(times, t) == {m \in DOMAIN times : times[m] + LocalWindow > t}

\* A deque holds what was admitted since it was made and still counts.
Remembered ==
    \A n \in DOMAIN events : \E b \in DOMAIN log :
        /\ Starts(events[n].key, b)
        /\ \A t \in Nat : t >= now =>
              Cardinality(AdmittedSince(events[n].key, b, t))
                  <= Cardinality(StillCounted(events[n].times, t))

LocalInv == LocalTypes /\ OneDeque /\ InOrder /\ Forgotten /\ Remembered
                /\ QuotaUnlessCrowdedOut

LEMMA LeastNatural ==
  ASSUME NEW T, T \subseteq Nat, T # {}
  PROVE  \E x \in T : \A y \in T : x <= y
<1> DEFINE R == OpToRel(<, Nat)
<1>1. \E x \in T : \A y \in T : ~ (<< y, x >> \in R)
  BY NatLessThanWellFounded, WFMin
<1>2. \A x, y \in Nat : y < x => << y, x >> \in R
  BY DEF OpToRel
<1> HIDE DEF R
<1>3. PICK x \in T : \A y \in T : ~ (<< y, x >> \in R)
  BY <1>1
<1>4. ASSUME NEW y \in T PROVE x <= y
  <2>1. x \in Nat /\ y \in Nat /\ ~ (<< y, x >> \in R)
    BY <1>3
  <2>2. ~ (y < x)
    BY <2>1, <1>2
  <2> QED BY <2>1, <2>2
<1> QED
  BY <1>4

\* The place that is given up when k calls: its own, or the first, or none.
GivenUp(k) ==
    IF k \in Tracked THEN Place(k) ELSE IF Evicts(k) THEN 1 ELSE Len(events) + 1

LEMMA PlaceIs ==
  ASSUME LocalTypes, NEW k \in Tracked
  PROVE  Place(k) \in 1 .. Len(events) /\ events[Place(k)].key = k
<1>1. DOMAIN events = 1 .. Len(events)
  BY DEF LocalTypes
<1> QED
  BY <1>1 DEF Tracked, Place

\* The other keys stay in order and close the gap.
LEMMA OthersAre ==
  ASSUME LocalTypes, NEW k \in LocalKeys
  PROVE  /\ GivenUp(k) \in 1 .. Len(events) + 1
         /\ Others(k) \in Seq(Entry)
         /\ Len(Others(k)) = IF GivenUp(k) <= Len(events) THEN Len(events) - 1 ELSE Len(events)
         /\ \A n \in 1 .. Len(Others(k)) :
               Others(k)[n] = events[IF n < GivenUp(k) THEN n ELSE n + 1]
<1>1. events \in Seq(Entry) /\ Len(events) \in Nat /\ DOMAIN events = 1 .. Len(events)
      /\ \A i \in 1 .. Len(events) : events[i] \in Entry
  BY DEF LocalTypes
<1>2. CASE k \in Tracked
  <2> DEFINE p == Place(k)
             a == SubSeq(events, 1, p - 1)
             b == SubSeq(events, p + 1, Len(events))
  <2>1. p \in 1 .. Len(events) /\ GivenUp(k) = p /\ Others(k) = a \o b
    BY <1>2, PlaceIs DEF GivenUp, Others, RemoveAt
  <2> HIDE DEF p
  <2>2. /\ a \in Seq(Entry) /\ Len(a) = p - 1
        /\ \A i \in 1 .. p - 1 : a[i] = events[i]
    <3>1. 1 \in Int /\ p - 1 \in Int /\ \A i \in 1 .. p - 1 : events[i] \in Entry
      BY <1>1, <2>1
    <3>2. /\ a \in Seq(Entry)
          /\ Len(a) = IF 1 <= p - 1 THEN p - 1 - 1 + 1 ELSE 0
          /\ \A i \in 1 .. p - 1 - 1 + 1 : a[i] = events[1 + i - 1]
      BY ONLY <3>1, SubSeqProperties
    <3> QED BY <3>2, <2>1, <1>1
  <2>3. /\ b \in Seq(Entry) /\ Len(b) = Len(events) - p
        /\ \A i \in 1 .. Len(events) - p : b[i] = events[p + i]
    <3>1. p + 1 \in Int /\ Len(events) \in Int /\ \A i \in p + 1 .. Len(events) : events[i] \in Entry
      BY <1>1, <2>1
    <3>2. /\ b \in Seq(Entry)
          /\ Len(b) = IF p + 1 <= Len(events) THEN Len(events) - (p + 1) + 1 ELSE 0
          /\ \A i \in 1 .. Len(events) - (p + 1) + 1 : b[i] = events[p + 1 + i - 1]
      BY ONLY <3>1, SubSeqProperties
    <3> HIDE DEF b
    <3>3. Len(b) = Len(events) - p
      <4>1. p \in Int /\ Len(events) \in Int /\ p <= Len(events)
        BY <2>1, <1>1
      <4>2. CASE p + 1 <= Len(events)
        BY <4>1, <4>2, <3>2
      <4>3. CASE ~(p + 1 <= Len(events))
        BY <4>1, <4>3, <3>2
      <4> QED BY <4>2, <4>3
    <3>4. ASSUME NEW i \in 1 .. Len(events) - p PROVE b[i] = events[p + i]
      <4>1. p + 1 + i - 1 = p + i /\ i \in 1 .. Len(events) - (p + 1) + 1
        BY <2>1, <1>1
      <4> QED BY <4>1, <3>2
    <3> QED BY <3>2, <3>3, <3>4
  <2> HIDE DEF a, b
  <2>4. /\ a \o b \in Seq(Entry) /\ Len(a \o b) = Len(a) + Len(b)
        /\ \A i \in 1 .. Len(a) + Len(b) :
              (a \o b)[i] = IF i <= Len(a) THEN a[i] ELSE b[i - Len(a)]
    BY <2>2, <2>3, ConcatProperties
  <2>5. ASSUME NEW n \in 1 .. Len(events) - 1
        PROVE  (a \o b)[n] = events[IF n < p THEN n ELSE n + 1]
    <3>1. CASE n <= p - 1
      BY <3>1, <2>1, <2>2, <2>3, <2>4, <1>1
    <3>2. CASE ~(n <= p - 1)
      <4>1. n - (p - 1) \in 1 .. Len(events) - p /\ n \in 1 .. Len(a) + Len(b) /\ ~(n <= Len(a))
            /\ ~(n < p) /\ p + (n - (p - 1)) = n + 1
        BY <3>2, <2>1, <2>2, <2>3, <1>1
      <4>2. (a \o b)[n] = b[n - (p - 1)]
        BY <4>1, <2>2, <2>4
      <4> QED BY <4>1, <4>2, <2>3
    <3> QED BY <3>1, <3>2
  <2>6. Len(a \o b) = Len(events) - 1
    BY <2>1, <2>2, <2>3, <2>4, <1>1
  <2> HIDE DEF Others, GivenUp
  <2>7. GivenUp(k) <= Len(events) /\ GivenUp(k) \in 1 .. Len(events) + 1
    BY <2>1, <1>1
  <2> QED
    BY <2>1, <2>4, <2>5, <2>6, <2>7
<1>3. CASE k \notin Tracked /\ Evicts(k) /\ events # << >>
  <2>1. GivenUp(k) = 1 /\ Others(k) = Tail(events) /\ Len(events) >= 1
    BY <1>1, <1>3 DEF GivenUp, Others
  <2> QED
    BY <2>1, <1>1, HeadTailProperties
<1>4. Len(events) >= MaxKeys => events # << >>
  BY <1>1, LocalLimiterAssumption
<1>5. CASE k \notin Tracked /\ ~Evicts(k)
  <2>1. GivenUp(k) = Len(events) + 1 /\ Others(k) = events
    BY <1>5 DEF GivenUp, Others
  <2> HIDE DEF GivenUp, Others
  <2>2. GivenUp(k) \in 1 .. Len(events) + 1 /\ ~(GivenUp(k) <= Len(events))
    BY <2>1, <1>1
  <2>3. \A n \in 1 .. Len(events) : n < GivenUp(k)
    BY <2>1, <1>1
  <2> QED BY <2>1, <2>2, <2>3, <1>1
<1>6. Evicts(k) => events # << >>
  BY <1>4 DEF Evicts
<1>7. k \in Tracked \/ (k \notin Tracked /\ Evicts(k) /\ events # << >>)
      \/ (k \notin Tracked /\ ~Evicts(k))
  BY <1>6
<1> QED
  BY ONLY <1>2, <1>3, <1>5, <1>7

\* The deque of k goes on as a suffix of it, without what is past the window.
LEMMA RemainingIs ==
  ASSUME LocalTypes, NEW k \in LocalKeys
  PROVE  /\ Remaining(k) \in Seq(Nat)
         /\ k \notin Tracked => Remaining(k) = << >>
         /\ k \in Tracked => \E d \in Nat :
               /\ Len(Remaining(k)) = Len(TimesOf(k)) - d
               /\ \A m \in 1 .. Len(Remaining(k)) : Remaining(k)[m] = TimesOf(k)[m + d]
               /\ \A m \in 1 .. Len(TimesOf(k)) : TimesOf(k)[m] + LocalWindow > now => m > d
<1>1. << >> \in Seq(Nat)
  OBVIOUS
<1>2. CASE k \in Tracked
  <2> DEFINE ts == TimesOf(k)
  <2>1. ts \in Seq(Nat) /\ Len(ts) \in Nat /\ DOMAIN ts = 1 .. Len(ts)
    <3>1. events[Place(k)] \in Entry
      BY <1>2, PlaceIs DEF LocalTypes
    <3> QED BY <3>1 DEF TimesOf, Entry
  <2> HIDE DEF ts
  <2>2. CASE Unexpired(ts) = {}
    <3>1. Remaining(k) = << >>
      BY <2>2 DEF Remaining, ts
    <3>2. \A m \in 1 .. Len(ts) : ~(ts[m] + LocalWindow > now)
      BY <2>1, <2>2 DEF Unexpired
    <3>3. Len(Remaining(k)) = Len(ts) - Len(ts)
      BY <3>1, <2>1
    <3>4. /\ \A m \in 1 .. Len(Remaining(k)) : Remaining(k)[m] = ts[m + Len(ts)]
          /\ \A m \in 1 .. Len(ts) : ts[m] + LocalWindow > now => m > Len(ts)
          /\ Len(ts) \in Nat
      BY <3>1, <3>2, <2>1
    <3> QED
      BY <3>1, <3>3, <3>4, <1>1, <1>2 DEF ts
  <2>3. CASE Unexpired(ts) # {}
    <3> DEFINE f == Min(Unexpired(ts))
    <3>1. Unexpired(ts) \subseteq 1 .. Len(ts)
      BY <2>1 DEF Unexpired
    <3>2. f \in Unexpired(ts) /\ \A y \in Unexpired(ts) : f <= y
      <4>1. Unexpired(ts) \subseteq Nat
        BY <3>1, <2>1
      <4>2. \E x \in Unexpired(ts) : \A y \in Unexpired(ts) : x <= y
        BY <4>1, <2>3, LeastNatural
      <4> QED BY <4>2 DEF Min
    <3>3. f \in 1 .. Len(ts)
      BY <3>1, <3>2
    <3>4. Remaining(k) = SubSeq(ts, f, Len(ts))
      BY <1>2, <2>3 DEF Remaining, ts
    <3> HIDE DEF f
    <3>5. f \in Int /\ Len(ts) \in Int /\ \A i \in f .. Len(ts) : ts[i] \in Nat
      BY <2>1, <3>3
    <3>6. /\ Remaining(k) \in Seq(Nat)
          /\ Len(Remaining(k)) = IF f <= Len(ts) THEN Len(ts) - f + 1 ELSE 0
          /\ \A i \in 1 .. Len(ts) - f + 1 : Remaining(k)[i] = ts[f + i - 1]
      BY ONLY <3>4, <3>5, SubSeqProperties
    <3>7. f - 1 \in Nat /\ Len(Remaining(k)) = Len(ts) - (f - 1)
      BY <3>6, <3>3, <2>1
    <3>8. \A m \in 1 .. Len(Remaining(k)) : Remaining(k)[m] = ts[m + (f - 1)]
      <4>1. SUFFICES ASSUME NEW m \in 1 .. Len(Remaining(k)) PROVE Remaining(k)[m] = ts[m + (f - 1)]
        OBVIOUS
      <4>2. m \in 1 .. Len(ts) - f + 1 /\ m + (f - 1) = f + m - 1
        BY <3>3, <3>7, <2>1
      <4> QED BY <4>2, <3>6
    <3>9. \A m \in 1 .. Len(ts) : ts[m] + LocalWindow > now => m > f - 1
      <4>1. SUFFICES ASSUME NEW m \in 1 .. Len(ts), ts[m] + LocalWindow > now PROVE m > f - 1
        OBVIOUS
      <4>2. m \in Unexpired(ts)
        BY <4>1, <2>1 DEF Unexpired
      <4> QED BY <4>2, <3>2, <3>3, <2>1
    <3> QED
      BY <3>6, <3>7, <3>8, <3>9, <1>2 DEF ts
  <2> QED BY <2>2, <2>3
<1> QED
  BY <1>1, <1>2 DEF Remaining

\* Where the key was that is now at place n.
WasAt(k, n) == IF n < GivenUp(k) THEN n ELSE n + 1

LEMMA LogGrows ==
  ASSUME LocalTypes, NEW k \in LocalKeys, Allow(k)
  PROVE  /\ now' = now
         /\ log' \in Seq(LoggedCall) /\ Len(log) \in Nat /\ Len(log') = Len(log) + 1
         /\ DOMAIN log = 1 .. Len(log) /\ DOMAIN log' = 1 .. Len(log) + 1
         /\ \A i \in 1 .. Len(log) : log'[i] = log[i] /\ log[i] \in LoggedCall
         /\ log'[Len(log) + 1].key = k /\ log'[Len(log) + 1].at = now
         /\ log'[Len(log) + 1].ok <=> Len(Remaining(k)) < LocalLimit
<1> DEFINE e == [key |-> k, at |-> now, ok |-> Len(Remaining(k)) < LocalLimit]
<1>1. log' = Append(log, e) /\ now' = now
  BY DEF Allow
<1>2. log \in Seq(LoggedCall) /\ Len(log) \in Nat /\ DOMAIN log = 1 .. Len(log)
      /\ \A i \in 1 .. Len(log) : log[i] \in LoggedCall
  BY DEF LocalTypes
<1>3. e \in LoggedCall
  BY DEF LocalTypes, LoggedCall
<1>0. e.key = k /\ e.at = now /\ (e.ok <=> Len(Remaining(k)) < LocalLimit)
  BY Zenon
<1> HIDE DEF e
<1>4. /\ Append(log, e) \in Seq(LoggedCall)
      /\ Len(Append(log, e)) = Len(log) + 1
      /\ \A i \in 1 .. Len(log) : Append(log, e)[i] = log[i]
      /\ Append(log, e)[Len(log) + 1] = e
  BY <1>2, <1>3, AppendProperties
<1>5. DOMAIN log' = 1 .. Len(log) + 1
  BY <1>1, <1>2, <1>4
<1> QED
  BY <1>0, <1>1, <1>2, <1>4, <1>5

\* The other keys close the gap, and k is last.
LEMMA DictMoves ==
  ASSUME LocalTypes, OneDeque, NEW k \in LocalKeys, Allow(k)
  PROVE  LET N == Len(Others(k))  ok == Len(Remaining(k)) < LocalLimit IN
         /\ N \in Nat /\ events' \in Seq(Entry) /\ DOMAIN events' = 1 .. N + 1
         /\ Len(events') = N + 1 /\ N + 1 <= MaxKeys
         /\ events'[N + 1].key = k
         /\ events'[N + 1].times = IF ok THEN Append(Remaining(k), now) ELSE Remaining(k)
         /\ \A n \in 1 .. N : /\ events'[n] = events[WasAt(k, n)]
                              /\ WasAt(k, n) \in DOMAIN events
                              /\ events[WasAt(k, n)].key # k
         /\ \A m, n \in 1 .. N : m < n => WasAt(k, m) < WasAt(k, n)
         /\ \A m \in DOMAIN events :
               (events[m].key # k /\ ~(Evicts(k) /\ m = 1)) => \E n \in 1 .. N : m = WasAt(k, n)
<1> DEFINE N == Len(Others(k))
           ok == Len(Remaining(k)) < LocalLimit
           ts == IF ok THEN Append(Remaining(k), now) ELSE Remaining(k)
           e == [key |-> k, times |-> ts]
           g == GivenUp(k)
<1>1. events \in Seq(Entry) /\ Len(events) \in Nat /\ DOMAIN events = 1 .. Len(events)
      /\ now \in Nat /\ MaxKeys \in Nat \ {0}
  BY LocalLimiterAssumption DEF LocalTypes
<1>2. /\ g \in 1 .. Len(events) + 1
      /\ Others(k) \in Seq(Entry)
      /\ N = IF g <= Len(events) THEN Len(events) - 1 ELSE Len(events)
      /\ \A n \in 1 .. N : Others(k)[n] = events[WasAt(k, n)]
  BY OthersAre DEF WasAt
<1>3. e \in Entry
  <2>1. Remaining(k) \in Seq(Nat)
    BY RemainingIs
  <2>2. ts \in Seq(Nat)
    BY <2>1, <1>1, AppendProperties
  <2> QED BY <2>2 DEF Entry
<1>4. events' = Append(Others(k), e)
  BY DEF Allow, Reordered
<1>5. k \in Tracked => events[g].key = k /\ g \in 1 .. Len(events)
  BY PlaceIs DEF GivenUp
<1>6. k \notin Tracked => \A m \in DOMAIN events : events[m].key # k
  BY DEF Tracked
<1>7. k \notin Tracked /\ Evicts(k) => g = 1
  BY DEF GivenUp
<1>8. k \notin Tracked /\ ~Evicts(k) => g = Len(events) + 1 /\ Len(events) < MaxKeys
  BY <1>1 DEF GivenUp, Evicts
<1>9. Evicts(k) => k \notin Tracked
  BY DEF Evicts
<1>10. \A m, n \in DOMAIN events : events[m].key = events[n].key => m = n
  BY DEF OneDeque
<1>11. Len(events) <= MaxKeys
  BY DEF OneDeque
<1>12. Evicts(k) => Len(events) >= 1
  BY <1>1 DEF Evicts
<1>0. e.key = k /\ e.times = ts
  OBVIOUS
<1> HIDE DEF e, ts, ok, g, N
<1>22. /\ Len(events) \in Int /\ g \in Int /\ g >= 1 /\ g <= Len(events) + 1
       /\ N = IF g <= Len(events) THEN Len(events) - 1 ELSE Len(events)
       /\ MaxKeys \in Int /\ Len(events) >= 0
  <2>1. Len(events) \in Int /\ MaxKeys \in Int /\ Len(events) >= 0
    BY <1>1
  <2>2. g \in 1 .. Len(events) + 1
    BY <1>2
  <2>3. g \in Int /\ g >= 1 /\ g <= Len(events) + 1
    BY <2>1, <2>2
  <2> QED BY <2>1, <2>3, <1>2
<1>13. N \in Nat /\ N + 1 <= MaxKeys
  <2>1. CASE g <= Len(events)
    BY <2>1, <1>11, <1>22
  <2>2. CASE ~(g <= Len(events))
    <3>1. k \notin Tracked /\ ~Evicts(k)
      BY <2>2, <1>5, <1>7, <1>12, <1>22
    <3> QED BY <3>1, <2>2, <1>8, <1>22
  <2> QED BY <2>1, <2>2
<1>14. /\ events' \in Seq(Entry) /\ Len(events') = N + 1
       /\ \A i \in 1 .. N : events'[i] = Others(k)[i]
       /\ events'[N + 1] = e
  BY <1>2, <1>3, <1>4, AppendProperties DEF N
<1>15. DOMAIN events' = 1 .. N + 1
  BY <1>13, <1>14
<1>16. \A n \in 1 .. N : WasAt(k, n) = IF n < g THEN n ELSE n + 1
  BY DEF WasAt, g
<1>17. \A n \in 1 .. N : WasAt(k, n) \in DOMAIN events /\ WasAt(k, n) # g
  <2>1. SUFFICES ASSUME NEW n \in 1 .. N PROVE WasAt(k, n) \in 1 .. Len(events) /\ WasAt(k, n) # g
    BY <1>1
  <2>2. n \in Int /\ n >= 1 /\ n <= N
    BY <1>13
  <2>3. WasAt(k, n) = IF n < g THEN n ELSE n + 1
    BY <1>16
  <2> QED BY <2>2, <2>3, <1>22
<1>18. \A n \in 1 .. N : events[WasAt(k, n)].key # k
  <2>1. SUFFICES ASSUME NEW n \in 1 .. N PROVE events[WasAt(k, n)].key # k
    OBVIOUS
  <2>2. WasAt(k, n) \in DOMAIN events /\ WasAt(k, n) # g
    BY <1>17
  <2> QED BY <2>2, <1>1, <1>5, <1>6, <1>10
<1>19. \A m, n \in 1 .. N : m < n => WasAt(k, m) < WasAt(k, n)
  BY <1>2, <1>13, <1>16
<1>20. ASSUME NEW m \in 1 .. Len(events), events[m].key # k, ~(Evicts(k) /\ m = 1)
       PROVE  \E n \in 1 .. N : m = WasAt(k, n)
  <2>0. m \in Int /\ m >= 1 /\ m <= Len(events)
    BY <1>22
  <2>1. m # g
    <3>1. CASE k \in Tracked
      BY <3>1, <1>5, <1>20
    <3>2. CASE k \notin Tracked /\ Evicts(k)
      BY <3>2, <1>7, <1>20
    <3>3. CASE k \notin Tracked /\ ~Evicts(k)
      BY <3>3, <1>8, <2>0, <1>22
    <3> QED BY <3>1, <3>2, <3>3
  <2>2. CASE m < g
    <3>1. m \in 1 .. N
      BY <2>0, <2>2, <1>22
    <3> QED BY <3>1, <2>2, <1>16
  <2>3. CASE m > g
    <3>1. m - 1 \in 1 .. N /\ ~(m - 1 < g) /\ m - 1 + 1 = m
      BY <2>0, <2>3, <1>22
    <3> QED BY <3>1, <1>16
  <2> QED BY <2>0, <2>1, <2>2, <2>3, <1>22
<1> QED
  BY <1>0, <1>1, <1>13, <1>14, <1>15, <1>2, <1>17, <1>18, <1>19, <1>20 DEF N, ts, ok

LEMMA BetweenFinite ==
  ASSUME NEW p \in Nat, NEW q \in Nat
  PROVE  IsFiniteSet(KeysBetween(p, q)) /\ Cardinality(KeysBetween(p, q)) \in Nat
<1> DEFINE f == [n \in p + 1 .. q - 1 |-> log[n].key]
<1>1. IsFiniteSet(p + 1 .. q - 1)
  BY FS_Interval
<1>2. f \in Surjection(p + 1 .. q - 1, KeysBetween(p, q))
  BY DEF Surjection, KeysBetween
<1> HIDE DEF f
<1>3. IsFiniteSet(KeysBetween(p, q))
  BY ONLY <1>1, <1>2, FS_Surjection
<1> QED
  BY <1>3, FS_CardinalityType

\* What is between two calls does not change when the log grows.
LEMMA BetweenStays ==
  ASSUME LocalTypes, NEW k \in LocalKeys, Allow(k), NEW p \in Nat, NEW q \in Nat, q <= Len(log) + 1
  PROVE  KeysBetween(p, q)' = KeysBetween(p, q)
<1>1. \A n \in p + 1 .. q - 1 : log'[n] = log[n]
  BY LogGrows
<1> QED
  BY <1>1 DEF KeysBetween

LEMMA LastCalledStays ==
  ASSUME LocalTypes, NEW k \in LocalKeys, Allow(k), NEW c, c # k, NEW p \in Nat, LastCalled(c, p)
  PROVE  LastCalled(c, p)'
<1>1. /\ Len(log) \in Nat /\ Len(log') = Len(log) + 1
      /\ DOMAIN log = 1 .. Len(log) /\ DOMAIN log' = 1 .. Len(log) + 1
      /\ \A i \in 1 .. Len(log) : log'[i] = log[i]
      /\ log'[Len(log) + 1].key = k
  BY LogGrows
<1> QED
  BY <1>1 DEF LastCalled

LEMMA InOrderStays ==
  ASSUME LocalInv, NEW k \in LocalKeys, Allow(k)
  PROVE  InOrder'
<1> DEFINE N == Len(Others(k))
<1>1. LocalTypes /\ OneDeque /\ InOrder
  BY DEF LocalInv
<1>2. /\ Len(log) \in Nat /\ Len(log') = Len(log) + 1
      /\ DOMAIN log = 1 .. Len(log) /\ DOMAIN log' = 1 .. Len(log) + 1
      /\ \A i \in 1 .. Len(log) : log'[i] = log[i]
      /\ log'[Len(log) + 1].key = k
  BY <1>1, LogGrows
<1>3. /\ N \in Nat /\ DOMAIN events' = 1 .. N + 1
      /\ events'[N + 1].key = k
      /\ \A n \in 1 .. N : /\ events'[n] = events[WasAt(k, n)]
                           /\ WasAt(k, n) \in DOMAIN events
                           /\ events[WasAt(k, n)].key # k
      /\ \A m, n \in 1 .. N : m < n => WasAt(k, m) < WasAt(k, n)
  BY <1>1, DictMoves
<1> HIDE DEF N
<1>4. ASSUME NEW n \in DOMAIN events' PROVE \E p \in Nat : LastCalled(events[n].key, p)'
  <2>1. CASE n = N + 1
    <3>1. PICK q \in Nat : q = Len(log) + 1
      BY <1>2
    <3>2. /\ q \in DOMAIN log' /\ log'[q].key = events'[n].key
          /\ \A i \in q + 1 .. Len(log') : log'[i].key # events'[n].key
      BY <2>1, <3>1, <1>2, <1>3
    <3>3. LastCalled(events[n].key, q)'
      BY <3>2 DEF LastCalled
    <3> QED BY <3>3
  <2>2. CASE n # N + 1
    <3>1. n \in 1 .. N
      BY <2>2, <1>3
    <3>2. PICK p \in Nat : LastCalled(events[WasAt(k, n)].key, p)
      BY <3>1, <1>1, <1>3 DEF InOrder
    <3>4. LastCalled(events'[n].key, p)
      BY <3>1, <3>2, <1>3
    <3> DEFINE c == events'[n].key
    <3>5. c # k
      BY <3>1, <1>3
    <3> HIDE DEF c
    <3>6. /\ p \in DOMAIN log /\ log[p].key = c
          /\ \A i \in p + 1 .. Len(log) : log[i].key # c
      BY <3>4 DEF LastCalled, c
    <3>7. /\ p \in DOMAIN log' /\ log'[p].key = c
          /\ \A i \in p + 1 .. Len(log') : log'[i].key # c
      BY <3>5, <3>6, <1>2
    <3>8. LastCalled(events[n].key, p)'
      BY <3>7 DEF LastCalled, c
    <3> QED BY <3>8
  <2> QED BY <2>1, <2>2
<1>5. ASSUME NEW m \in DOMAIN events', NEW n \in DOMAIN events', m < n
      PROVE  \E i \in DOMAIN log' : /\ log'[i].key = events'[n].key
                                    /\ \A h \in i .. Len(log') : log'[h].key # events'[m].key
  <2>1. m \in 1 .. N /\ events'[m].key # k
    BY <1>3, <1>5
  <2>2. CASE n = N + 1
    BY <2>1, <2>2, <1>2, <1>3
  <2>3. CASE n # N + 1
    <3>1. n \in 1 .. N
      BY <2>3, <1>3
    <3>2. PICK i \in DOMAIN log : /\ log[i].key = events[WasAt(k, n)].key
                                 /\ \A h \in i .. Len(log) : log[h].key # events[WasAt(k, m)].key
      BY <2>1, <3>1, <1>1, <1>3, <1>5 DEF InOrder
    <3>3. i \in DOMAIN log' /\ log'[i].key = events'[n].key
      BY <3>1, <3>2, <1>2, <1>3
    <3>4. ASSUME NEW h \in i .. Len(log') PROVE log'[h].key # events'[m].key
      <4>1. CASE h = Len(log) + 1
        BY <4>1, <2>1, <1>2
      <4>2. CASE h # Len(log) + 1
        <5>1. h \in i .. Len(log) /\ h \in 1 .. Len(log)
          BY <4>2, <3>2, <1>2
        <5> QED BY <5>1, <3>2, <2>1, <1>2, <1>3
      <4> QED BY <4>1, <4>2
    <3> QED BY <3>3, <3>4
  <2> QED BY <2>2, <2>3
<1> QED
  BY <1>4, <1>5 DEF InOrder

\* Who is not in the dict after the call was not before, or is evicted by it.
LEMMA WhoIsGone ==
  ASSUME LocalTypes, OneDeque, NEW k \in LocalKeys, Allow(k), NEW c, c \notin Tracked'
  PROVE  /\ c # k
         /\ c \notin Tracked \/ (Evicts(k) /\ events # << >> /\ c = events[1].key)
<1> DEFINE N == Len(Others(k))
<1>1. /\ N \in Nat /\ DOMAIN events' = 1 .. N + 1 /\ events'[N + 1].key = k
      /\ \A n \in 1 .. N : events'[n] = events[WasAt(k, n)]
      /\ \A m \in DOMAIN events :
            (events[m].key # k /\ ~(Evicts(k) /\ m = 1)) => \E n \in 1 .. N : m = WasAt(k, n)
  BY DictMoves
<1> HIDE DEF N
<1>2. Tracked' = {events'[i].key : i \in 1 .. N + 1}
  BY <1>1 DEF Tracked
<1>3. c # k
  BY <1>1, <1>2
<1>4. ASSUME c \in Tracked PROVE Evicts(k) /\ events # << >> /\ c = events[1].key
  <2>1. PICK m \in DOMAIN events : events[m].key = c
    BY <1>4 DEF Tracked
  <2>2. ASSUME NEW n \in 1 .. N, m = WasAt(k, n) PROVE FALSE
    <3>1. events'[n].key = c /\ n \in 1 .. N + 1
      BY <1>1, <2>1, <2>2
    <3> QED BY <3>1, <1>2
  <2>3. Evicts(k) /\ m = 1
    BY <1>1, <1>3, <2>1, <2>2
  <2>4. events # << >>
    BY <2>1
  <2> QED BY <2>1, <2>3, <2>4
<1> QED
  BY <1>3, <1>4

\* A key whose deque is dropped has seen a crowd of others since its last call.
LEMMA EvictedWasCrowdedOut ==
  ASSUME LocalInv, NEW k \in LocalKeys, Allow(k), Evicts(k), events # << >>,
         NEW p \in Nat, LastCalled(events[1].key, p)
  PROVE  Cardinality(KeysBetween(p, Len(log) + 1)') >= MaxKeys
<1> DEFINE K == KeysBetween(p, Len(log) + 1)'
           f == [n \in DOMAIN events |-> IF n = 1 THEN k ELSE events[n].key]
<1>1. LocalTypes /\ OneDeque /\ InOrder
  BY DEF LocalInv
<1>2. /\ Len(log) \in Nat /\ Len(log') = Len(log) + 1 /\ DOMAIN log = 1 .. Len(log)
      /\ \A i \in 1 .. Len(log) : log'[i] = log[i]
      /\ log'[Len(log) + 1].key = k
  BY <1>1, LogGrows
<1>3. /\ p \in 1 .. Len(log) /\ log[p].key = events[1].key
      /\ \A i \in p + 1 .. Len(log) : log[i].key # events[1].key
  BY <1>2 DEF LastCalled
<1>4. Len(events) \in Nat /\ DOMAIN events = 1 .. Len(events) /\ 1 \in DOMAIN events
  BY <1>1 DEF LocalTypes
<1>5. k \notin Tracked /\ Len(events) >= MaxKeys
  BY DEF Evicts
<1>6. K = {log'[n].key : n \in p + 1 .. Len(log) + 1}
  <2>1. K = {log'[n].key : n \in p + 1 .. Len(log') + 1 - 1}
    BY DEF KeysBetween
  <2>2. Len(log') + 1 - 1 = Len(log) + 1
    BY <1>2
  <2> QED BY <2>1, <2>2
<1> HIDE DEF K
<1>7. IsFiniteSet(K) /\ Cardinality(K) \in Nat
  <2> DEFINE D == p + 1 .. Len(log) + 1
             g == [n \in D |-> log'[n].key]
  <2>2. IsFiniteSet(D)
    BY <1>2, FS_Interval
  <2>3. g \in Surjection(D, K)
    BY <1>6 DEF Surjection
  <2> HIDE DEF g, D
  <2>4. IsFiniteSet(K)
    BY ONLY <2>2, <2>3, FS_Surjection
  <2> QED BY <2>4, FS_CardinalityType
<1>8. k \in K
  <2>1. Len(log) + 1 \in p + 1 .. Len(log) + 1
    BY <1>2, <1>3
  <2> QED BY <2>1, <1>2, <1>6
<1>9. ASSUME NEW n \in DOMAIN events, n # 1 PROVE events[n].key \in K
  <2>1. 1 < n
    BY <1>4, <1>9
  <2>2. PICK i \in DOMAIN log : /\ log[i].key = events[n].key
                               /\ \A h \in i .. Len(log) : log[h].key # events[1].key
    BY <1>1, <1>4, <2>1 DEF InOrder
  <2>3. i \in p + 1 .. Len(log) + 1 /\ log'[i].key = events[n].key
    BY <1>2, <1>3, <2>2
  <2> QED BY <2>3, <1>6
<1>10. f \in Injection(DOMAIN events, K)
  <2>1. f \in [DOMAIN events -> K]
    BY <1>8, <1>9
  <2>2. ASSUME NEW m \in DOMAIN events, NEW n \in DOMAIN events, f[m] = f[n] PROVE m = n
    <3>1. events[m].key # k /\ events[n].key # k
      BY <1>5 DEF Tracked
    <3> QED BY <3>1, <2>2, <1>1 DEF OneDeque
  <2> QED BY <2>1, <2>2 DEF Injection, IsInjective
<1> HIDE DEF f
<1>11. Cardinality(DOMAIN events) <= Cardinality(K)
  BY ONLY <1>7, <1>10, FS_Injection
<1>12. Cardinality(DOMAIN events) = Len(events)
  BY <1>4, FS_Interval
<1> QED
  BY <1>4, <1>5, <1>7, <1>11, <1>12, LocalLimiterAssumption DEF K

LEMMA ForgottenStays ==
  ASSUME LocalInv, NEW k \in LocalKeys, Allow(k)
  PROVE  Forgotten'
<1>1. LocalTypes /\ OneDeque /\ InOrder /\ Forgotten
  BY DEF LocalInv
<1>2. /\ Len(log) \in Nat /\ Len(log') = Len(log) + 1 /\ DOMAIN log = 1 .. Len(log)
      /\ DOMAIN log' = 1 .. Len(log) + 1
      /\ \A i \in 1 .. Len(log) : log'[i] = log[i]
      /\ log'[Len(log) + 1].key = k
  BY <1>1, LogGrows
<1>3. ASSUME NEW c \in LocalKeys, c \notin Tracked', NEW i \in DOMAIN log', log'[i].key = c
      PROVE  \E p \in Nat : LastCalled(c, p)' /\ Cardinality(KeysBetween(p, Len(log) + 1)') >= MaxKeys
  <2>1. c # k /\ (c \notin Tracked \/ (Evicts(k) /\ events # << >> /\ c = events[1].key))
    BY <1>1, <1>3, WhoIsGone
  <2>2. i \in DOMAIN log /\ log[i].key = c
    BY <1>2, <1>3, <2>1
  <2>3. CASE c \notin Tracked
    <3>1. PICK p \in Nat : LastCalled(c, p) /\ Cardinality(KeysBetween(p, Len(log) + 1)) >= MaxKeys
      BY <1>1, <2>2, <2>3 DEF Forgotten
    <3>2. LastCalled(c, p)'
      BY <1>1, <2>1, <3>1, LastCalledStays
    <3> DEFINE K == KeysBetween(p, Len(log) + 1)
               L == KeysBetween(p, Len(log) + 1)'
    <3>3. K \subseteq L
      <4>1. K = {log[n].key : n \in p + 1 .. Len(log) + 1 - 1}
        BY DEF KeysBetween
      <4>2. L = {log'[n].key : n \in p + 1 .. Len(log') + 1 - 1}
        BY DEF KeysBetween
      <4>3. \A n \in p + 1 .. Len(log) + 1 - 1 :
               n \in p + 1 .. Len(log') + 1 - 1 /\ log'[n] = log[n]
        BY <1>2
      <4> QED BY <4>1, <4>2, <4>3
    <3>4. IsFiniteSet(K) /\ Cardinality(K) \in Nat
      <4>1. Len(log) + 1 \in Nat
        BY <1>2
      <4> QED BY <4>1, BetweenFinite
    <3>5. IsFiniteSet(L) /\ Cardinality(L) \in Nat
      <4> DEFINE D == p + 1 .. Len(log') + 1 - 1
                 g == [n \in D |-> log'[n].key]
      <4>1. IsFiniteSet(D)
        BY <1>2, FS_Interval
      <4>2. g \in Surjection(D, L)
        BY DEF Surjection, KeysBetween
      <4> HIDE DEF g, D, L
      <4>3. IsFiniteSet(L)
        BY ONLY <4>1, <4>2, FS_Surjection
      <4> QED BY <4>3, FS_CardinalityType
    <3> HIDE DEF K, L
    <3>6. Cardinality(K) <= Cardinality(L)
      BY <3>3, <3>5, FS_Subset
    <3>7. Cardinality(L) >= MaxKeys
      BY <3>1, <3>4, <3>5, <3>6, LocalLimiterAssumption DEF K
    <3> QED BY <3>2, <3>7 DEF L
  <2>4. CASE Evicts(k) /\ events # << >> /\ c = events[1].key
    <3>1. 1 \in DOMAIN events
      BY <1>1, <2>4 DEF LocalTypes
    <3>2. PICK p \in Nat : LastCalled(c, p)
      BY <1>1, <2>4, <3>1 DEF InOrder
    <3>3. LastCalled(c, p)'
      BY <1>1, <2>1, <3>2, LastCalledStays
    <3>4. Cardinality(KeysBetween(p, Len(log) + 1)') >= MaxKeys
      BY <2>4, <3>2, EvictedWasCrowdedOut
    <3> QED BY <3>3, <3>4
  <2> QED BY <2>1, <2>3, <2>4
<1> QED
  BY <1>3 DEF Forgotten

LEMMA CountsAreFinite ==
  ASSUME NEW n \in Nat, NEW b \in Nat, NEW S, S \subseteq b .. n
  PROVE  IsFiniteSet(S) /\ Cardinality(S) \in Nat
<1>1. IsFiniteSet(b .. n)
  BY FS_Interval
<1>2. IsFiniteSet(S)
  BY <1>1, FS_Subset
<1> QED
  BY <1>2, FS_CardinalityType

\* What a deque loses at its front did not count any more.
LEMMA SuffixCounts ==
  ASSUME NEW old \in Seq(Nat), NEW new \in Seq(Nat), NEW d \in Nat, NEW t \in Nat,
         now \in Nat, t >= now,
         Len(new) = Len(old) - d,
         \A m \in 1 .. Len(new) : new[m] = old[m + d],
         \A m \in 1 .. Len(old) : old[m] + LocalWindow > now => m > d
  PROVE  Cardinality(StillCounted(old, t)) <= Cardinality(StillCounted(new, t))
<1> DEFINE S == StillCounted(old, t)
           T == StillCounted(new, t)
           f == [m \in S |-> m - d]
<1>1. /\ Len(old) \in Nat /\ DOMAIN old = 1 .. Len(old) /\ \A m \in 1 .. Len(old) : old[m] \in Nat
      /\ Len(new) \in Nat /\ DOMAIN new = 1 .. Len(new) /\ LocalWindow \in Nat
  BY LocalLimiterAssumption
<1>2. S \subseteq 1 .. Len(old) /\ T \subseteq 1 .. Len(new)
  BY <1>1 DEF StillCounted
<1>3. IsFiniteSet(T)
  BY <1>1, <1>2, CountsAreFinite
<1>4. ASSUME NEW m \in S PROVE m \in Int /\ m - d \in T
  <2>1. m \in 1 .. Len(old) /\ old[m] + LocalWindow > t
    BY <1>2 DEF StillCounted
  <2>2. old[m] + LocalWindow > now
    BY <2>1, <1>1
  <2>3. m > d
    BY <2>1, <2>2
  <2>4. m - d \in 1 .. Len(new) /\ (m - d) + d = m
    BY <2>1, <2>3, <1>1
  <2>5. new[m - d] = old[m]
    BY <2>4
  <2> QED BY <2>1, <2>4, <2>5, <1>1 DEF StillCounted
<1>5. f \in Injection(S, T)
  BY <1>4 DEF Injection, IsInjective
<1> HIDE DEF f, S, T
<1>6. Cardinality(S) <= Cardinality(T)
  BY ONLY <1>3, <1>5, FS_Injection
<1> QED
  BY <1>6 DEF S, T

\* When k calls, its deque accounts for all that it was admitted since it
\* started with none, and that still counts.
LEMMA BeforeCall ==
  ASSUME LocalInv, NEW k \in LocalKeys
  PROVE  \E b \in 1 .. Len(log) + 1 :
            /\ Starts(k, b)
            /\ \A t \in Nat : t >= now =>
                  Cardinality(AdmittedSince(k, b, t)) <= Cardinality(StillCounted(Remaining(k), t))
<1>1. LocalTypes /\ OneDeque /\ Forgotten /\ Remembered
  BY DEF LocalInv
<1>2. now \in Nat /\ Len(log) \in Nat /\ DOMAIN log = 1 .. Len(log)
  BY <1>1 DEF LocalTypes
<1>3. CASE k \in Tracked
  <2> DEFINE q == Place(k)
  <2>1. q \in 1 .. Len(events) /\ events[q].key = k /\ q \in DOMAIN events
    BY <1>1, <1>3, PlaceIs DEF LocalTypes
  <2>2. events[q].times = TimesOf(k) /\ TimesOf(k) \in Seq(Nat)
    <3>1. events[q] \in Entry
      BY <1>1, <2>1 DEF LocalTypes
    <3> QED BY <3>1 DEF Entry, TimesOf
  <2> HIDE DEF q
  <2>3. PICK b \in DOMAIN log :
            /\ Starts(events[q].key, b)
            /\ \A t \in Nat : t >= now =>
                  Cardinality(AdmittedSince(events[q].key, b, t))
                      <= Cardinality(StillCounted(events[q].times, t))
    BY <1>1, <2>1 DEF Remembered
  <2>4. PICK d \in Nat :
           /\ Len(Remaining(k)) = Len(TimesOf(k)) - d
           /\ \A m \in 1 .. Len(Remaining(k)) : Remaining(k)[m] = TimesOf(k)[m + d]
           /\ \A m \in 1 .. Len(TimesOf(k)) : TimesOf(k)[m] + LocalWindow > now => m > d
    BY <1>1, <1>3, RemainingIs
  <2>5. Remaining(k) \in Seq(Nat)
    BY <1>1, RemainingIs
  <2>6. ASSUME NEW t \in Nat, t >= now
        PROVE  Cardinality(AdmittedSince(k, b, t)) <= Cardinality(StillCounted(Remaining(k), t))
    <3>1. Cardinality(AdmittedSince(k, b, t)) <= Cardinality(StillCounted(TimesOf(k), t))
      BY <2>1, <2>2, <2>3, <2>6
    <3>2. Cardinality(StillCounted(TimesOf(k), t)) <= Cardinality(StillCounted(Remaining(k), t))
      BY <1>2, <2>2, <2>4, <2>5, <2>6, SuffixCounts
    <3>3. /\ Cardinality(AdmittedSince(k, b, t)) \in Nat
          /\ Cardinality(StillCounted(TimesOf(k), t)) \in Nat
          /\ Cardinality(StillCounted(Remaining(k), t)) \in Nat
      <4>1. AdmittedSince(k, b, t) \subseteq b .. Len(log) /\ b \in Nat
        BY <1>2 DEF AdmittedSince
      <4>2. /\ StillCounted(TimesOf(k), t) \subseteq 1 .. Len(TimesOf(k))
            /\ Len(TimesOf(k)) \in Nat
        BY <2>2 DEF StillCounted
      <4>3. /\ StillCounted(Remaining(k), t) \subseteq 1 .. Len(Remaining(k))
            /\ Len(Remaining(k)) \in Nat
        BY <2>5 DEF StillCounted
      <4> QED BY <4>1, <4>2, <4>3, <1>2, CountsAreFinite
    <3> QED BY <3>1, <3>2, <3>3
  <2>7. b \in 1 .. Len(log) + 1 /\ Starts(k, b)
    BY <1>2, <2>1, <2>3
  <2> QED BY <2>6, <2>7
<1>4. CASE k \notin Tracked
  <2>1. PICK b \in 1 .. Len(log) + 1 : b = Len(log) + 1
    BY <1>2
  <2>2. Starts(k, b)
    <3>1. CASE \A i \in DOMAIN log : log[i].key # k
      BY <3>1, <2>1, <1>2 DEF Starts
    <3>2. CASE \E i \in DOMAIN log : log[i].key = k
      <4>1. PICK p \in Nat : LastCalled(k, p) /\ Cardinality(KeysBetween(p, Len(log) + 1)) >= MaxKeys
        BY <1>1, <1>4, <3>2 DEF Forgotten
      <4>2. /\ p \in 1 .. b - 1 /\ log[p].key = k
            /\ \A h \in p + 1 .. b - 1 : log[h].key # k
        BY <4>1, <2>1, <1>2 DEF LastCalled
      <4> QED BY <4>1, <4>2, <2>1 DEF Starts
    <3> QED BY <3>1, <3>2
  <2>3. ASSUME NEW t \in Nat
        PROVE  Cardinality(AdmittedSince(k, b, t)) <= Cardinality(StillCounted(Remaining(k), t))
    <3>1. AdmittedSince(k, b, t) = {}
      BY <2>1, <1>2 DEF AdmittedSince
    <3>2. StillCounted(Remaining(k), t) = {}
      <4>1. Remaining(k) = << >>
        BY <1>1, <1>4, RemainingIs
      <4> QED BY <4>1 DEF StillCounted
    <3> QED BY <3>1, <3>2, FS_EmptySet
  <2> QED BY <2>2, <2>3
<1> QED
  BY <1>3, <1>4

LEMMA StartsStays ==
  ASSUME LocalTypes, NEW k \in LocalKeys, Allow(k), NEW c, NEW b \in 1 .. Len(log) + 1, Starts(c, b)
  PROVE  Starts(c, b)'
<1>1. Len(log) \in Nat /\ \A i \in 1 .. Len(log) : log'[i] = log[i]
  BY LogGrows
<1>2. CASE \A i \in 1 .. b - 1 : log[i].key # c
  BY <1>1, <1>2 DEF Starts
<1>3. CASE \E p \in 1 .. b - 1 :
              /\ log[p].key = c
              /\ \A h \in p + 1 .. b - 1 : log[h].key # c
              /\ Cardinality(KeysBetween(p, b)) >= MaxKeys
  <2>1. PICK p \in 1 .. b - 1 :
            /\ log[p].key = c
            /\ \A h \in p + 1 .. b - 1 : log[h].key # c
            /\ Cardinality(KeysBetween(p, b)) >= MaxKeys
    BY <1>3
  <2>2. KeysBetween(p, b)' = KeysBetween(p, b)
    <3>1. p \in Nat /\ b \in Nat /\ b <= Len(log) + 1
      BY <1>1
    <3> QED BY <3>1, BetweenStays
  <2>3. log'[p].key = c /\ \A h \in p + 1 .. b - 1 : log'[h].key # c
    <3>1. b \in Int /\ p \in Int /\ 1 <= p /\ p <= b - 1 /\ b - 1 <= Len(log)
      BY <1>1
    <3>2. \A h \in 1 .. b - 1 : log'[h] = log[h]
      BY <1>1, <3>1
    <3>3. p \in 1 .. b - 1 /\ \A h \in p + 1 .. b - 1 : h \in 1 .. b - 1
      BY <3>1
    <3> QED BY <2>1, <3>2, <3>3
  <2>4. Cardinality(KeysBetween(p, b)') >= MaxKeys
    BY <2>1, <2>2
  <2> QED BY <2>1, <2>3, <2>4 DEF Starts
<1> QED
  BY <1>2, <1>3 DEF Starts

LEMMA RememberedStays ==
  ASSUME LocalInv, NEW k \in LocalKeys, Allow(k)
  PROVE  Remembered'
<1> DEFINE N == Len(Others(k))
           ok == Len(Remaining(k)) < LocalLimit
           L == Len(log)
<1>1. LocalTypes /\ OneDeque /\ Remembered
  BY DEF LocalInv
<1>2. /\ now \in Nat /\ now' = now /\ LocalWindow \in Nat
      /\ L \in Nat /\ Len(log') = L + 1 /\ DOMAIN log = 1 .. L /\ DOMAIN log' = 1 .. L + 1
      /\ \A i \in 1 .. L : log'[i] = log[i]
      /\ log'[L + 1].key = k /\ log'[L + 1].at = now
      /\ log'[L + 1].ok <=> ok
  BY <1>1, LogGrows, LocalLimiterAssumption DEF LocalTypes
<1>3. /\ N \in Nat /\ DOMAIN events' = 1 .. N + 1
      /\ events'[N + 1].key = k
      /\ events'[N + 1].times = IF ok THEN Append(Remaining(k), now) ELSE Remaining(k)
      /\ \A n \in 1 .. N : /\ events'[n] = events[WasAt(k, n)]
                           /\ WasAt(k, n) \in DOMAIN events
                           /\ events[WasAt(k, n)].key # k
  BY <1>1, DictMoves
<1>4. Remaining(k) \in Seq(Nat)
  BY <1>1, RemainingIs
<1> HIDE DEF N, ok, L
\* What has been admitted since call b.
<1>5. ASSUME NEW c, NEW b \in 1 .. L + 1, NEW t \in Nat
      PROVE  AdmittedSince(c, b, t)' = AdmittedSince(c, b, t)
                 \cup {i \in {L + 1} : c = k /\ ok /\ now + LocalWindow > t}
  <2>1. AdmittedSince(c, b, t)' =
           {i \in b .. L + 1 : log'[i].key = c /\ log'[i].ok /\ log'[i].at + LocalWindow > t}
    BY <1>2 DEF AdmittedSince
  <2>2. AdmittedSince(c, b, t) =
           {i \in b .. L : log[i].key = c /\ log[i].ok /\ log[i].at + LocalWindow > t}
    BY DEF AdmittedSince, L
  <2>3. ASSUME NEW i
        PROVE  i \in b .. L + 1 <=> (i \in b .. L \/ i = L + 1)
    BY <1>2
  <2>4. \A i \in b .. L : log'[i] = log[i] /\ i # L + 1
    BY <1>2
  <2>5. ASSUME NEW i
        PROVE  i \in AdmittedSince(c, b, t)' <=>
                 \/ i \in AdmittedSince(c, b, t)
                 \/ i = L + 1 /\ c = k /\ ok /\ now + LocalWindow > t
    <3>1. CASE i = L + 1
      <4>1. i \in b .. L + 1 /\ ~(i \in b .. L)
        BY <3>1, <2>3, <2>4
      <4> QED BY <3>1, <4>1, <2>1, <2>2, <1>2
    <3>2. CASE i \in b .. L
      <4>1. i \in b .. L + 1 /\ i # L + 1 /\ log'[i] = log[i]
        BY <3>2, <2>3, <2>4
      <4> QED BY <3>2, <4>1, <2>1, <2>2
    <3>3. CASE i # L + 1 /\ ~(i \in b .. L)
      <4>1. ~(i \in b .. L + 1)
        BY <3>3, <2>3
      <4> QED BY <3>3, <4>1, <2>1, <2>2
    <3> QED BY <3>1, <3>2, <3>3
  <2> QED BY <2>5
<1>6. ASSUME NEW n \in 1 .. N
      PROVE  \E b \in DOMAIN log' :
                /\ Starts(events[n].key, b)'
                /\ \A t \in Nat : t >= now' =>
                      Cardinality(AdmittedSince(events[n].key, b, t)')
                         <= Cardinality(StillCounted(events'[n].times, t))
  <2> DEFINE e == events'[n]
             c == e.key
  <2>1. e = events[WasAt(k, n)] /\ c # k
    BY <1>3
  <2>2. PICK b \in DOMAIN log :
            /\ Starts(c, b)
            /\ \A t \in Nat : t >= now =>
                  Cardinality(AdmittedSince(c, b, t)) <= Cardinality(StillCounted(e.times, t))
    BY <1>1, <1>3, <2>1 DEF Remembered
  <2>3. b \in 1 .. L + 1 /\ b \in DOMAIN log'
    BY <1>2
  <2> HIDE DEF e
  <2>4. PICK d : d = c
    OBVIOUS
  <2>5. Starts(d, b)'
    <3>1. Starts(d, b) /\ b \in 1 .. Len(log) + 1
      BY <2>2, <2>3, <2>4 DEF L
    <3> QED BY <3>1, <1>1, StartsStays
  <2>6. Starts(events[n].key, b)'
    BY <2>4, <2>5 DEF e, Starts
  <2>7. ASSUME NEW t \in Nat, t >= now
        PROVE  Cardinality(AdmittedSince(events[n].key, b, t)') <= Cardinality(StillCounted(e.times, t))
    <3>1. AdmittedSince(d, b, t)' = AdmittedSince(d, b, t)
      <4>1. d # k
        BY <2>1, <2>4
      <4>2. {i \in {L + 1} : d = k /\ ok /\ now + LocalWindow > t} = {}
        BY <4>1
      <4>3. AdmittedSince(d, b, t)' = AdmittedSince(d, b, t)
                 \cup {i \in {L + 1} : d = k /\ ok /\ now + LocalWindow > t}
        BY <1>5, <2>3
      <4> QED BY <4>2, <4>3
    <3>2. AdmittedSince(events[n].key, b, t)' = AdmittedSince(d, b, t)'
      BY <2>4 DEF e, AdmittedSince
    <3> QED BY <3>1, <3>2, <2>2, <2>4, <2>7
  <2> QED BY <2>3, <2>6, <2>7, <1>2 DEF e
<1>7. ASSUME NEW n, n = N + 1
      PROVE  \E b \in DOMAIN log' :
                /\ Starts(events[n].key, b)'
                /\ \A t \in Nat : t >= now' =>
                      Cardinality(AdmittedSince(events[n].key, b, t)')
                         <= Cardinality(StillCounted(events'[n].times, t))
  <2>1. PICK b \in 1 .. Len(log) + 1 :
            /\ Starts(k, b)
            /\ \A t \in Nat : t >= now =>
                  Cardinality(AdmittedSince(k, b, t)) <= Cardinality(StillCounted(Remaining(k), t))
    BY BeforeCall
  <2>2. b \in DOMAIN log' /\ b \in Nat
    BY <1>2 DEF L
  <2>3. Starts(k, b)'
    BY <1>1, <2>1, StartsStays
  <2>4. Starts(events[n].key, b)'
    BY <1>3, <1>7, <2>3 DEF Starts
  <2>5. ASSUME NEW t \in Nat, t >= now
        PROVE  Cardinality(AdmittedSince(events[n].key, b, t)') <= Cardinality(StillCounted(events'[n].times, t))
    <3> DEFINE A == AdmittedSince(k, b, t)
               S == StillCounted(Remaining(k), t)
               ts == events'[n].times
               R == Len(Remaining(k))
    <3>1. AdmittedSince(events[n].key, b, t)' = A \cup {i \in {L + 1} : ok /\ now + LocalWindow > t}
      <4>1. AdmittedSince(events[n].key, b, t)' = AdmittedSince(k, b, t)'
        BY <1>3, <1>7 DEF AdmittedSince
      <4>2. b \in 1 .. L + 1
        BY DEF L
      <4> QED BY <4>1, <4>2, <1>5
    <3>2. A \subseteq b .. L /\ IsFiniteSet(A) /\ Cardinality(A) \in Nat
      <4>1. A \subseteq b .. L
        BY DEF AdmittedSince, L
      <4> QED BY <4>1, <1>2, <2>2, CountsAreFinite
    <3>3. R \in Nat /\ DOMAIN Remaining(k) = 1 .. R
      BY <1>4
    <3>4. S \subseteq 1 .. R /\ IsFiniteSet(S) /\ Cardinality(S) \in Nat
      <4>1. S \subseteq 1 .. R
        BY <3>3 DEF StillCounted
      <4> QED BY <4>1, <3>3, CountsAreFinite
    <3>5. Cardinality(A) <= Cardinality(S)
      BY <2>1, <2>5
    <3>6. CASE ok /\ now + LocalWindow > t
      <4>1. ts = Append(Remaining(k), now)
        BY <1>3, <1>7, <3>6
      <4>2. /\ Len(ts) = R + 1 /\ DOMAIN ts = 1 .. R + 1 /\ ts[R + 1] = now
            /\ \A i \in 1 .. R : ts[i] = Remaining(k)[i]
        BY <4>1, <1>2, <1>4, <3>3, AppendProperties
      <4>3. StillCounted(ts, t) = S \cup {R + 1}
        <5>1. ASSUME NEW m PROVE m \in 1 .. R + 1 <=> (m \in 1 .. R \/ m = R + 1)
          BY <3>3
        <5>2. StillCounted(ts, t) = {m \in 1 .. R + 1 : ts[m] + LocalWindow > t}
          BY <4>2 DEF StillCounted
        <5>3. S = {m \in 1 .. R : Remaining(k)[m] + LocalWindow > t}
          BY <3>3 DEF StillCounted
        <5> HIDE DEF S, ts
        <5> QED BY <5>1, <5>2, <5>3, <4>2, <3>6
      <4>4. R + 1 \notin S /\ L + 1 \notin A
        BY <3>2, <3>3, <3>4, <1>2
      <4> HIDE DEF A, S
      <4>5. Cardinality(StillCounted(ts, t)) = Cardinality(S) + 1
        BY <4>3, <4>4, <3>4, FS_AddElement
      <4>6. Cardinality(A \cup {L + 1}) = Cardinality(A) + 1
        BY <4>4, <3>2, FS_AddElement
      <4>7. AdmittedSince(events[n].key, b, t)' = A \cup {L + 1}
        BY <3>1, <3>6
      <4> QED BY <4>5, <4>6, <4>7, <3>2, <3>4, <3>5
    <3>7. CASE ~(ok /\ now + LocalWindow > t)
      <4>1. AdmittedSince(events[n].key, b, t)' = A
        BY <3>1, <3>7
      <4>2. StillCounted(ts, t) = S
        <5>1. CASE ~ok
          BY <5>1, <1>3, <1>7
        <5>2. CASE ok /\ ~(now + LocalWindow > t)
          <6>1. ts = Append(Remaining(k), now)
            BY <1>3, <1>7, <5>2
          <6>2. /\ Len(ts) = R + 1 /\ DOMAIN ts = 1 .. R + 1 /\ ts[R + 1] = now
                /\ \A i \in 1 .. R : ts[i] = Remaining(k)[i]
            BY <6>1, <1>2, <1>4, <3>3, AppendProperties
          <6>3. ASSUME NEW m PROVE m \in 1 .. R + 1 <=> (m \in 1 .. R \/ m = R + 1)
            BY <3>3
          <6>4. StillCounted(ts, t) = {m \in 1 .. R + 1 : ts[m] + LocalWindow > t}
            BY <6>2 DEF StillCounted
          <6>5. S = {m \in 1 .. R : Remaining(k)[m] + LocalWindow > t}
            BY <3>3 DEF StillCounted
          <6> HIDE DEF S, ts
          <6> QED BY <6>2, <6>3, <6>4, <6>5, <5>2
        <5> QED BY <5>1, <5>2, <3>7
      <4> QED BY <4>1, <4>2, <3>5
    <3> QED BY <3>6, <3>7
  <2> QED BY <2>2, <2>4, <2>5, <1>2
<1>8. ASSUME NEW n \in DOMAIN events' PROVE n \in 1 .. N \/ n = N + 1
  BY <1>3
<1> QED
  BY <1>6, <1>7, <1>8 DEF Remembered

LEMMA QuotaStays ==
  ASSUME LocalInv, NEW k \in LocalKeys, Allow(k)
  PROVE  QuotaUnlessCrowdedOut'
<1> DEFINE L == Len(log)
<1>1. LocalTypes /\ QuotaUnlessCrowdedOut
  BY DEF LocalInv
<1>2. /\ now \in Nat /\ LocalWindow \in Nat /\ LocalLimit \in Nat \ {0}
      /\ L \in Nat /\ DOMAIN log = 1 .. L /\ DOMAIN log' = 1 .. L + 1
      /\ \A i \in 1 .. L : log'[i] = log[i]
      /\ log'[L + 1].key = k /\ log'[L + 1].at = now
      /\ log'[L + 1].ok <=> Len(Remaining(k)) < LocalLimit
  BY <1>1, LogGrows, LocalLimiterAssumption DEF LocalTypes
<1> HIDE DEF L
<1>3. ASSUME NEW j \in 1 .. L, log'[j].ok, Cardinality(SharesWindow(j)') > LocalLimit
      PROVE  \E i \in SharesWindow(j)' : CrowdedOut(log[j].key, i, j)'
  <2>1. j \in DOMAIN log /\ log'[j] = log[j] /\ \A i \in 1 .. j : log'[i] = log[i]
    BY <1>2
  <2>2. SharesWindow(j)' = SharesWindow(j)
    BY <2>1 DEF SharesWindow
  <2>3. PICK i \in SharesWindow(j) : CrowdedOut(log[j].key, i, j)
    BY <1>1, <1>3, <2>1, <2>2 DEF QuotaUnlessCrowdedOut
  <2>4. i \in 1 .. j
    BY DEF SharesWindow
  <2>5. PICK p \in i .. j, q \in i .. j :
            /\ p < q
            /\ \A n \in p + 1 .. q - 1 : log[n].key # log[j].key
            /\ Cardinality({log[n].key : n \in p + 1 .. q - 1}) >= MaxKeys
    BY <2>3 DEF CrowdedOut
  <2>6. \A n \in p + 1 .. q - 1 : log'[n] = log[n]
    <3>1. p \in Int /\ q \in Int /\ 1 <= p /\ q <= j /\ j \in Int
      BY <2>4
    <3>2. \A n \in p + 1 .. q - 1 : n \in 1 .. j
      BY <3>1
    <3> QED BY <2>1, <3>2
  <2>7. {log'[n].key : n \in p + 1 .. q - 1} = {log[n].key : n \in p + 1 .. q - 1}
    BY <2>6
  <2>8. CrowdedOut(log[j].key, i, j)'
    BY <2>1, <2>5, <2>6, <2>7 DEF CrowdedOut
  <2> QED BY <2>2, <2>8
<1>4. ASSUME NEW j, j = L + 1, log'[j].ok, Cardinality(SharesWindow(j)') > LocalLimit
      PROVE  \E i \in SharesWindow(j)' : CrowdedOut(log[j].key, i, j)'
  <2> DEFINE W == SharesWindow(j)'
  <2>1. W = {i \in 1 .. L + 1 : log'[i].key = k /\ log'[i].ok /\ log'[i].at + LocalWindow > now}
    BY <1>2, <1>4 DEF SharesWindow
  <2>2. PICK b \in 1 .. Len(log) + 1 :
            /\ Starts(k, b)
            /\ \A t \in Nat : t >= now =>
                  Cardinality(AdmittedSince(k, b, t)) <= Cardinality(StillCounted(Remaining(k), t))
    BY BeforeCall
  <2>3. b \in 1 .. L + 1
    BY DEF L
  <2> HIDE DEF W
  <2>4. \E i \in W : i < b /\ i # L + 1
    <3> DEFINE A == AdmittedSince(k, b, now)
               R == Remaining(k)
    <3>1. SUFFICES ASSUME \A i \in W : i = L + 1 \/ ~(i < b) PROVE FALSE
      OBVIOUS
    <3>2. R \in Seq(Nat) /\ Len(R) \in Nat /\ DOMAIN R = 1 .. Len(R)
      BY <1>1, RemainingIs
    <3>3. IsFiniteSet(A) /\ Cardinality(A) \in Nat
      <4>1. A \subseteq b .. L /\ b \in Nat
        BY <2>3, <1>2 DEF AdmittedSince, L
      <4> QED BY <4>1, <1>2, CountsAreFinite
    <3>4. Cardinality(StillCounted(R, now)) <= Len(R) /\ Cardinality(StillCounted(R, now)) \in Nat
      <4>1. StillCounted(R, now) \subseteq 1 .. Len(R)
        BY <3>2 DEF StillCounted
      <4>2. IsFiniteSet(1 .. Len(R)) /\ Cardinality(1 .. Len(R)) = Len(R)
        <5>1. PICK n \in Nat : n = Len(R)
          BY <3>2
        <5>2. IsFiniteSet(1 .. n) /\ Cardinality(1 .. n) = IF 1 > n THEN 0 ELSE n - 1 + 1
          BY FS_Interval
        <5> QED BY <5>1, <5>2
      <4>3. Cardinality(StillCounted(R, now)) \in Nat
        BY <4>1, <3>2, CountsAreFinite
      <4> QED BY <4>1, <4>2, <4>3, FS_Subset
    <3>5. Len(R) < LocalLimit
      BY <1>2, <1>4
    <3>6. Cardinality(A) <= Cardinality(StillCounted(R, now))
      BY <2>2, <1>2
    <3>7. W \subseteq A \cup {L + 1}
      <4>1. SUFFICES ASSUME NEW i \in W, i # L + 1 PROVE i \in A
        OBVIOUS
      <4>2. i \in 1 .. L + 1 /\ ~(i < b)
        BY <4>1, <3>1, <2>1
      <4>3. i \in b .. L /\ i \in 1 .. L
        BY <4>1, <4>2, <2>3, <1>2
      <4>4. log[i].key = k /\ log[i].ok /\ log[i].at + LocalWindow > now
        BY <4>1, <4>3, <2>1, <1>2
      <4> QED BY <4>3, <4>4 DEF AdmittedSince, L
    <3> HIDE DEF A, R
    <3>8. IsFiniteSet(A \cup {L + 1}) /\ Cardinality(A \cup {L + 1}) <= Cardinality(A) + 1
          /\ Cardinality(A \cup {L + 1}) \in Nat
      <4>1. IsFiniteSet(A \cup {L + 1})
            /\ Cardinality(A \cup {L + 1}) = IF L + 1 \in A THEN Cardinality(A) ELSE Cardinality(A) + 1
        BY <3>3, FS_AddElement
      <4> QED BY <4>1, <3>3
    <3>9. Cardinality(W) <= Cardinality(A \cup {L + 1}) /\ Cardinality(W) \in Nat
      <4>1. IsFiniteSet(W) /\ Cardinality(W) <= Cardinality(A \cup {L + 1})
        BY <3>7, <3>8, FS_Subset
      <4> QED BY <4>1, FS_CardinalityType
    <3>10. Cardinality(W) > LocalLimit
      BY <1>4 DEF W
    <3> QED BY <3>2, <3>3, <3>4, <3>5, <3>6, <3>8, <3>9, <3>10, <1>2
  <2>5. PICK i \in W : i < b /\ i # L + 1
    BY <2>4
  <2>6. i \in 1 .. L /\ i \in 1 .. b - 1 /\ log[i].key = k
    BY <2>1, <2>3, <2>5, <1>2
  <2>7. PICK p \in 1 .. b - 1 :
            /\ log[p].key = k
            /\ \A h \in p + 1 .. b - 1 : log[h].key # k
            /\ Cardinality(KeysBetween(p, b)) >= MaxKeys
    BY <2>2, <2>6 DEF Starts
  <2>8. /\ b \in Int /\ p \in Int /\ i \in Int /\ i >= 1 /\ i <= b - 1 /\ p >= 1 /\ p <= b - 1
        /\ b <= L + 1
    BY <2>3, <2>6, <1>2
  <2>9. i <= p
    <3>1. SUFFICES ASSUME ~(i <= p) PROVE FALSE
      OBVIOUS
    <3>2. i \in p + 1 .. b - 1
      BY <3>1, <2>8
    <3> QED BY <3>2, <2>6, <2>7
  <2>10. p \in i .. j /\ b \in i .. j /\ p < b
    BY <2>8, <2>9, <1>2, <1>4
  <2>11. \A n \in p + 1 .. b - 1 : log'[n] = log[n] /\ log'[n].key # k
    <3>1. \A n \in p + 1 .. b - 1 : n \in 1 .. L
      BY <2>8, <1>2
    <3> QED BY <3>1, <1>2, <2>7
  <2>12. {log'[n].key : n \in p + 1 .. b - 1} = KeysBetween(p, b)
    BY <2>11 DEF KeysBetween
  <2>13. CrowdedOut(log[j].key, i, j)'
    BY <2>7, <2>10, <2>11, <2>12, <1>2, <1>4 DEF CrowdedOut
  <2> QED BY <2>13, <2>5 DEF W
<1>5. ASSUME NEW j \in DOMAIN log' PROVE j \in 1 .. L \/ j = L + 1
  BY <1>2
<1> QED
  BY <1>3, <1>4, <1>5 DEF QuotaUnlessCrowdedOut

\* What speaks of the dict and the log alone does not change with the clock.
LEMMA LogOnly ==
  ASSUME LocalInv, events' = events, log' = log
  PROVE  /\ InOrder' /\ Forgotten' /\ QuotaUnlessCrowdedOut'
         /\ \A c, b : Starts(c, b)' <=> Starts(c, b)
<1>1. \A c, p : LastCalled(c, p)' <=> LastCalled(c, p)
  BY DEF LastCalled
<1>2. \A p, q : KeysBetween(p, q)' = KeysBetween(p, q)
  BY DEF KeysBetween
<1>3. InOrder'
  BY <1>1 DEF LocalInv, InOrder
<1>4. Tracked' = Tracked
  BY DEF Tracked
<1>5. \A p : KeysBetween(p, Len(log) + 1)' = KeysBetween(p, Len(log) + 1)
  BY DEF KeysBetween
<1>6. Forgotten'
  BY <1>1, <1>4, <1>5 DEF LocalInv, Forgotten
<1>7. \A c, b : Starts(c, b)' <=> Starts(c, b)
  BY <1>2 DEF Starts
<1>8. \A j : SharesWindow(j)' = SharesWindow(j)
  BY DEF SharesWindow
<1>10. \A i, j : CrowdedOut(log[j].key, i, j)' <=> CrowdedOut(log[j].key, i, j)
  BY DEF CrowdedOut
<1>11. QuotaUnlessCrowdedOut'
  BY <1>8, <1>10 DEF LocalInv, QuotaUnlessCrowdedOut
<1> QED
  BY <1>3, <1>6, <1>7, <1>11

\* The in-process fallback forgets only what a crowd pushed out, for any keys,
\* limit, window and number of deques.
THEOREM FallbackForgetsOnlyCrowdedOut == LocalSpec => []QuotaUnlessCrowdedOut
<1>1. LocalInit => LocalInv
  <2> SUFFICES ASSUME LocalInit PROVE LocalInv
    OBVIOUS
  <2>1. now = 0 /\ events = << >> /\ log = << >> /\ Len(events) = 0
        /\ DOMAIN events = {} /\ DOMAIN log = {}
    BY DEF LocalInit
  <2>2. LocalTypes
    BY <2>1 DEF LocalTypes
  <2>3. OneDeque /\ InOrder /\ Forgotten /\ Remembered /\ QuotaUnlessCrowdedOut
    BY <2>1, LocalLimiterAssumption
    DEF OneDeque, InOrder, Forgotten, Remembered, QuotaUnlessCrowdedOut
  <2> QED BY <2>2, <2>3 DEF LocalInv
<1>2. LocalInv /\ [LocalNext]_localVars => LocalInv'
  <2> SUFFICES ASSUME LocalInv, [LocalNext]_localVars PROVE LocalInv'
    OBVIOUS
  <2>1. LocalTypes /\ OneDeque
    BY DEF LocalInv
  <2>2. ASSUME NEW k \in LocalKeys, Allow(k) PROVE LocalInv'
    <3>1. LocalTypes'
      BY <2>1, <2>2, LogGrows, DictMoves DEF LocalTypes
    <3>2. OneDeque'
      <4> DEFINE N == Len(Others(k))
      <4>1. /\ N \in Nat /\ DOMAIN events' = 1 .. N + 1 /\ Len(events') = N + 1 /\ N + 1 <= MaxKeys
            /\ events'[N + 1].key = k
            /\ \A n \in 1 .. N : /\ events'[n] = events[WasAt(k, n)]
                                 /\ WasAt(k, n) \in DOMAIN events
                                 /\ events[WasAt(k, n)].key # k
            /\ \A m, n \in 1 .. N : m < n => WasAt(k, m) < WasAt(k, n)
        BY <2>1, <2>2, DictMoves
      <4> HIDE DEF N
      <4>2. ASSUME NEW m \in 1 .. N, NEW n \in 1 .. N, m # n
            PROVE  events'[m].key # events'[n].key
        <5>1. WasAt(k, m) \in DOMAIN events /\ WasAt(k, n) \in DOMAIN events
              /\ DOMAIN events = 1 .. Len(events)
          BY <4>1, <2>1 DEF LocalTypes
        <5>2. WasAt(k, m) # WasAt(k, n)
          <6>1. m < n \/ n < m
            BY <4>2
          <6> QED BY <6>1, <5>1, <4>1
        <5> QED BY <5>1, <5>2, <4>1, <2>1 DEF OneDeque
      <4>3. ASSUME NEW m \in 1 .. N + 1, NEW n \in 1 .. N + 1, events'[m].key = events'[n].key
            PROVE  m = n
        <5>1. \A x \in 1 .. N + 1 : x \in 1 .. N \/ x = N + 1
          BY <4>1
        <5> QED BY <5>1, <4>1, <4>2, <4>3
      <4> QED BY <4>1, <4>3 DEF OneDeque
    <3> QED
      BY <3>1, <3>2, <2>2, InOrderStays, ForgottenStays, RememberedStays, QuotaStays DEF LocalInv
  <2>3. CASE LocalTick
    <3>1. now' = now + 1 /\ events' = events /\ log' = log
      BY <2>3 DEF LocalTick
    <3>2. now \in Nat /\ now' \in Nat /\ \A t \in Nat : t >= now' => t >= now
      BY <3>1, <2>1 DEF LocalTypes
    <3>3. LocalTypes' /\ OneDeque'
      BY <2>1, <3>1, <3>2 DEF LocalTypes, OneDeque
    <3>4. Remembered'
      <4>1. ASSUME NEW n \in DOMAIN events
            PROVE  \E b \in DOMAIN log :
                      /\ Starts(events[n].key, b)
                      /\ \A t \in Nat : t >= now' =>
                            Cardinality(AdmittedSince(events[n].key, b, t))
                                <= Cardinality(StillCounted(events[n].times, t))
        BY <3>2 DEF LocalInv, Remembered
      <4>2. \A c, b, t : AdmittedSince(c, b, t)' = AdmittedSince(c, b, t)
        BY <3>1 DEF AdmittedSince
      <4>3. \A c, b : Starts(c, b)' <=> Starts(c, b)
        BY <3>1, LogOnly
      <4> QED BY <3>1, <4>1, <4>2, <4>3 DEF Remembered
    <3> QED BY <3>1, <3>3, <3>4, LogOnly DEF LocalInv
  <2>4. CASE UNCHANGED localVars
    <3>1. now' = now /\ events' = events /\ log' = log
      BY <2>4 DEF localVars
    <3>2. LocalTypes' /\ OneDeque'
      BY <2>1, <3>1 DEF LocalTypes, OneDeque
    <3>3. Remembered'
      <4>1. \A c, b, t : AdmittedSince(c, b, t)' = AdmittedSince(c, b, t)
        BY <3>1 DEF AdmittedSince
      <4>2. \A c, b : Starts(c, b)' <=> Starts(c, b)
        BY <3>1, LogOnly
      <4> QED BY <3>1, <4>1, <4>2 DEF LocalInv, Remembered
    <3> QED BY <3>1, <3>2, <3>3, LogOnly DEF LocalInv
  <2> QED
    BY <2>2, <2>3, <2>4 DEF LocalNext
<1>3. LocalInv => QuotaUnlessCrowdedOut
  BY DEF LocalInv
<1> QED
  BY <1>1, <1>2, <1>3, PTL DEF LocalSpec
=============================================================================

---------------------------- MODULE RateLimiter ----------------------------
(***************************************************************************)
(* security.py's PostgresRateLimiter: a sliding window per key, kept as    *)
(* rows of one table that every replica shares.  Each limiter object runs  *)
(* one transaction at a time (its mutex): it may sweep rows past retention *)
(* under a lock it only tries for, then locks its key, prunes the key,     *)
(* checks the table's capacity, counts the key and inserts.                *)
(*                                                                         *)
(* The store is PostgreSQL at READ COMMITTED: now() is the transaction's   *)
(* start, deletes of a transaction show to others when it commits, and a   *)
(* delete waits for a rival's uncommitted delete of the same row.          *)
(***************************************************************************)
EXTENDS Integers, FiniteSets

CONSTANTS
    Limiters,     \* limiter objects: two in every API process
    Keys,         \* callers
    Limit,        \* Limit[k]: admissions of k per window
    Window,       \* window_seconds
    Retention,    \* retention_seconds: twice the window
    MaxRows,      \* the row cap; 0 is no cap
    MaxSweep,     \* rows one sweep deletes at most
    MaxDelay,     \* time a transaction can last; the code sets no bound
    MaxTime,      \* bound: the clock
    MaxCalls,     \* bound: calls of allow()
    None

ASSUME LimiterAssumption ==
    /\ IsFiniteSet(Limiters)
    /\ Limit \in [Keys -> Nat]
    /\ Window \in Nat /\ Retention \in Nat /\ MaxDelay \in Nat
    /\ MaxDelay <= Window /\ Window <= Retention
    /\ MaxRows \in Nat /\ MaxSweep \in Nat
    /\ MaxTime \in Nat /\ MaxCalls \in Nat

\* retention_factor is two: a row outlives whatever it may still be counted for.
ASSUME RetentionAssumption == 2 * Window <= Retention

VARIABLES
    clock,        \* the database's clock, and the replicas'
    rows,         \* rate_limit_events, as committed
    tx,           \* tx[l]: the transaction of limiter l, or None
    lastSweep,    \* lastSweep[l]: _last_sweep
    answers,      \* what allow() has committed; a rollback leaves no trace
    calls         \* calls so far

vars == <<clock, rows, tx, lastSweep, answers, calls>>

Calls == 1..MaxCalls
Times == 0..MaxTime

\* A row of the table, named by the call that inserted it.
Row == [call : Calls, key : Keys, at : Times]

Steps == {"sweep", "lock", "prune", "count", "decide", "limit", "admit"}

Transaction ==
    [ step : Steps, call : Calls, key : Keys, stamp : Times,
      dropped : SUBSET Row,      \* rows deleted, not yet committed
      sweeping : BOOLEAN,        \* it holds the sweep lock
      pressed : BOOLEAN ]        \* live_total >= max_rows // 2

\* "lost": admitted, but the commit's acknowledgement never came back.
Verdicts == {"allowed", "limited", "lost"}

Answer == [call : Calls, key : Keys, stamp : Times, at : Times, verdict : Verdicts]

TypeOK ==
    /\ clock \in Times
    /\ rows \subseteq Row
    /\ tx \in [Limiters -> Transaction \cup {None}]
    /\ lastSweep \in [Limiters -> Int]
    /\ answers \subseteq Answer
    /\ calls \in 0..MaxCalls

\* A monotonic clock is far past _last_sweep = 0.0 when a process starts.
Init ==
    /\ clock = 0
    /\ rows = {}
    /\ tx = [l \in Limiters |-> None]
    /\ lastSweep = [l \in Limiters |-> -Window]
    /\ answers = {}
    /\ calls = 0

-----------------------------------------------------------------------------
At(l, step) == tx[l] # None /\ tx[l].step = step

Rivals(l) == {m \in Limiters \ {l} : tx[m] # None}

\* What transaction l sees of the table: all that is committed, less its deletes.
Seen(l) == rows \ tx[l].dropped

Old(age, l) == {r \in rows : r.at < tx[l].stamp - age}

Answered(l, verdict) ==
    /\ tx' = [tx EXCEPT ![l] = None]
    /\ answers' = answers \cup
          {[ call |-> tx[l].call, key |-> tx[l].key, stamp |-> tx[l].stamp,
             at |-> clock, verdict |-> verdict ]}

\* RateLimiterUnavailable: the transaction rolls back, its deletes with it.
Unavailable(l) ==
    /\ tx' = [tx EXCEPT ![l] = None]
    /\ UNCHANGED <<clock, rows, lastSweep, answers, calls>>

\* The mutex is taken and the first statement starts the transaction.
Begin(l, k) ==
    /\ tx[l] = None
    /\ calls < MaxCalls
    /\ calls' = calls + 1
    /\ LET due == clock - lastSweep[l] >= Window IN
          /\ lastSweep' = [lastSweep EXCEPT ![l] = IF due THEN clock ELSE @]
          /\ tx' = [tx EXCEPT ![l] =
                [ step |-> IF due THEN "sweep" ELSE "lock",
                  call |-> calls + 1, key |-> k, stamp |-> clock,
                  dropped |-> {}, sweeping |-> FALSE, pressed |-> FALSE ]]
    /\ UNCHANGED <<clock, rows, answers>>

\* Rows a rival has deleted and not committed hold up a delete of them.
Contended(l, R) == \E m \in Rivals(l) : R \cap tx[m].dropped # {}

\* Batches of expired rows, whoever they belong to.
Sweepable(l) ==
    {R \in SUBSET Old(Retention, l) :
        /\ Cardinality(R) <= MaxSweep
        /\ R = Old(Retention, l) \/ Cardinality(R) = MaxSweep}

\* Mutant: any number of replicas sweep at once.
Sweep_Unlocked(l) ==
    /\ At(l, "sweep")
    /\ \E R \in Sweepable(l) :
          /\ ~Contended(l, R)
          /\ tx' = [tx EXCEPT ![l].step = "lock", ![l].dropped = R]
    /\ UNCHANGED <<clock, rows, lastSweep, answers, calls>>

Sweep(l) ==
    /\ At(l, "sweep")
    /\ \A m \in Rivals(l) : ~tx[m].sweeping
    /\ \E R \in Sweepable(l) :
          /\ ~Contended(l, R)
          /\ tx' = [tx EXCEPT ![l].step = "lock",
                              ![l].dropped = R,
                              ![l].sweeping = TRUE]
    /\ UNCHANGED <<clock, rows, lastSweep, answers, calls>>

\* pg_try_advisory_xact_lock: another replica is at it.
SkipSweep(l) ==
    /\ At(l, "sweep")
    /\ \E m \in Rivals(l) : tx[m].sweeping
    /\ tx' = [tx EXCEPT ![l].step = "lock"]
    /\ UNCHANGED <<clock, rows, lastSweep, answers, calls>>

HoldsKey(m, k) == tx[m].key = k /\ tx[m].step \notin {"sweep", "lock"}

\* Mutant: nothing serialises the replicas.
LockKey_Unlocked(l) ==
    /\ At(l, "lock")
    /\ tx' = [tx EXCEPT ![l].step = "prune"]
    /\ UNCHANGED <<clock, rows, lastSweep, answers, calls>>

LockKey(l) ==
    /\ At(l, "lock")
    /\ \A m \in Rivals(l) : ~HoldsKey(m, tx[l].key)
    /\ tx' = [tx EXCEPT ![l].step = "prune"]
    /\ UNCHANGED <<clock, rows, lastSweep, answers, calls>>

Prunable(l) == {r \in Old(Window, l) \ tx[l].dropped : r.key = tx[l].key}

Prune(l) ==
    /\ At(l, "prune")
    /\ ~Contended(l, Prunable(l))
    /\ tx' = [tx EXCEPT ![l].step = "count",
                        ![l].dropped = @ \cup Prunable(l)]
    /\ UNCHANGED <<clock, rows, lastSweep, answers, calls>>

LiveTotal(l) == Cardinality({r \in Seen(l) : r.at >= tx[l].stamp - Retention})

AtCapacity(l) == MaxRows > 0 /\ LiveTotal(l) >= MaxRows

Refuse(l) ==
    /\ At(l, "count")
    /\ AtCapacity(l)
    /\ Unavailable(l)

\* Mutant: new keys are admitted until the table is full.
Count_PressedAtCap(l) ==
    /\ At(l, "count")
    /\ ~AtCapacity(l)
    /\ tx' = [tx EXCEPT ![l].step = "decide",
                        ![l].pressed = MaxRows > 0 /\ LiveTotal(l) >= MaxRows]
    /\ UNCHANGED <<clock, rows, lastSweep, answers, calls>>

Count(l) ==
    /\ At(l, "count")
    /\ ~AtCapacity(l)
    /\ tx' = [tx EXCEPT ![l].step = "decide",
                        ![l].pressed = MaxRows > 0 /\ LiveTotal(l) >= MaxRows \div 2]
    /\ UNCHANGED <<clock, rows, lastSweep, answers, calls>>

\* Mutant: prune and count share a snapshot, so the count sees what was pruned.
LiveForKey_SameSnapshot(l) == Cardinality({r \in rows : r.key = tx[l].key})

LiveForKey(l) == Cardinality({r \in Seen(l) : r.key = tx[l].key})

Admitted(l) == LiveForKey(l) < Limit[tx[l].key]

Novel(l) == Admitted(l) /\ LiveForKey(l) = 0 /\ tx[l].pressed

RefuseNovel(l) ==
    /\ At(l, "decide")
    /\ Novel(l)
    /\ Unavailable(l)

Decide(l) ==
    /\ At(l, "decide")
    /\ ~Novel(l)
    /\ tx' = [tx EXCEPT ![l].step = IF Admitted(l) THEN "admit" ELSE "limit"]
    /\ UNCHANGED <<clock, rows, lastSweep, answers, calls>>

Limited(l) ==
    /\ At(l, "limit")
    /\ rows' = Seen(l)
    /\ Answered(l, "limited")
    /\ UNCHANGED <<clock, lastSweep, calls>>

\* The commit is acknowledged, or applied and its acknowledgement lost.
Admit(l) ==
    /\ At(l, "admit")
    /\ rows' = Seen(l) \cup
          {[call |-> tx[l].call, key |-> tx[l].key, at |-> tx[l].stamp]}
    /\ \E verdict \in {"allowed", "lost"} : Answered(l, verdict)
    /\ UNCHANGED <<clock, lastSweep, calls>>

\* The store goes away, or the replica does, or it breaks a deadlock.
Fail(l) ==
    /\ tx[l] # None
    /\ Unavailable(l)

Waits(l, m) ==
    /\ l # m /\ tx[l] # None /\ tx[m] # None
    /\ \/ At(l, "sweep") /\ ~tx[m].sweeping
             /\ Old(Retention, l) \cap tx[m].dropped # {}
       \/ At(l, "lock") /\ HoldsKey(m, tx[l].key)
       \/ At(l, "prune") /\ Prunable(l) \cap tx[m].dropped # {}

Tick ==
    /\ clock < MaxTime
    /\ \A l \in Limiters : tx[l] # None => clock - tx[l].stamp < MaxDelay
    /\ clock' = clock + 1
    /\ UNCHANGED <<rows, tx, lastSweep, answers, calls>>

Next ==
    \/ Tick
    \/ \E l \in Limiters :
          \/ \E k \in Keys : Begin(l, k)
          \/ Sweep(l) \/ SkipSweep(l)
          \/ LockKey(l)
          \/ Prune(l)
          \/ Refuse(l) \/ Count(l)
          \/ RefuseNovel(l) \/ Decide(l)
          \/ Limited(l) \/ Admit(l)
          \/ Fail(l)

Spec == Init /\ [][Next]_vars

-----------------------------------------------------------------------------
(***************************************************************************)
(* Properties.                                                             *)
(***************************************************************************)

\* The rows that calls of k inserted, whoever was told so, in an interval.
Spent(k, from, to) ==
    {a \in answers : /\ a.key = k
                     /\ a.verdict \in {"allowed", "lost"}
                     /\ from <= a.at /\ a.at <= to}

\* The shared window holds whoever races, fails or waits: no key is admitted more
\* than its limit in any window, shortened by the time a transaction can last
\* (the stamp of an admission is its transaction's start, not its commit).
QuotaHolds ==
    \A k \in Keys, x \in Times :
        Cardinality(Spent(k, x, x + Window - MaxDelay)) <= Limit[k]

\* "The first request after a quiet period was wrongly rejected": a key is told it
\* is over its limit only if it did spend the limit within the last window.
RefusalsAreEarned ==
    \A a \in answers : a.verdict = "limited" =>
        Cardinality(Spent(a.key, a.at - Window - MaxDelay, a.at)) >= Limit[a.key]

Live == {r \in rows : r.at >= clock - Retention}

\* The cap is checked before the insert and not locked: limiters that pass it
\* together overshoot it, but by no more rows than there are rival limiters.  "Stop
\* admitting novel keys well before that point": a flood of new keys takes at most
\* half of the table, again but for the limiters that pass together.
CapacityIsBounded ==
    /\ MaxRows > 0 => Cardinality(Live) <= MaxRows - 1 + Cardinality(Limiters)
    /\ MaxRows > 1 =>
          Cardinality({r.key : r \in Live}) <= MaxRows \div 2 - 1 + Cardinality(Limiters)

\* "A spent quota stays spent for the whole window, whatever else the table holds."
SpentQuotaStaysSpent ==
    \A k \in Keys, x \in Times : Cardinality(Spent(k, x, x + Window)) <= Limit[k]

\* Two transactions that wait for each other are a sweeper, which has deleted stale
\* rows of its own key and waits for the key's lock, and the holder of that lock,
\* which prunes the same rows; PostgreSQL aborts one (Fail).  Nothing else deadlocks.
OnlySweepersDeadlock ==
    \A l, m \in Limiters :
        (Waits(l, m) /\ Waits(m, l)) => tx[l].sweeping \/ tx[m].sweeping
=============================================================================

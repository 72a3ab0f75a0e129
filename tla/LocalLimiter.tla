---------------------------- MODULE LocalLimiter ----------------------------
(***************************************************************************)
(* security.py's SlidingWindowRateLimiter, the fallback inside a process:  *)
(* a deque of times per key in an OrderedDict, least recently active key   *)
(* first, and a lock around every call.  At maxKeys keys the first one is  *)
(* evicted, and what it had spent with it.                                 *)
(***************************************************************************)
EXTENDS Naturals, Sequences, SequencesExt, FiniteSets, FiniteSetsExt

CONSTANTS
    LocalKeys,       \* callers
    LocalLimit, LocalWindow, MaxKeys,
    MaxNow, MaxLog   \* bounds: the clock, the calls of allow()

ASSUME LocalLimiterAssumption ==
    /\ LocalLimit \in Nat \ {0} /\ LocalWindow \in Nat \ {0}
    /\ MaxKeys \in Nat \ {0} /\ {MaxNow, MaxLog} \subseteq Nat

VARIABLES
    now,       \* time.monotonic(), in whole units
    events,    \* _events: a sequence of [key, times], in the dict's order
    log        \* history: every call, its time and its answer

localVars == << now, events, log >>

LocalInit == now = 0 /\ events = << >> /\ log = << >>

Tracked == {events[i].key : i \in DOMAIN events}
Place(k) == CHOOSE i \in DOMAIN events : events[i].key = k
TimesOf(k) == events[Place(k)].times

\* _evict_if_needed: popitem(last=False).
Evicts(k) == k \notin Tracked /\ Len(events) >= MaxKeys

\* What remains of the key's deque once those past the window have left it at
\* the front, and of the other keys, before the answer.
Unexpired(times) == {i \in DOMAIN times : times[i] + LocalWindow > now}

Remaining(k) ==
    IF k \in Tracked /\ Unexpired(TimesOf(k)) # {}
    THEN SubSeq(TimesOf(k), Min(Unexpired(TimesOf(k))), Len(TimesOf(k)))
    ELSE << >>

Others(k) ==
    IF k \in Tracked THEN RemoveAt(events, Place(k))
    ELSE IF Evicts(k) THEN Tail(events) ELSE events

\* Mutant: a key moves to the end only when it is admitted.
Reordered_OnAdmission(k, times) ==
    IF Len(times) > Len(Remaining(k)) THEN Append(Others(k), [key |-> k, times |-> times])
    ELSE << [key |-> k, times |-> times] >> \o Others(k)

\* move_to_end comes before the decision: a refused key is active too.
Reordered(k, times) == Append(Others(k), [key |-> k, times |-> times])

Allow(k) ==
    LET ok == Len(Remaining(k)) < LocalLimit IN
    /\ Len(log) < MaxLog
    /\ events' = Reordered(k, IF ok THEN Append(Remaining(k), now) ELSE Remaining(k))
    /\ log' = Append(log, [key |-> k, at |-> now, ok |-> ok])
    /\ UNCHANGED now

LocalTick ==
    /\ now < MaxNow
    /\ now' = now + 1
    /\ UNCHANGED << events, log >>

LocalNext == (\E k \in LocalKeys : Allow(k)) \/ LocalTick
LocalSpec == LocalInit /\ [][LocalNext]_localVars

-----------------------------------------------------------------------------
(* Properties *)

\* The admissions that share a window with call j, up to it.
SharesWindow(j) ==
    {i \in 1 .. j : /\ log[i].key = log[j].key /\ log[i].ok
                    /\ log[i].at + LocalWindow > log[j].at}

\* MaxKeys other keys called between two calls in a row of k: k was evicted.
CrowdedOut(k, i, j) ==
    \E p, q \in i .. j :
        /\ p < q
        /\ \A n \in p + 1 .. q - 1 : log[n].key # k
        /\ Cardinality({log[n].key : n \in p + 1 .. q - 1}) >= MaxKeys

\* A quota is spent early only by a key that a crowd pushed out: within one
\* window a key is admitted over its limit only if, between two of its calls,
\* refused ones included, at least MaxKeys other keys were active.
QuotaUnlessCrowdedOut ==
    \A j \in DOMAIN log :
        (log[j].ok /\ Cardinality(SharesWindow(j)) > LocalLimit)
            => \E i \in SharesWindow(j) : CrowdedOut(log[j].key, i, j)
=============================================================================

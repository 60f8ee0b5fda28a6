------------------------------ MODULE RateLedger ------------------------------
(***************************************************************************)
(* Requests allowed per fixed minute, per key and in all, in categories    *)
(* that share one clock (fixed-minute-rate-ledger.ts).  The first reading  *)
(* that cannot be right, and the first call from inside a reading, freezes *)
(* every category for good.                                                *)
(***************************************************************************)
EXTENDS Integers, FiniteSets

CONSTANTS Categories,
          RateKeys,      \* accounts, sources or login names
          PerKey,        \* [Categories -> allowance of a key in a minute]
          InAll,         \* [Categories -> allowance of all keys in a minute]
          MaxKeys,       \* [Categories -> keys in a minute, or 0 = any number]
          MinuteLength,  \* instants in a minute
          LastReading    \* the clock may read 0..LastReading

ASSUME RateAssumption ==
    /\ PerKey \in [Categories -> Nat \ {0}]
    /\ InAll \in [Categories -> Nat \ {0}]
    /\ MaxKeys \in [Categories -> Nat]
    /\ MinuteLength \in Nat \ {0} /\ LastReading \in Nat

VARIABLES minute,   \* category -> the minute it counts in, -1 = none yet
          tally,   \* category -> key -> allowed in that minute
          inAll,   \* category -> allowed in that minute to all keys
          lastNow,  \* the last reading of the clock, -1 = none yet
          frozen,
          granted   \* requests ever allowed: the nth of a key in a minute

rateVars == <<minute, tally, inAll, lastNow, frozen, granted>>

MinuteOf(now) == now \div MinuteLength

NoCounts == [k \in RateKeys |-> 0]

RateInit ==
    /\ minute = [c \in Categories |-> -1]
    /\ tally = [c \in Categories |-> NoCounts]
    /\ inAll = [c \in Categories |-> 0]
    /\ lastNow = -1
    /\ frozen = FALSE
    /\ granted = {}

\* Mutant of Afresh: the minute is taken from the shared clock, so a
\* category others were served before in this minute keeps its old counts.
AfreshShared(c, now) == lastNow = -1 \/ MinuteOf(now) > MinuteOf(lastNow)

\* A later minute of this category, or its first one.
Afresh(c, now) == MinuteOf(now) > minute[c]

\* The three refusals, in their order; they count nothing.
Spent(c, key, count, total) ==
    \/ /\ MaxKeys[c] > 0 /\ count[key] = 0
       /\ Cardinality({k \in RateKeys : count[k] > 0}) >= MaxKeys[c]
    \/ total >= InAll[c]
    \/ count[key] >= PerKey[c]

\* allow(key) on a reading that is no earlier than the one before.
Allow(c, key, now) ==
    /\ ~frozen
    /\ now >= lastNow
    /\ LET count == IF Afresh(c, now) THEN NoCounts ELSE tally[c]
           total == IF Afresh(c, now) THEN 0 ELSE inAll[c]
           one   == IF Spent(c, key, count, total) THEN 0 ELSE 1
       IN  /\ minute' = [minute EXCEPT ![c] = MinuteOf(now)]
           /\ tally' = [tally EXCEPT ![c] = [count EXCEPT ![key] = @ + one]]
           /\ inAll' = [inAll EXCEPT ![c] = total + one]
           /\ granted' = IF one = 0 THEN granted
                         ELSE granted \cup {[category |-> c, minute |-> MinuteOf(now),
                                             key |-> key, nth |-> count[key] + 1]}
    /\ lastNow' = now
    /\ UNCHANGED frozen

\* readGuardedClock: the clock throws, reads nonsense or steps back, or calls
\* the ledger while it is read.
ClockFails ==
    /\ ~frozen
    /\ frozen' = TRUE
    /\ UNCHANGED <<minute, tally, inAll, lastNow, granted>>

RateNext ==
    \/ \E c \in Categories, k \in RateKeys, now \in 0..LastReading : Allow(c, k, now)
    \/ ClockFails

RateSpec == RateInit /\ [][RateNext]_rateVars

\* What was allowed in any minute of any category is within its allowances,
\* and what the category counts against a request is what it allowed in that
\* minute: refused requests, other minutes and other categories cost nothing
\* (allow, with counters that are reset lazily under one clock).
AllowancesHold ==
    \A c \in Categories :
        /\ \A g \in {x \in granted : x.category = c} :
             LET then == {x \in granted : x.category = c /\ x.minute = g.minute}
             IN  /\ Cardinality(then) <= InAll[c]
                 /\ Cardinality({x \in then : x.key = g.key}) <= PerKey[c]
                 /\ MaxKeys[c] > 0 => Cardinality({x.key : x \in then}) <= MaxKeys[c]
        /\ LET now == {x \in granted : x.category = c /\ x.minute = minute[c]}
           IN  /\ inAll[c] = Cardinality(now)
               /\ \A k \in RateKeys :
                    tally[c][k] = Cardinality({x \in now : x.key = k})
=============================================================================

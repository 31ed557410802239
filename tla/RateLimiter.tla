----------------------------- MODULE RateLimiter -----------------------------
(***************************************************************************)
(* RateLimitMiddleware: a token bucket per client address.                 *)
(*                                                                         *)
(* The unit of time is the time in which one unit of credit accrues and a  *)
(* request costs Cost units, so that a fraction of a token is a number of  *)
(* units.  A bucket is a level and the moment it was last touched; a       *)
(* client without one is taken to have a full one.  Buckets idle for more  *)
(* than IdleEvict are pruned when more than MaxTracked clients are known,  *)
(* and only after a request that was let through.                          *)
(***************************************************************************)
EXTENDS Integers, FiniteSets

CONSTANTS Clients, Cost, Burst, IdleEvict, MaxTracked,
          MaxTime \* the clock stops here

\* A pruned bucket must have filled up by itself: 100 tokens take 10 s at 600
\* requests a minute, buckets are pruned after 300 s.
ASSUME Limits ==
  /\ Cost \in Nat \ {0} /\ Burst \in Nat /\ IdleEvict \in Nat
  /\ MaxTracked \in Nat /\ MaxTime \in Nat
  /\ Cost <= Burst /\ Burst <= IdleEvict

VARIABLES
  clock,
  tracked, \* clients that have a bucket
  level, last,
  spent,   \* credit used by the requests let through (history)
  told     \* per refused client: when Retry-After says to come back (history)

limiterVars == <<clock, tracked, level, last, spent, told>>

NotTold == -1

LimiterInit ==
  /\ clock = 0
  /\ tracked = {}
  /\ level = [c \in Clients |-> 0] /\ last = [c \in Clients |-> 0]
  /\ spent = [c \in Clients |-> 0]
  /\ told = [c \in Clients |-> NotTold]

Elapses ==
  /\ clock < MaxTime
  /\ clock' = clock + 1
  /\ UNCHANGED <<tracked, level, last, spent, told>>

Least(a, b) == IF a <= b THEN a ELSE b
Level(c) == IF c \in tracked THEN Least(Burst, level[c] + (clock - last[c])) ELSE Burst

Touch(c, left) ==
  /\ level' = [level EXCEPT ![c] = left]
  /\ last' = [last EXCEPT ![c] = clock]

\* Too little for a request: 429, with the time until there is enough.
Refuse(c) ==
  /\ Level(c) < Cost
  /\ Touch(c, Level(c))
  /\ tracked' = tracked \cup {c}
  /\ told' = [told EXCEPT ![c] = clock + (Cost - Level(c))]
  /\ UNCHANGED <<clock, spent>>

\* Slip: a bucket is pruned before it can have filled up.
FreshNow(c) == last'[c] = clock

StillFresh(c) == clock - last'[c] <= IdleEvict

Allow(c) ==
  /\ Level(c) >= Cost
  /\ Touch(c, Level(c) - Cost)
  /\ tracked' = IF Cardinality(tracked \cup {c}) > MaxTracked
                  THEN {k \in tracked \cup {c} : StillFresh(k)} ELSE tracked \cup {c}
  /\ spent' = [spent EXCEPT ![c] = @ + Cost]
  /\ told' = [told EXCEPT ![c] = NotTold]
  /\ UNCHANGED clock

LimiterNext == Elapses \/ \E c \in Clients : Refuse(c) \/ Allow(c)

LimiterSpec == LimiterInit /\ [][LimiterNext]_limiterVars

LimiterTypeOK ==
  /\ clock \in Nat
  /\ tracked \subseteq Clients
  /\ level \in [Clients -> Int] /\ last \in [Clients -> Nat]
  /\ spent \in [Clients -> Nat] /\ told \in [Clients -> Int]

(***************************************************************************)
(* No client is let through more often than its burst and the steady rate  *)
(* together allow, however its requests are spread, whatever is pruned     *)
(* while it is idle.                                                       *)
(***************************************************************************)
WithinTheLimit == \A c \in Clients : spent[c] <= Burst + clock

(***************************************************************************)
(* Retry-After is honest: a refused client that waits as long as it was    *)
(* told is let through.                                                    *)
(***************************************************************************)
RetryAfterIsHonest ==
  \A c \in Clients : told[c] # NotTold /\ clock >= told[c] => Level(c) >= Cost
=============================================================================

---------------------------- MODULE RateLimiter ----------------------------
(***************************************************************************)
(* The per-IP rate limit of the API, as one client meets it: a sliding     *)
(* window in each instance of the app, or a counter per minute that the    *)
(* instances share in Redis, with the former for a fallback whenever Redis *)
(* does not answer.  The middleware runs on the event loop and awaits      *)
(* nothing before it decides: a decision is one step of its instance.      *)
(*                                                                         *)
(* Other clients matter to this one only through _RL, which forgets the    *)
(* least recently seen client when there are too many.                     *)
(***************************************************************************)
EXTENDS SequencesExt

CONSTANTS
  Instances, \* instances of the app
  Limit,     \* api.rate_limit_per_min
  Window,    \* the 60 seconds, in ticks
  Second,    \* one second, in ticks
  MaxIPs     \* _RL_MAX_IPS

ASSUME LimiterConstants ==
  /\ IsFiniteSet(Instances) /\ {Limit, Second, MaxIPs} \subseteq Nat \ {0}
  /\ Window \in Nat \ {0} /\ Window % Second = 0

VARIABLES
  shared, \* is REDIS_URL set?  Fixed for the deployment
  phase,  \* ticks since the minute began
  count,  \* the client's counter of this minute in Redis; above Limit all are alike
  ttl,    \* ticks until that key expires
  hits,   \* _RL[ip] of each instance: the ages of its hits, oldest first
  ahead,  \* clients each instance saw after this one; 0 once it has no hits
  served  \* history: the ages of the requests let through since a store last
          \* lost hits of this client, oldest first

limiterVars == <<shared, phase, count, ttl, hits, ahead, served>>

Ages == 0 .. Window

LimiterInit ==
  /\ shared \in BOOLEAN
  /\ phase = 0 /\ count = 0 /\ ttl = 0
  /\ hits = [i \in Instances |-> <<>>] /\ ahead = [i \in Instances |-> 0]
  /\ served = <<>>

Admit == served' = Append(served, 0)
-----------------------------------------------------------------------------
(* Slip: the deque has a maximal length and takes every request.           *)
InProcessMaxLen(i) ==
  /\ IF Len(hits[i]) >= Limit
     THEN hits' = [hits EXCEPT ![i] = Append(Tail(@), 0)] /\ UNCHANGED served
     ELSE hits' = [hits EXCEPT ![i] = Append(@, 0)] /\ Admit
  /\ ahead' = [ahead EXCEPT ![i] = 0]

(* _inprocess_rate_limited.  Hits older than the window are gone already,  *)
(* see Tick; a hit of exactly its length still counts.                     *)
InProcess(i) ==
  /\ IF Len(hits[i]) >= Limit
     THEN UNCHANGED <<hits, served>>
     ELSE hits' = [hits EXCEPT ![i] = Append(@, 0)] /\ Admit
  /\ ahead' = [ahead EXCEPT ![i] = 0]

(* _RL_LUA: INCR, and EXPIRE with the first of the minute.                 *)
Incr ==
  /\ count' = Min({count + 1, Limit + 1})
  /\ ttl' = IF count = 0 THEN Window ELSE ttl

(* Slip: a request that Redis failed to count goes through.                *)
AskAfterFailureOpen(i) ==
  /\ shared
  /\ Incr \/ UNCHANGED <<count, ttl>>
  /\ Admit
  /\ UNCHANGED <<shared, phase, hits, ahead>>

(* A request when Redis raises: before the counter is incremented, after   *)
(* it, or on TTL when the counter said no.  The instance decides alone.    *)
AskAfterFailure(i) ==
  /\ shared
  /\ Incr \/ UNCHANGED <<count, ttl>>
  /\ InProcess(i)
  /\ UNCHANGED <<shared, phase>>

(* A request when Redis answers: _redis_rate_limited.                      *)
AskRedis ==
  /\ shared
  /\ Incr
  /\ IF count < Limit THEN Admit ELSE UNCHANGED served
  /\ UNCHANGED <<shared, phase, hits, ahead>>

AskInstance(i) ==
  /\ ~ shared
  /\ InProcess(i)
  /\ UNCHANGED <<shared, phase, count, ttl>>
-----------------------------------------------------------------------------
(* Another client comes to an instance.  If all others were already seen   *)
(* after this one and it is one too many, this one is forgotten.           *)
OtherClient(i) ==
  /\ hits[i] # <<>>
  /\ IF ahead[i] = MaxIPs - 1
     THEN /\ hits'  = [hits EXCEPT ![i] = <<>>]
          /\ ahead' = [ahead EXCEPT ![i] = 0]
          /\ served' = <<>>
     ELSE /\ ahead' = [ahead EXCEPT ![i] = @ + 1]
          /\ UNCHANGED <<hits, served>>
  /\ UNCHANGED <<shared, phase, count, ttl>>

(* An instance restarts, or Redis does without its data.                   *)
Restart(i) ==
  /\ hits' = [hits EXCEPT ![i] = <<>>] /\ ahead' = [ahead EXCEPT ![i] = 0]
  /\ served' = <<>>
  /\ UNCHANGED <<shared, phase, count, ttl>>

RedisRestart ==
  /\ shared
  /\ count' = 0 /\ ttl' = 0 /\ served' = <<>>
  /\ UNCHANGED <<shared, phase, hits, ahead>>

(* The oldest hits that a tick puts out of the window ...                  *)
Gone(ages) == Max({0} \cup {k \in DOMAIN ages : ages[k] >= Window})

(* ... and the others, a tick older.                                       *)
Older(ages) ==
  LET n == Gone(ages) IN [k \in 1 .. Len(ages) - n |-> ages[k + n] + 1]

(* Time passes; with a new minute comes a new key, of no hits.             *)
Tick ==
  /\ phase' = (phase + 1) % Window
  /\ count' = IF phase' = 0 THEN 0 ELSE count
  /\ ttl' = IF phase' = 0 THEN 0 ELSE Max({ttl - 1, 0})
  /\ hits' = [i \in Instances |-> Older(hits[i])]
  /\ ahead' = [i \in Instances |-> IF hits'[i] = <<>> THEN 0 ELSE ahead[i]]
  /\ served' = Older(served)
  /\ UNCHANGED shared

LimiterNext ==
  \/ AskRedis \/ RedisRestart \/ Tick
  \/ \E i \in Instances : AskAfterFailure(i) \/ AskInstance(i) \/ OtherClient(i) \/ Restart(i)

(* Nobody has to ask; time passes.                                         *)
LimiterSpec == LimiterInit /\ [][LimiterNext]_limiterVars /\ WF_limiterVars(Tick)
-----------------------------------------------------------------------------
(* Slip: the seconds until the newest hit's half of the window is over.    *)
RetryHintShort(oldest) == Max({1, (Window - oldest) \div (2 * Second)})

(* The Retry-After of a refusal: the whole seconds until the oldest hit    *)
(* leaves the window, at least one ...                                     *)
RetryHint(oldest) == Max({1, (Window - oldest) \div Second})

(* ... or what TTL answers, in seconds to the nearest; a useless answer    *)
(* means a minute.                                                         *)
RedisHint ==
  LET seconds == (2 * ttl + Second) \div (2 * Second) IN
  IF seconds > 0 THEN seconds ELSE Window \div Second

(* "memory can't grow without limit": neither clients nor hits.            *)
LimiterTypeOK ==
  /\ shared \in BOOLEAN /\ phase \in 0 .. Window - 1
  /\ count \in 0 .. Limit + 1 /\ ttl \in Ages
  /\ hits \in [Instances -> Seq(Ages)] /\ \A i \in Instances : Len(hits[i]) <= Limit
  /\ ahead \in [Instances -> 0 .. MaxIPs - 1]
  /\ served \in Seq(Ages)

Counting == {i \in Instances : hits[i] # <<>>}

(* However Redis comes and goes, every request that is let through is      *)
(* counted somewhere: in any 60 seconds no more than the limit in each     *)
(* instance that decided alone, and in each of the two minutes of Redis    *)
(* they touch.  One instance without Redis keeps to the limit exactly.     *)
CapHolds == Len(served) <= Limit * (Cardinality(Counting) + IF shared THEN 2 ELSE 0)

(* Retry-After is right to within a second: a client that is refused and   *)
(* comes back a second after it was told to is let through by the store    *)
(* that refused it, if it did nothing else.                                *)
HintSuffices ==
  /\ \A i \in Instances : Len(hits[i]) >= Limit =>
       LET later == (RetryHint(hits[i][1]) + 1) * Second IN
       Cardinality({k \in DOMAIN hits[i] : hits[i][k] + later <= Window}) < Limit
  /\ count > Limit => phase + (RedisHint + 1) * Second >= Window

(* No client is throttled forever (the reason for _RL_LUA's atomic EXPIRE) *)
(* however often it asks: every store is ready to let it through again.    *)
NotForever ==
  /\ []<>(count < Limit)
  /\ \A i \in Instances : []<>(Len(hits[i]) < Limit)
=============================================================================

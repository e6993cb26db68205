--------------------------- MODULE CachedCompute ---------------------------
(***************************************************************************)
(* Threads that share one TTLCache through get_or_compute, the way request *)
(* threads share embedding_cache through LocalEmbedder.get_embeddings.     *)
(* The lookup and the store are two critical sections; between them the    *)
(* thread computes unlocked (a remote embedding call, retried on failure), *)
(* so any number of threads may compute one key, and entries may expire,   *)
(* be evicted or be cleared meanwhile.  The hit and miss statistics, which *)
(* nothing reads back, are left out.                                       *)
(***************************************************************************)
EXTENDS TTLCache

CONSTANTS
  Threads,    \* threads that call get_or_compute
  Keys,       \* cache keys: one per (model, text)
  Versions,   \* what distinguishes two results computed for one key
  NoVal,      \* Python's None
  MaxSize,    \* TTLCache.maxsize
  TTL,        \* TTLCache.ttl, in ticks
  Attempts    \* the attempts of @retry around the remote call

ASSUME MaxSizePositive == MaxSize \in Nat \ {0}
ASSUME TTLNatural      == TTL \in Nat
ASSUME AttemptsPositive == Attempts \in Nat \ {0}
ASSUME NoValIsNoResult == NoVal \notin Keys \X Versions

VARIABLES
  store,      \* TTLCache._store
  pc,         \* where each thread is in get_or_compute
  key,        \* its argument
  cached,     \* its local `cached`: what the lookup replied
  value,      \* its local `value`: what it computed
  tries,      \* calls of the remote function it has made
  recency     \* history: the keys by last use, least recent first

vars == <<store, pc, key, cached, value, tries, recency>>

(* A computed result names the key it was computed for.                    *)
Vals == Keys \X Versions

LastUse(k) == CHOOSE n \in DOMAIN recency : recency[n] = k

Used(k) ==
  Append(IF k \in ToSet(recency) THEN RemoveAt(recency, LastUse(k)) ELSE recency, k)

Goto(t, from, to) == pc[t] = from /\ pc' = [pc EXCEPT ![t] = to]

Init ==
  /\ store = <<>>
  /\ pc     = [t \in Threads |-> "idle"]
  /\ key    \in [Threads -> Keys]
  /\ cached = [t \in Threads |-> NoVal]
  /\ value  = [t \in Threads |-> NoVal]
  /\ tries  = [t \in Threads |-> 0]
  /\ recency = <<>>

(* A thread calls get_or_compute(k, compute).                              *)
Call(t, k) ==
  /\ Goto(t, "idle", "get")
  /\ key'   = [key EXCEPT ![t] = k]
  /\ value' = [value EXCEPT ![t] = NoVal]
  /\ tries' = [tries EXCEPT ![t] = 0]
  /\ UNCHANGED <<store, cached, recency>>

(* TTLCache.get, hit: the value is returned to the caller.                 *)
GetHit(t) ==
  /\ Hit(store, key[t], TTL)
  /\ Goto(t, "get", "return")
  /\ cached' = [cached EXCEPT ![t] = ValueAt(store, key[t])]
  /\ store'  = AfterGet(store, key[t], TTL)
  /\ recency' = Used(key[t])
  /\ UNCHANGED <<key, value, tries>>

(* TTLCache.get, miss: the key is absent, or its entry expired and goes.   *)
GetMiss(t) ==
  /\ ~ Hit(store, key[t], TTL)
  /\ Goto(t, "get", "compute")
  /\ cached' = [cached EXCEPT ![t] = NoVal]
  /\ store'  = AfterGet(store, key[t], TTL)
  /\ UNCHANGED <<key, value, tries, recency>>

(* The remote call succeeds.                                               *)
ComputeOk(t) ==
  /\ Goto(t, "compute", "set")
  /\ \E v \in Versions : value' = [value EXCEPT ![t] = <<key[t], v>>]
  /\ tries' = [tries EXCEPT ![t] = @ + 1]
  /\ UNCHANGED <<store, key, cached, recency>>

(* Slip: the last failure is cached as a missing value.                    *)
ComputeFailCached(t) ==
  /\ tries' = [tries EXCEPT ![t] = @ + 1]
  /\ Goto(t, "compute", IF tries[t] + 1 = Attempts THEN "set" ELSE "compute")
  /\ UNCHANGED <<store, key, cached, value, recency>>

(* The remote call raises: another attempt, or the last error propagates.  *)
ComputeFail(t) ==
  /\ tries' = [tries EXCEPT ![t] = @ + 1]
  /\ Goto(t, "compute", IF tries[t] + 1 = Attempts THEN "raised" ELSE "compute")
  /\ UNCHANGED <<store, key, cached, value, recency>>

(* Slip: the value of some other thread's computation is stored.           *)
SetAnotherValue(t) ==
  /\ Goto(t, "set", "return")
  /\ \E u \in Threads :
       value[u] # NoVal /\ store' = AfterSet(store, key[t], value[u], MaxSize)
  /\ recency' = Used(key[t])
  /\ UNCHANGED <<key, cached, value, tries>>

(* TTLCache.set.                                                           *)
SetValue(t) ==
  /\ Goto(t, "set", "return")
  /\ store'   = AfterSet(store, key[t], value[t], MaxSize)
  /\ recency' = Used(key[t])
  /\ UNCHANGED <<key, cached, value, tries>>

(* get_or_compute returns its value, or lets the error through.            *)
Return(t) ==
  /\ Goto(t, "return", "idle") \/ Goto(t, "raised", "idle")
  /\ UNCHANGED <<store, key, cached, value, tries, recency>>

(* TTLCache.clear, by any thread.                                          *)
Clear ==
  /\ store' = <<>>
  /\ UNCHANGED <<pc, key, cached, value, tries, recency>>

(* The clock advances.                                                     *)
Tick ==
  /\ store' = Aged(store, TTL)
  /\ UNCHANGED <<pc, key, cached, value, tries, recency>>

Step(t) ==
  \/ GetHit(t) \/ GetMiss(t)
  \/ ComputeOk(t) \/ ComputeFail(t)
  \/ SetValue(t) \/ Return(t)

Next ==
  \/ \E t \in Threads : Step(t) \/ \E k \in Keys : Call(t, k)
  \/ Clear
  \/ Tick

Spec == Init /\ [][Next]_vars
-----------------------------------------------------------------------------
(* What get_or_compute hands its caller.                                   *)
Returned(t) == IF cached[t] # NoVal THEN cached[t] ELSE value[t]

TypeOK ==
  /\ store \in Seq(Entry(Keys, Vals, TTL))
  /\ pc \in [Threads -> {"idle", "get", "compute", "set", "return", "raised"}]
  /\ key \in [Threads -> Keys]
  /\ cached \in [Threads -> Vals \cup {NoVal}]
  /\ value \in [Threads -> Vals \cup {NoVal}]
  /\ tries \in [Threads -> 0 .. Attempts]

(* The cache never exceeds maxsize between critical sections, and a key    *)
(* has one entry, however many threads stored it (TTLCache.set).           *)
Bounded == Len(store) <= MaxSize /\ KeysDistinct(store)

(* Whoever computed it, a value is cached under the key it was computed    *)
(* for, and a caller that returns has a value of the key it asked for.     *)
RightKey ==
  /\ \A i \in DOMAIN store : store[i].val[1] = store[i].key
  /\ \A t \in Threads : pc[t] = "return" => Returned(t)[1] = key[t]

(* Why the entry of k may be gone after a step: it had expired, the cache  *)
(* was cleared, or it made room as the one used least recently.            *)
GoesRightly(k) ==
  \/ Expired(store[Position(store, k)], TTL)
  \/ store' = <<>>
  \/ /\ Len(store') = MaxSize
     /\ \A j \in KeysOf(store') \cap KeysOf(store) : LastUse(k) < LastUse(j)

(* An unexpired entry leaves the cache only by clear, or to make room: the *)
(* cache is full and every entry that stays was used more recently, though *)
(* lookups of one thread and stores of another interleave.                 *)
EvictsLeastRecent == [][\A k \in KeysOf(store) \ KeysOf(store') : GoesRightly(k)]_vars

(* A caller is let down only after it made every attempt, and no failed    *)
(* computation is ever cached as a value.                                  *)
FailsOnlyExhausted ==
  \A t \in Threads :
    /\ pc[t] = "raised" => tries[t] = Attempts /\ value[t] = NoVal
    /\ pc[t] = "set" => value[t] # NoVal

(* What a lookup of each key would reply: the map the cache stands for.    *)
Served == [k \in Keys |-> IF Hit(store, k, TTL) THEN ValueAt(store, k) ELSE NoVal]

(* The cache is a lossy map: a lookup replies the last value stored for    *)
(* its key or nothing, never an expired, evicted or cleared one.           *)
Lossy == INSTANCE LossyMap WITH Callers <- Threads, mem <- Served, reply <- cached

LossySpec == Lossy!Spec
=============================================================================

------------------------ MODULE CachedComputeProofs ------------------------
(***************************************************************************)
(* Safety of get_or_compute under any number of threads, keys and cached   *)
(* results, any maxsize and TTL, and any number of attempts.               *)
(***************************************************************************)
EXTENDS CachedCompute, TTLCacheProofs

(* What each thread knows at each point of get_or_compute.                 *)
ThreadInv(t) ==
  /\ pc[t] \in {"get", "compute"} => value[t] = NoVal
  /\ pc[t] = "get" => tries[t] = 0
  /\ pc[t] = "compute" => tries[t] < Attempts /\ cached[t] = NoVal
  /\ pc[t] = "set" => /\ cached[t] = NoVal
                      /\ value[t] \in Vals /\ value[t][1] = key[t]
  /\ pc[t] = "raised" => tries[t] = Attempts /\ value[t] = NoVal
  /\ pc[t] = "return" => /\ cached[t] = NoVal => value[t] # NoVal /\ value[t][1] = key[t]
                         /\ cached[t] # NoVal => cached[t][1] = key[t]

EntriesRight == \A i \in DOMAIN store : store[i].val[1] = store[i].key

(* The inductive invariant: types and bounds, every entry under its own    *)
(* key, and what every thread knows.                                       *)
IInv == TypeOK /\ Bounded /\ EntriesRight /\ \A t \in Threads : ThreadInv(t)

(* The cache is a sequence, and its members are entries.                 *)
LEMMA EntriesTyped ==
  ASSUME TypeOK
  PROVE  /\ DOMAIN store = 1 .. Len(store) /\ Len(store) \in Nat
         /\ \A i \in DOMAIN store : store[i] \in Entry(Keys, Vals, TTL)
BY ElementOfSeq, LenProperties DEF TypeOK

(* The cache a lookup leaves is still typed, bounded and right.            *)
LEMMA GetKeepsCache ==
  ASSUME IInv, NEW k
  PROVE  /\ AfterGet(store, k, TTL) \in Seq(Entry(Keys, Vals, TTL))
         /\ Len(AfterGet(store, k, TTL)) <= MaxSize
         /\ KeysDistinct(AfterGet(store, k, TTL))
         /\ \A i \in DOMAIN AfterGet(store, k, TTL) :
               AfterGet(store, k, TTL)[i].val[1] = AfterGet(store, k, TTL)[i].key
<1> DEFINE after == AfterGet(store, k, TTL)
           E == Entry(Keys, Vals, TTL)
<1>1. store \in Seq(E) /\ Len(store) <= MaxSize /\ KeysDistinct(store)
  BY DEF IInv, TypeOK, Bounded
<1>2. /\ after \in Seq(E) /\ Len(after) <= Len(store)
      /\ \A i \in DOMAIN after : \E j \in DOMAIN store : after[i] = store[j]
      /\ KeysDistinct(store) => KeysDistinct(after)
  BY <1>1, AfterGetEntries
<1> HIDE DEF after, E
<1>3. Len(after) <= MaxSize
  BY <1>1, <1>2, LenProperties, MaxSizePositive
<1>4. \A i \in DOMAIN after : after[i].val[1] = after[i].key
  BY <1>2 DEF IInv, EntriesRight
<1> QED BY <1>1, <1>2, <1>3, <1>4 DEF after, E

(* So is the cache a store leaves, when the value is one of its key.       *)
LEMMA SetKeepsCache ==
  ASSUME IInv, NEW k \in Keys, NEW v \in Vals, v[1] = k
  PROVE  /\ AfterSet(store, k, v, MaxSize) \in Seq(Entry(Keys, Vals, TTL))
         /\ Len(AfterSet(store, k, v, MaxSize)) <= MaxSize
         /\ KeysDistinct(AfterSet(store, k, v, MaxSize))
         /\ \A i \in DOMAIN AfterSet(store, k, v, MaxSize) :
               AfterSet(store, k, v, MaxSize)[i].val[1] = AfterSet(store, k, v, MaxSize)[i].key
<1> DEFINE after == AfterSet(store, k, v, MaxSize)
           E == Entry(Keys, Vals, TTL)
           e == [key |-> k, val |-> v, age |-> 0]
<1>1. store \in Seq(E) /\ KeysDistinct(store)
  BY DEF IInv, TypeOK, Bounded
<1>2. e \in E
  BY TTLNatural DEF Entry
<1>3. /\ after \in Seq(E) /\ Len(after) <= MaxSize
      /\ \A i \in DOMAIN after : after[i] = e \/ \E j \in DOMAIN store : after[i] = store[j]
      /\ KeysDistinct(store) => KeysDistinct(after)
  BY <1>1, <1>2, MaxSizePositive, AfterSetEntries
<1>4. e.val[1] = e.key
  OBVIOUS
<1> HIDE DEF after, E, e
<1>5. \A i \in DOMAIN after : after[i].val[1] = after[i].key
  BY <1>3, <1>4 DEF IInv, EntriesRight
<1> QED BY <1>1, <1>3, <1>5 DEF after, E

(* The invariant holds initially ...                                     *)
LEMMA InitIInv == Init => IInv
<1> SUFFICES ASSUME Init PROVE IInv
  OBVIOUS
<1>1. TypeOK
  BY EmptySeq, AttemptsPositive DEF Init, TypeOK
<1>2. Bounded
  BY MaxSizePositive DEF Init, Bounded, KeysDistinct
<1>3. EntriesRight
  BY DEF Init, EntriesRight
<1>4. \A t \in Threads : ThreadInv(t)
  BY DEF Init, ThreadInv
<1> QED BY <1>1, <1>2, <1>3, <1>4 DEF IInv

(* The part of the invariant that speaks of the cache carries over when    *)
(* the cache is unchanged.                                                 *)
LEMMA SameCache ==
  ASSUME IInv, UNCHANGED store
  PROVE  Bounded' /\ EntriesRight'
BY DEF IInv, Bounded, KeysDistinct, EntriesRight

(* ... is kept by every step of a thread ...                             *)
LEMMA StepIInv ==
  ASSUME IInv, NEW t \in Threads, Step(t)
  PROVE  IInv'
<1> USE DEF IInv
<1>1. CASE GetHit(t)
  <2>1. PICK i \in DOMAIN store : store[i].key = key[t] /\ ValueAt(store, key[t]) = store[i].val
    BY <1>1, HitEntry DEF GetHit
  <2>2. ValueAt(store, key[t]) \in Vals /\ ValueAt(store, key[t])[1] = key[t]
    BY <2>1, EntriesTyped DEF EntriesRight, Entry
  <2>3. Bounded' /\ EntriesRight' /\ store' \in Seq(Entry(Keys, Vals, TTL))
    BY <1>1, GetKeepsCache DEF GetHit, Bounded, EntriesRight
  <2>4. TypeOK'
    BY <1>1, <2>2, <2>3 DEF GetHit, TypeOK, Goto
  <2>5. \A u \in Threads : ThreadInv(u)'
    BY <1>1, <2>2, NoValIsNoResult DEF GetHit, TypeOK, Goto, ThreadInv, Vals
  <2> QED BY <2>3, <2>4, <2>5
<1>2. CASE GetMiss(t)
  <2>1. Bounded' /\ EntriesRight' /\ store' \in Seq(Entry(Keys, Vals, TTL))
    BY <1>2, GetKeepsCache DEF GetMiss, Bounded, EntriesRight
  <2>2. TypeOK'
    BY <1>2, <2>1 DEF GetMiss, TypeOK, Goto
  <2>3. \A u \in Threads : ThreadInv(u)'
    BY <1>2, AttemptsPositive DEF GetMiss, TypeOK, Goto, ThreadInv
  <2> QED BY <2>1, <2>2, <2>3
<1>3. CASE ComputeOk(t)
  <2>1. PICK v \in Versions : value' = [value EXCEPT ![t] = <<key[t], v>>]
    BY <1>3 DEF ComputeOk
  <2>2. <<key[t], v>> \in Vals /\ <<key[t], v>>[1] = key[t]
    BY DEF Vals, TypeOK
  <2>3. tries[t] < Attempts /\ tries[t] \in 0 .. Attempts
    BY <1>3 DEF ComputeOk, Goto, ThreadInv, TypeOK
  <2>4. TypeOK'
    <3>1. tries[t] + 1 \in 0 .. Attempts
      BY <2>3, AttemptsPositive
    <3>2. tries' \in [Threads -> 0 .. Attempts]
      BY <1>3, <3>1 DEF ComputeOk, TypeOK
    <3>3. value' \in [Threads -> Vals \cup {NoVal}]
      BY <2>1, <2>2 DEF TypeOK
    <3> QED BY <1>3, <3>2, <3>3 DEF ComputeOk, TypeOK, Goto
  <2>5. \A u \in Threads : ThreadInv(u)'
    BY <1>3, <2>1, <2>2 DEF ComputeOk, TypeOK, Goto, ThreadInv
  <2> QED BY <1>3, <2>4, <2>5, SameCache DEF ComputeOk
<1>4. CASE ComputeFail(t)
  <2>1. tries[t] < Attempts /\ tries[t] \in 0 .. Attempts
    BY <1>4 DEF ComputeFail, Goto, ThreadInv, TypeOK
  <2>2. TypeOK'
    BY <1>4, <2>1, AttemptsPositive DEF ComputeFail, TypeOK, Goto
  <2>3. \A u \in Threads : ThreadInv(u)'
    BY <1>4, <2>1, AttemptsPositive DEF ComputeFail, TypeOK, Goto, ThreadInv
  <2> QED BY <1>4, <2>2, <2>3, SameCache DEF ComputeFail
<1>5. CASE SetValue(t)
  <2>1. key[t] \in Keys /\ value[t] \in Vals /\ value[t][1] = key[t]
    BY <1>5 DEF SetValue, Goto, ThreadInv, TypeOK
  <2>2. Bounded' /\ EntriesRight' /\ store' \in Seq(Entry(Keys, Vals, TTL))
    BY <1>5, <2>1, SetKeepsCache DEF SetValue, Bounded, EntriesRight
  <2>3. TypeOK'
    BY <1>5, <2>2 DEF SetValue, TypeOK, Goto
  <2>4. \A u \in Threads : ThreadInv(u)'
    BY <1>5, <2>1, NoValIsNoResult DEF SetValue, TypeOK, Goto, ThreadInv, Vals
  <2> QED BY <2>2, <2>3, <2>4
<1>6. CASE Return(t)
  <2>1. TypeOK'
    BY <1>6 DEF Return, TypeOK, Goto
  <2>2. \A u \in Threads : ThreadInv(u)'
    BY <1>6 DEF Return, TypeOK, Goto, ThreadInv
  <2> QED BY <1>6, <2>1, <2>2, SameCache DEF Return
<1> QED BY <1>1, <1>2, <1>3, <1>4, <1>5, <1>6 DEF Step

(* ... and by clear, the clock and stuttering.                           *)
LEMMA NextIInv == IInv /\ [Next]_vars => IInv'
<1> SUFFICES ASSUME IInv, [Next]_vars PROVE IInv'
  OBVIOUS
<1>1. ASSUME NEW t \in Threads, Step(t)
      PROVE  IInv'
  BY <1>1, StepIInv
<1>2. ASSUME NEW t \in Threads, NEW k \in Keys, Call(t, k)
      PROVE  IInv'
  <2>1. TypeOK'
    BY <1>2, AttemptsPositive DEF Call, IInv, TypeOK, Goto
  <2>2. \A u \in Threads : ThreadInv(u)'
    BY <1>2 DEF Call, IInv, TypeOK, Goto, ThreadInv
  <2> QED BY <1>2, <2>1, <2>2, SameCache DEF Call, IInv
<1>3. CASE Clear
  <2>1. TypeOK'
    BY <1>3, EmptySeq DEF Clear, IInv, TypeOK
  <2>2. Bounded' /\ EntriesRight'
    BY <1>3, MaxSizePositive DEF Clear, Bounded, KeysDistinct, EntriesRight
  <2>3. \A u \in Threads : ThreadInv(u)'
    BY <1>3 DEF Clear, IInv, ThreadInv
  <2> QED BY <2>1, <2>2, <2>3 DEF IInv
<1>4. CASE Tick
  <2>1. /\ store' \in Seq(Entry(Keys, Vals, TTL))
        /\ Len(store') = Len(store) /\ DOMAIN store' = DOMAIN store
        /\ \A i \in DOMAIN store : store'[i].key = store[i].key /\ store'[i].val = store[i].val
        /\ KeysDistinct(store')
    BY <1>4, TTLNatural, AgedEntries DEF Tick, IInv, TypeOK, Bounded
  <2>2. TypeOK'
    BY <1>4, <2>1 DEF Tick, IInv, TypeOK
  <2>3. Bounded' /\ EntriesRight'
    BY <2>1 DEF IInv, Bounded, EntriesRight
  <2>4. \A u \in Threads : ThreadInv(u)'
    BY <1>4 DEF Tick, IInv, ThreadInv
  <2> QED BY <2>2, <2>3, <2>4 DEF IInv
<1>5. CASE UNCHANGED vars
  <2>1. TypeOK' /\ \A u \in Threads : ThreadInv(u)'
    BY <1>5 DEF vars, IInv, TypeOK, ThreadInv
  <2> QED BY <1>5, <2>1, SameCache DEF vars, IInv
<1> QED BY <1>1, <1>2, <1>3, <1>4, <1>5 DEF Next

(* The inductive invariant holds of every behaviour.                       *)
LEMMA AlwaysIInv == Spec => []IInv
BY InitIInv, NextIInv, PTL DEF Spec

(* Every variable of the cache and its threads keeps its type, whatever    *)
(* the sizes: in particular no thread makes more than Attempts attempts.   *)
THEOREM CachedComputeTypes == Spec => []TypeOK
<1>1. IInv => TypeOK
  BY DEF IInv
<1> QED BY <1>1, AlwaysIInv, PTL

(* TTLCache never holds more than maxsize entries, nor two of one key.     *)
THEOREM CacheBounded == Spec => []Bounded
<1>1. IInv => Bounded
  BY DEF IInv
<1> QED BY <1>1, AlwaysIInv, PTL

(* get_or_compute returns a value of the key it was asked for, whoever     *)
(* computed it and whatever was evicted or cleared meanwhile.              *)
THEOREM ReturnsRightKey == Spec => []RightKey
<1>1. IInv => RightKey
  BY DEF IInv, RightKey, EntriesRight, ThreadInv, Returned
<1> QED BY <1>1, AlwaysIInv, PTL

(* A caller sees an error only after every attempt failed, and a failure   *)
(* never reaches the cache.                                                *)
THEOREM FailureIsExhaustion == Spec => []FailsOnlyExhausted
<1>1. IInv => FailsOnlyExhausted
  BY NoValIsNoResult DEF IInv, FailsOnlyExhausted, ThreadInv, Vals
<1> QED BY <1>1, AlwaysIInv, PTL
-----------------------------------------------------------------------------
(* The cache implements a lossy map.  The map's value of a key is what a   *)
(* lookup would reply, so a get changes no value, a set changes that of    *)
(* its key and may lose others, and time and clear only lose some.         *)

(* What can be served of key j can be served of it after the step, with    *)
(* the same value, and nothing else: the map has not changed there.        *)
SameOf(j) == /\ Hit(store', j, TTL) <=> Hit(store, j, TTL)
             /\ Hit(store, j, TTL) => ValueAt(store', j) = ValueAt(store, j)

(* What can be served of key j after the step could be served of it before. *)
LostOrSame(j) == Hit(store', j, TTL) => /\ Hit(store, j, TTL)
                                        /\ ValueAt(store', j) = ValueAt(store, j)

(* TTLCache.get changes what is served of no key: the entry it deletes had *)
(* expired, the entry it moves keeps its value and its timestamp.          *)
LEMMA GetServesSame ==
  ASSUME IInv, NEW k, store' = AfterGet(store, k, TTL), NEW j
  PROVE  SameOf(j)
<1> DEFINE E == Entry(Keys, Vals, TTL)
<1>1. store \in Seq(E) /\ KeysDistinct(store)
  BY DEF IInv, TypeOK, Bounded
<1> HIDE DEF E
<1>2. /\ KeysDistinct(store')
      /\ \A i \in DOMAIN store' : \E m \in DOMAIN store : store'[i] = store[m]
  BY <1>1, AfterGetEntries
<1>3. \A m \in DOMAIN store : store[m].key # k \/ ~ Expired(store[m], TTL) =>
         \E i \in DOMAIN store' : store'[i] = store[m]
  BY <1>1, AfterGetRest
<1>4. Hit(store, j, TTL) => Hit(store', j, TTL) /\ ValueAt(store', j) = ValueAt(store, j)
  <2>1. \A m \in DOMAIN store : store[m].key = j /\ ~ Expired(store[m], TTL) =>
           \E i \in DOMAIN store' : /\ store'[i].key = j /\ store'[i].val = store[m].val
                                    /\ ~ Expired(store'[i], TTL)
    BY <1>3
  <2> QED BY <1>1, <1>2, <2>1, HitCarries
<1>5. Hit(store', j, TTL) => Hit(store, j, TTL)
  <2>1. \A m \in DOMAIN store' : store'[m].key = j /\ ~ Expired(store'[m], TTL) =>
           \E i \in DOMAIN store : /\ store[i].key = j /\ store[i].val = store'[m].val
                                   /\ ~ Expired(store[i], TTL)
    BY <1>2
  <2> QED BY <1>1, <1>2, <2>1, HitCarries
<1> QED BY <1>4, <1>5 DEF SameOf

(* TTLCache.set serves the new value of its key, and of every other key    *)
(* what was served before or nothing.                                      *)
LEMMA SetServesNew ==
  ASSUME IInv, NEW k \in Keys, NEW v \in Vals, store' = AfterSet(store, k, v, MaxSize)
  PROVE  /\ Hit(store', k, TTL) /\ ValueAt(store', k) = v
         /\ \A j \in Keys \ {k} : LostOrSame(j)
<1> DEFINE E == Entry(Keys, Vals, TTL)
           e == [key |-> k, val |-> v, age |-> 0]
<1>1. store \in Seq(E) /\ KeysDistinct(store) /\ Len(store) <= MaxSize
  BY DEF IInv, TypeOK, Bounded
<1>2. e \in E /\ e.key = k /\ e.val = v /\ ~ Expired(e, TTL)
  BY TTLNatural DEF Entry, Expired
<1>3. /\ KeysDistinct(store')
      /\ \A i \in DOMAIN store' : store'[i] = e \/ \E m \in DOMAIN store : store'[i] = store[m]
  BY <1>1, <1>2, MaxSizePositive, AfterSetEntries
<1>4. store' = Newest(Append(Without(store, k), e), MaxSize)
  BY DEF AfterSet
<1> HIDE DEF E, e
<1>5. \E i \in DOMAIN store' : store'[i] = e
  BY <1>1, <1>2, <1>4, MaxSizePositive, StoredRest
<1>6. Hit(store', k, TTL) /\ ValueAt(store', k) = v
  BY <1>2, <1>3, <1>5, HitIsEntry
<1>7. ASSUME NEW j \in Keys \ {k}
      PROVE  LostOrSame(j)
  <2>1. \A m \in DOMAIN store' : store'[m].key = j /\ ~ Expired(store'[m], TTL) =>
           \E i \in DOMAIN store : /\ store[i].key = j /\ store[i].val = store'[m].val
                                   /\ ~ Expired(store[i], TTL)
    BY <1>2, <1>3, <1>7
  <2> QED BY <1>1, <1>3, <2>1, HitCarries DEF LostOrSame
<1> QED BY <1>6, <1>7

(* A tick brings no entry back to life.                                    *)
LEMMA TickServesLess ==
  ASSUME IInv, Tick, NEW j
  PROVE  LostOrSame(j)
<1> DEFINE E == Entry(Keys, Vals, TTL)
<1>1. store \in Seq(E) /\ KeysDistinct(store)
  BY DEF IInv, TypeOK, Bounded
<1>2. /\ KeysDistinct(store') /\ DOMAIN store' = DOMAIN store
      /\ \A i \in DOMAIN store : store'[i].key = store[i].key /\ store'[i].val = store[i].val
  BY <1>1, TTLNatural, AgedEntries DEF Tick
<1>3. \A i \in DOMAIN store : ~ Expired(store'[i], TTL) => ~ Expired(store[i], TTL)
  <2>1. CASE TTL = 0
    BY <2>1 DEF Expired
  <2>2. CASE TTL # 0
    BY <1>1, <2>2, TTLNatural, AgedLive DEF Tick
  <2> QED BY <2>1, <2>2
<1>4. \A m \in DOMAIN store' : store'[m].key = j /\ ~ Expired(store'[m], TTL) =>
         \E i \in DOMAIN store : /\ store[i].key = j /\ store[i].val = store'[m].val
                                 /\ ~ Expired(store[i], TTL)
  BY <1>2, <1>3
<1> QED BY <1>1, <1>2, <1>4, HitCarries DEF LostOrSame

(* A step after which every key serves what it served, or nothing, is a    *)
(* Forget of the map.                                                      *)
LEMMA ForgetsLost ==
  ASSUME \A j \in Keys : LostOrSame(j), UNCHANGED cached
  PROVE  Lossy!Forget
<1> DEFINE lost == {j \in Keys : ~ Hit(store', j, TTL)}
<1>1. Served' = Lossy!Forgetting(lost)
  BY DEF Served, Lossy!Forgetting, LostOrSame
<1> QED BY <1>1 DEF Lossy!Forget

(* An empty cache serves nothing.                                          *)
LEMMA EmptyServesNothing == \A j : ~ Hit(<< >>, j, TTL)
BY DEF Hit, KeysOf

(* The initial states are initial states of the map ...                    *)
LEMMA InitRefines == Init => Lossy!Init
BY EmptyServesNothing DEF Init, Lossy!Init, Served

(* ... a step of a thread is a lookup, a store or no step of it ...        *)
LEMMA StepRefines ==
  ASSUME IInv, NEW t \in Threads, Step(t)
  PROVE  Lossy!Next \/ UNCHANGED <<Served, cached>>
<1>k. key[t] \in Keys
  BY DEF IInv, TypeOK
<1>1. CASE GetHit(t) \/ GetMiss(t)
  <2>1. store' = AfterGet(store, key[t], TTL)
    BY <1>1 DEF GetHit, GetMiss
  <2>2. UNCHANGED Served
    BY <2>1, GetServesSame DEF SameOf, Served
  <2>3. cached' = [cached EXCEPT ![t] = Served[key[t]]]
    BY <1>1, <1>k DEF GetHit, GetMiss, Served
  <2> QED BY <1>k, <2>2, <2>3 DEF Lossy!Next, Lossy!Lookup
<1>2. CASE SetValue(t)
  <2>1. value[t] \in Vals /\ store' = AfterSet(store, key[t], value[t], MaxSize)
    BY <1>2 DEF SetValue, Goto, IInv, ThreadInv
  <2>2. /\ Hit(store', key[t], TTL) /\ ValueAt(store', key[t]) = value[t]
        /\ \A j \in Keys \ {key[t]} : LostOrSame(j)
    BY <1>k, <2>1, SetServesNew
  <2> DEFINE lost == {j \in Keys \ {key[t]} : ~ Hit(store', j, TTL)}
  <2>3. Served' = [Lossy!Forgetting(lost) EXCEPT ![key[t]] = value[t]]
    BY <1>k, <2>2 DEF Served, Lossy!Forgetting, LostOrSame
  <2>4. UNCHANGED cached
    BY <1>2 DEF SetValue
  <2>5. Lossy!Store(t, key[t], value[t])
    BY <2>3, <2>4 DEF Lossy!Store
  <2> QED BY <1>k, <2>1, <2>5 DEF Lossy!Next
<1>3. CASE ComputeOk(t) \/ ComputeFail(t) \/ Return(t)
  BY <1>3 DEF ComputeOk, ComputeFail, Return, Served
<1> QED BY <1>1, <1>2, <1>3 DEF Step

(* ... and so is every step.                                               *)
LEMMA NextRefines == IInv /\ [Next]_vars => [Lossy!Next]_<<Served, cached>>
<1> SUFFICES ASSUME IInv, [Next]_vars PROVE Lossy!Next \/ UNCHANGED <<Served, cached>>
  OBVIOUS
<1>1. ASSUME NEW t \in Threads, Step(t)
      PROVE  Lossy!Next \/ UNCHANGED <<Served, cached>>
  BY <1>1, StepRefines
<1>2. ASSUME NEW t \in Threads, NEW k \in Keys, Call(t, k)
      PROVE  UNCHANGED <<Served, cached>>
  BY <1>2 DEF Call, Served
<1>3. CASE Clear
  <2>1. \A j \in Keys : LostOrSame(j)
    BY <1>3, EmptyServesNothing DEF Clear, LostOrSame
  <2> QED BY <1>3, <2>1, ForgetsLost DEF Clear, Lossy!Next
<1>4. CASE Tick
  <2>1. \A j \in Keys : LostOrSame(j)
    BY <1>4, TickServesLess
  <2> QED BY <1>4, <2>1, ForgetsLost DEF Tick, Lossy!Next
<1>5. CASE UNCHANGED vars
  BY <1>5 DEF vars, Served
<1> QED BY <1>1, <1>2, <1>3, <1>4, <1>5 DEF Next

(* The cache is a lossy map: however its callers interleave, a lookup      *)
(* replies the last value stored for its key or nothing.                   *)
THEOREM CacheIsLossyMap == Spec => LossySpec
<1>1. Init => Lossy!Init
  BY InitRefines
<1>2. IInv /\ [Next]_vars => [Lossy!Next]_<<Served, cached>>
  BY NextRefines
<1> QED BY <1>1, <1>2, AlwaysIInv, PTL DEF Spec, LossySpec, Lossy!Spec
-----------------------------------------------------------------------------
(* Eviction by recency.  The cache keeps no use counters, only an order;   *)
(* that the order is the one of last use has to be known before a step to  *)
(* see what the step evicts.                                               *)

(* Key a was last used before key b.                                       *)
Before(a, b) == \E m, n \in DOMAIN recency : m < n /\ recency[m] = a /\ recency[n] = b

WasUsed(a) == \E n \in DOMAIN recency : recency[n] = a

(* The history names no key twice.                                         *)
UsedOnce ==
  /\ recency \in Seq(Keys)
  /\ \A m, n \in DOMAIN recency : recency[m] = recency[n] => m = n

(* The entries stand in the order of last use of their keys.               *)
InOrderOfUse ==
  /\ \A i \in DOMAIN store : WasUsed(store[i].key)
  /\ \A i, j \in DOMAIN store : i < j => Before(store[i].key, store[j].key)

RecentInv == UsedOnce /\ InOrderOfUse

(* A use of k keeps the order of all other keys and puts k after them.     *)
LEMMA UseIsLast ==
  ASSUME UsedOnce, NEW k \in Keys, recency' = Used(k)
  PROVE  /\ UsedOnce'
         /\ WasUsed(k)'
         /\ \A a : WasUsed(a) /\ a # k => WasUsed(a)' /\ Before(a, k)'
         /\ \A a, b : Before(a, b) /\ a # k /\ b # k => Before(a, b)'
<1> DEFINE p == LastUse(k)
           at(i) == IF i < p THEN i ELSE i + 1
           rest == IF k \in ToSet(recency) THEN RemoveAt(recency, p) ELSE recency
<1>1. /\ recency \in Seq(Keys) /\ DOMAIN recency = 1 .. Len(recency) /\ Len(recency) \in Nat
      /\ \A m, n \in DOMAIN recency : recency[m] = recency[n] => m = n
  BY LenProperties DEF UsedOnce
<1>2. k \in ToSet(recency) <=> WasUsed(k)
  BY <1>1 DEF ToSet, WasUsed
<1>3. /\ rest \in Seq(Keys)
      /\ \A m, n \in DOMAIN rest : rest[m] = rest[n] => m = n
      /\ \A m \in DOMAIN rest : rest[m] # k
      /\ \A a : WasUsed(a) /\ a # k => \E m \in DOMAIN rest : rest[m] = a
      /\ \A a, b : Before(a, b) /\ a # k /\ b # k =>
            \E m, n \in DOMAIN rest : m < n /\ rest[m] = a /\ rest[n] = b
  <2>1. CASE k \notin ToSet(recency)
    <3>1. rest = recency
      BY <2>1
    <3> QED BY <1>1, <1>2, <2>1, <3>1 DEF WasUsed, Before
  <2>2. CASE k \in ToSet(recency)
    <3> DEFINE w == RemoveAt(recency, p)
    <3>1. p \in 1 .. Len(recency) /\ recency[p] = k
      BY <1>1, <1>2, <2>2 DEF LastUse, WasUsed
    <3>2. rest = w
      BY <2>2
    <3>3. /\ w \in Seq(Keys) /\ Len(w) = Len(recency) - 1
          /\ \A i \in 1 .. Len(recency) - 1 : w[i] = recency[at(i)]
      <4>1. recency \in Seq(Keys)
        BY <1>1
      <4> HIDE DEF p
      <4> QED BY <3>1, <4>1, RemoveAtEntries
    <3> HIDE DEF w, p
    <3>4. DOMAIN w = 1 .. Len(recency) - 1
      BY <3>3, LenProperties
    <3>5. \A i \in DOMAIN w : at(i) \in DOMAIN recency /\ at(i) # p /\ w[i] = recency[at(i)]
      BY <1>1, <3>1, <3>3, <3>4
    <3>6. \A i, j \in DOMAIN w : at(i) = at(j) => i = j
      BY <3>1, <3>4
    <3>7. \A m \in DOMAIN recency : m # p => \E i \in DOMAIN w : at(i) = m
      <4> SUFFICES ASSUME NEW m \in DOMAIN recency, m # p
                   PROVE  \E i \in DOMAIN w : at(i) = m
        OBVIOUS
      <4>1. CASE m < p
        <5>1. m \in DOMAIN w /\ at(m) = m
          BY <1>1, <3>1, <3>4, <4>1
        <5> QED BY <5>1
      <4>2. CASE p < m
        <5>1. m - 1 \in DOMAIN w /\ at(m - 1) = m
          BY <1>1, <3>1, <3>4, <4>2
        <5> QED BY <5>1
      <4> QED BY <1>1, <3>1, <4>1, <4>2
    <3>8. \A i, j \in DOMAIN w : at(i) < at(j) => i < j
      BY <3>1, <3>4
    <3> HIDE DEF at
    <3>9. \A m, n \in DOMAIN w : w[m] = w[n] => m = n
      BY <1>1, <3>5, <3>6
    <3>10. \A m \in DOMAIN w : w[m] # k
      BY <1>1, <3>1, <3>5
    <3>11. \A a : WasUsed(a) /\ a # k => \E m \in DOMAIN w : w[m] = a
      BY <3>1, <3>5, <3>7 DEF WasUsed
    <3>12. ASSUME NEW a, NEW b, Before(a, b), a # k, b # k
           PROVE  \E m, n \in DOMAIN w : m < n /\ w[m] = a /\ w[n] = b
      <4>1. PICK m, n \in DOMAIN recency : m < n /\ recency[m] = a /\ recency[n] = b
        BY <3>12 DEF Before
      <4>2. PICK i, j \in DOMAIN w : at(i) = m /\ at(j) = n
        BY <3>1, <3>7, <3>12, <4>1
      <4> QED BY <3>5, <3>8, <4>1, <4>2
    <3> QED BY <3>2, <3>3, <3>9, <3>10, <3>11, <3>12
  <2> QED BY <2>1, <2>2
<1>4. recency' = Append(rest, k)
  BY DEF Used
<1> HIDE DEF rest
<1>5. /\ Append(rest, k) \in Seq(Keys)
      /\ DOMAIN Append(rest, k) = 1 .. Len(rest) + 1
      /\ DOMAIN rest = 1 .. Len(rest) /\ Len(rest) \in Nat
      /\ \A i \in 1 .. Len(rest) : Append(rest, k)[i] = rest[i]
      /\ Append(rest, k)[Len(rest) + 1] = k
  BY <1>3, AppendProperties, LenProperties
<1>6. UsedOnce'
  <2>1. ASSUME NEW m \in DOMAIN recency', NEW n \in DOMAIN recency', recency'[m] = recency'[n]
        PROVE  m = n
    <3>1. (m \in DOMAIN rest \/ m = Len(rest) + 1) /\ (n \in DOMAIN rest \/ n = Len(rest) + 1)
      BY <1>4, <1>5
    <3> QED BY <1>3, <1>4, <1>5, <2>1, <3>1
  <2> QED BY <1>4, <1>5, <2>1 DEF UsedOnce
<1>7. WasUsed(k)'
  BY <1>4, <1>5 DEF WasUsed
<1>8. ASSUME NEW a, WasUsed(a), a # k
      PROVE  WasUsed(a)' /\ Before(a, k)'
  <2>1. PICK m \in DOMAIN rest : rest[m] = a
    BY <1>3, <1>8
  <2>2. m \in DOMAIN recency' /\ Len(rest) + 1 \in DOMAIN recency' /\ m < Len(rest) + 1
    BY <1>4, <1>5
  <2> QED BY <1>4, <1>5, <2>1, <2>2 DEF WasUsed, Before
<1>9. ASSUME NEW a, NEW b, Before(a, b), a # k, b # k
      PROVE  Before(a, b)'
  <2>1. PICK m, n \in DOMAIN rest : m < n /\ rest[m] = a /\ rest[n] = b
    BY <1>3, <1>9
  <2>2. m \in DOMAIN recency' /\ n \in DOMAIN recency'
    BY <1>4, <1>5
  <2> QED BY <1>4, <1>5, <2>1, <2>2 DEF Before
<1> QED BY <1>6, <1>7, <1>8, <1>9

(* A step that uses k keeps the entries in the order of use when it leaves *)
(* the others in their order and puts that of k, if any, last.             *)
LEMMA UseKeepsOrder ==
  ASSUME RecentInv, NEW k \in Keys, recency' = Used(k),
         \A i \in DOMAIN store' :
            store'[i].key = k \/ \E m \in DOMAIN store : store'[i] = store[m],
         \A i, j \in DOMAIN store' : i < j =>
            /\ store'[i].key # k
            /\ \/ store'[j].key = k
               \/ \E m, n \in DOMAIN store : m < n /\ store'[i] = store[m] /\ store'[j] = store[n]
  PROVE  RecentInv'
<1>1. /\ UsedOnce' /\ WasUsed(k)'
      /\ \A a : WasUsed(a) /\ a # k => WasUsed(a)' /\ Before(a, k)'
      /\ \A a, b : Before(a, b) /\ a # k /\ b # k => Before(a, b)'
  BY UseIsLast DEF RecentInv
<1>2. /\ \A i \in DOMAIN store : WasUsed(store[i].key)
      /\ \A i, j \in DOMAIN store : i < j => Before(store[i].key, store[j].key)
  BY DEF RecentInv, InOrderOfUse
<1>3. ASSUME NEW i \in DOMAIN store'
      PROVE  WasUsed(store[i].key)' /\ (store'[i].key # k => WasUsed(store'[i].key))
  BY <1>1, <1>2
<1>4. ASSUME NEW i \in DOMAIN store', NEW j \in DOMAIN store', i < j
      PROVE  Before(store[i].key, store[j].key)'
  <2>1. store'[i].key # k
    BY <1>4
  <2>2. CASE store'[j].key = k
    BY <1>1, <1>3, <2>1, <2>2
  <2>3. CASE store'[j].key # k
    <3>1. PICK m, n \in DOMAIN store : m < n /\ store'[i] = store[m] /\ store'[j] = store[n]
      BY <1>4, <2>3
    <3> QED BY <1>1, <1>2, <2>1, <2>3, <3>1
  <2> QED BY <2>2, <2>3
<1> QED BY <1>1, <1>3, <1>4 DEF RecentInv, InOrderOfUse

(* A step that uses nothing keeps the order when it keeps, of entries by   *)
(* key, at most what was there, in its order.                              *)
LEMMA RestKeepsOrder ==
  ASSUME RecentInv, UNCHANGED recency,
         \A i \in DOMAIN store' : \E m \in DOMAIN store : store'[i].key = store[m].key,
         \A i, j \in DOMAIN store' : i < j =>
            \E m, n \in DOMAIN store :
               m < n /\ store'[i].key = store[m].key /\ store'[j].key = store[n].key
  PROVE  RecentInv'
<1>1. UsedOnce'
  BY DEF RecentInv, UsedOnce
<1>2. (\A a : WasUsed(a) => WasUsed(a)') /\ (\A a, b : Before(a, b) => Before(a, b)')
  BY DEF WasUsed, Before
<1>3. \A i \in DOMAIN store' : WasUsed(store[i].key)'
  BY <1>2 DEF RecentInv, InOrderOfUse
<1>4. ASSUME NEW i \in DOMAIN store', NEW j \in DOMAIN store', i < j
      PROVE  Before(store[i].key, store[j].key)'
  <2>1. PICK m, n \in DOMAIN store :
           m < n /\ store'[i].key = store[m].key /\ store'[j].key = store[n].key
    BY <1>4
  <2>2. Before(store[m].key, store[n].key)
    BY <2>1 DEF RecentInv, InOrderOfUse
  <2> QED BY <1>2, <2>1, <2>2
<1> QED BY <1>1, <1>3, <1>4 DEF RecentInv, InOrderOfUse

(* What a lookup does to the order: a hit is a use, a miss is none.        *)
LEMMA GetKeepsOrder ==
  ASSUME IInv, RecentInv, NEW t \in Threads, GetHit(t) \/ GetMiss(t)
  PROVE  RecentInv' /\ \A k \in KeysOf(store) \ KeysOf(store') : GoesRightly(k)
<1> DEFINE E == Entry(Keys, Vals, TTL)
           q == key[t]
<1>1. store \in Seq(E) /\ KeysDistinct(store) /\ q \in Keys
  BY DEF IInv, TypeOK, Bounded
<1>2. store' = AfterGet(store, q, TTL)
  BY DEF GetHit, GetMiss
<1> HIDE DEF E, q
<1>3. \A i \in DOMAIN store' : \E m \in DOMAIN store : store'[i] = store[m]
  BY <1>1, <1>2, AfterGetEntries
<1>4. /\ \A m \in DOMAIN store : store[m].key # q \/ ~ Expired(store[m], TTL) =>
            \E i \in DOMAIN store' : store'[i] = store[m]
      /\ \A i, j \in DOMAIN store' : i < j =>
            /\ store'[i].key # q
            /\ \/ store'[j].key = q
               \/ \E m, n \in DOMAIN store : m < n /\ store'[i] = store[m] /\ store'[j] = store[n]
  BY <1>1, <1>2, AfterGetRest
<1>5. RecentInv'
  <2>1. CASE GetHit(t)
    <3>1. recency' = Used(q)
      BY <2>1 DEF GetHit, q
    <3> QED BY <1>1, <1>3, <1>4, <3>1, UseKeepsOrder
  <2>2. CASE GetMiss(t)
    <3>1. store' = Without(store, q) /\ UNCHANGED recency
      BY <1>2, <2>2 DEF GetMiss, AfterGet, q
    <3>2. \A i, j \in DOMAIN store' : i < j =>
             \E m, n \in DOMAIN store : m < n /\ store'[i] = store[m] /\ store'[j] = store[n]
      BY <1>1, <3>1, WithoutRest
    <3>3. \A i, j \in DOMAIN store' : i < j =>
             \E m, n \in DOMAIN store :
                m < n /\ store'[i].key = store[m].key /\ store'[j].key = store[n].key
      BY <3>2
    <3> QED BY <1>3, <3>1, <3>3, RestKeepsOrder
  <2> QED BY <2>1, <2>2
<1>6. ASSUME NEW k \in KeysOf(store) \ KeysOf(store')
      PROVE  GoesRightly(k)
  <2>1. Position(store, k) \in DOMAIN store /\ store[Position(store, k)].key = k
    BY <1>6, PositionOfKey
  <2>2. ~ \E i \in DOMAIN store' : store'[i] = store[Position(store, k)]
    BY <1>6, <2>1 DEF KeysOf
  <2> QED BY <1>4, <2>1, <2>2 DEF GoesRightly
<1> QED BY <1>5, <1>6

(* What a store does to the order, and what it evicts: nothing, or the     *)
(* first entry of a full cache, which is the one used least recently.      *)
LEMMA SetKeepsOrder ==
  ASSUME IInv, RecentInv, NEW t \in Threads, SetValue(t)
  PROVE  RecentInv' /\ \A k \in KeysOf(store) \ KeysOf(store') : GoesRightly(k)
<1> DEFINE E == Entry(Keys, Vals, TTL)
           q == key[t]
           e == [key |-> q, val |-> value[t], age |-> 0]
<1>1. /\ store \in Seq(E) /\ KeysDistinct(store) /\ Len(store) <= MaxSize /\ q \in Keys
      /\ value[t] \in Vals
  BY DEF IInv, TypeOK, Bounded, SetValue, Goto, ThreadInv
<1>2. e \in E /\ e.key = q
  BY <1>1, TTLNatural DEF Entry
<1>3. /\ store' = Newest(Append(Without(store, q), e), MaxSize)
      /\ store' = AfterSet(store, q, value[t], MaxSize)
      /\ recency' = Used(q)
  BY DEF SetValue, AfterSet
<1>4. \A i \in DOMAIN store' : store'[i] = e \/ \E m \in DOMAIN store : store'[i] = store[m]
  BY <1>1, <1>2, <1>3, MaxSizePositive, AfterSetEntries
<1> HIDE DEF E, q, e
<1>5. /\ \E i \in DOMAIN store' : store'[i] = e
      /\ \A i, j \in DOMAIN store' : i < j =>
            /\ store'[i].key # q
            /\ \/ store'[j].key = q
               \/ \E m, n \in DOMAIN store : m < n /\ store'[i] = store[m] /\ store'[j] = store[n]
      /\ \/ \A m \in DOMAIN store : store[m].key # q =>
               \E i \in DOMAIN store' : store'[i] = store[m]
         \/ /\ Len(store') = MaxSize
            /\ \A m \in DOMAIN store : store[m].key # q /\ m # 1 =>
                  \E i \in DOMAIN store' : store'[i] = store[m]
            /\ q \notin KeysOf(store)
  <2> DEFINE n == Newest(Append(Without(store, q), e), MaxSize)
  <2>1. MaxSize \in Nat \ {0} /\ e \in E /\ e.key = q /\ Len(store) <= MaxSize
    BY <1>1, <1>2, MaxSizePositive
  <2>2. store \in Seq(E) /\ KeysDistinct(store)
    BY <1>1
  <2>3. /\ \E i \in DOMAIN n : n[i] = e
        /\ \A i, j \in DOMAIN n : i < j =>
              /\ n[i].key # q
              /\ \/ n[j].key = q
                 \/ \E m, l \in DOMAIN store : m < l /\ n[i] = store[m] /\ n[j] = store[l]
        /\ \/ \A m \in DOMAIN store : store[m].key # q =>
                 \E i \in DOMAIN n : n[i] = store[m]
           \/ /\ Len(n) = MaxSize
              /\ \A m \in DOMAIN store : store[m].key # q /\ m # 1 =>
                    \E i \in DOMAIN n : n[i] = store[m]
              /\ q \notin KeysOf(store)
    BY <2>1, <2>2, StoredRest
  <2> QED BY <1>3, <2>3
<1>6. RecentInv'
  <2>1. \A i \in DOMAIN store' :
           store'[i].key = q \/ \E m \in DOMAIN store : store'[i] = store[m]
    BY <1>2, <1>4
  <2> QED BY <1>1, <1>3, <1>5, <2>1, UseKeepsOrder
<1>7. ASSUME NEW k \in KeysOf(store) \ KeysOf(store')
      PROVE  GoesRightly(k)
  <2>1. PICK p \in DOMAIN store : store[p].key = k
    BY <1>7 DEF KeysOf
  <2>2. k # q /\ ~ \E i \in DOMAIN store' : store'[i] = store[p]
    BY <1>2, <1>5, <1>7, <2>1 DEF KeysOf
  <2>3. Len(store') = MaxSize /\ p = 1
    BY <1>5, <2>1, <2>2
  <2>4. ASSUME NEW j \in KeysOf(store') \cap KeysOf(store)
        PROVE  LastUse(k) < LastUse(j)
    <3>1. PICK n \in DOMAIN store : store[n].key = j
      BY <2>4 DEF KeysOf
    <3>2. n # 1 /\ DOMAIN store = 1 .. Len(store) /\ Len(store) \in Nat
      BY <1>1, <1>7, <2>1, <2>3, <2>4, <3>1, LenProperties DEF KeysOf
    <3>3. Before(k, j)
      BY <2>1, <2>3, <3>1, <3>2 DEF RecentInv, InOrderOfUse
    <3>4. PICK a, b \in DOMAIN recency : a < b /\ recency[a] = k /\ recency[b] = j
      BY <3>3 DEF Before
    <3>5. LastUse(k) = a /\ LastUse(j) = b
      BY <3>4 DEF RecentInv, UsedOnce, LastUse
    <3> QED BY <3>4, <3>5
  <2> QED BY <2>3, <2>4 DEF GoesRightly
<1> QED BY <1>6, <1>7

(* Every step keeps the order of use, and evicts by it.                    *)
LEMMA NextKeepsOrder ==
  ASSUME IInv, RecentInv, [Next]_vars
  PROVE  RecentInv' /\ \A k \in KeysOf(store) \ KeysOf(store') : GoesRightly(k)
<1>1. ASSUME UNCHANGED <<store, recency>>
      PROVE  RecentInv' /\ \A k \in KeysOf(store) \ KeysOf(store') : GoesRightly(k)
  BY <1>1, RestKeepsOrder DEF KeysOf
<1>2. ASSUME NEW t \in Threads, Step(t)
      PROVE  RecentInv' /\ \A k \in KeysOf(store) \ KeysOf(store') : GoesRightly(k)
  <2>1. CASE GetHit(t) \/ GetMiss(t)
    BY <2>1, GetKeepsOrder
  <2>2. CASE SetValue(t)
    BY <2>2, SetKeepsOrder
  <2>3. CASE ComputeOk(t) \/ ComputeFail(t) \/ Return(t)
    BY <1>1, <2>3 DEF ComputeOk, ComputeFail, Return
  <2> QED BY <1>2, <2>1, <2>2, <2>3 DEF Step
<1>3. ASSUME NEW t \in Threads, NEW k \in Keys, Call(t, k)
      PROVE  UNCHANGED <<store, recency>>
  BY <1>3 DEF Call
<1>4. CASE Clear
  BY <1>4, RestKeepsOrder DEF Clear, GoesRightly
<1>5. CASE Tick
  <2>1. /\ DOMAIN store' = DOMAIN store /\ UNCHANGED recency
        /\ \A i \in DOMAIN store : store'[i].key = store[i].key
    BY <1>5, TTLNatural, AgedEntries DEF Tick, IInv, TypeOK
  <2>2. RecentInv'
    BY <2>1, RestKeepsOrder
  <2> QED BY <2>1, <2>2 DEF KeysOf
<1>6. CASE UNCHANGED vars
  BY <1>1, <1>6 DEF vars
<1> QED BY <1>1, <1>2, <1>3, <1>4, <1>5, <1>6 DEF Next

(* An unexpired entry that no clear removed goes only from a full cache,   *)
(* and only if every other entry was used more recently.                   *)
THEOREM EvictionIsByUse == Spec => EvictsLeastRecent
<1>1. Init => RecentInv
  BY EmptySeq DEF Init, RecentInv, UsedOnce, InOrderOfUse
<1>2. IInv /\ RecentInv /\ [Next]_vars => RecentInv'
  BY NextKeepsOrder
<1>3. IInv /\ RecentInv /\ [Next]_vars =>
        [\A k \in KeysOf(store) \ KeysOf(store') : GoesRightly(k)]_vars
  BY NextKeepsOrder
<1> QED BY <1>1, <1>2, <1>3, AlwaysIInv, PTL DEF Spec, EvictsLeastRecent
=============================================================================

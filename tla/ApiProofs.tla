------------------------------ MODULE ApiProofs ------------------------------
(***************************************************************************)
(* Why the API keeps its limits and tells the truth about its job.  No     *)
(* more agents run than there are slots: for any number of clients, slots  *)
(* and events.  The rate limit lets through no more than its stores count, *)
(* with a Retry-After that is right: for any number of instances, limit    *)
(* and window.  And the status of the benchmark job is true, a snapshot    *)
(* that was superseded never comes back, and scores and champion belong    *)
(* together: for any number of background threads, operators and models,   *)
(* in either storage mode, with every fault of Benchmark.                  *)
(***************************************************************************)
EXTENDS QuerySlots, RateLimiter, Benchmark, FiniteSetTheorems, WellFoundedInduction, TLAPS

Counted == SlotsTypeOK /\ SlotsAccounted

(* The requests that hold a slot are finitely many.                        *)
LEMMA HoldersFinite == IsFiniteSet(Holders) /\ Cardinality(Holders) \in Nat
<1>1. IsFiniteSet(Holders)
  BY SlotConstants, FS_Subset DEF Holders
<1> QED BY <1>1, FS_CardinalityType

(* At first no request holds a slot.                                       *)
LEMMA InitCounted == SlotsInit => Counted
<1> SUFFICES ASSUME SlotsInit PROVE Counted
  OBVIOUS
<1>1. SlotsTypeOK
  <2>1. where \in [Clients -> {"idle", "shed", "query", "accepted", "running", "sending",
                            "dropped"}]
    BY DEF SlotsInit
  <2>2. slots \in 0 .. MaxConcurrent /\ left \in [Clients -> 0 .. MaxEvents] /\ lost \in Nat
    BY SlotConstants DEF SlotsInit
  <2> QED BY <2>1, <2>2 DEF SlotsTypeOK
<1>2. Holders = {}
  BY DEF SlotsInit, Holders
<1>3. Cardinality(Holders) = 0
  BY <1>2, FS_EmptySet
<1> QED BY <1>1, <1>3, SlotConstants DEF SlotsInit, SlotsAccounted, Counted

(* What a client's step does to the set of requests that hold a slot.      *)
LEMMA Moves ==
  ASSUME SlotsTypeOK, NEW c \in Clients, NEW from, NEW to, Goto(c, from, to),
         to \in {"idle", "shed", "query", "accepted", "running", "sending", "dropped"}
  PROVE  /\ where' \in [Clients -> {"idle", "shed", "query", "accepted", "running", "sending",
                                 "dropped"}]
         /\ Holders' = IF to \in {"idle", "shed"} THEN Holders \ {c} ELSE Holders \cup {c}
         /\ c \in Holders <=> from \notin {"idle", "shed"}
<1>1. where' = [where EXCEPT ![c] = to] /\ where[c] = from
  BY DEF Goto
<1>2. where' \in [Clients -> {"idle", "shed", "query", "accepted", "running", "sending", "dropped"}]
  BY <1>1 DEF SlotsTypeOK
<1>3. \A d \in Clients : where'[d] = IF d = c THEN to ELSE where[d]
  BY <1>1 DEF SlotsTypeOK
<1> QED BY <1>1, <1>2, <1>3 DEF Holders

(* A step of a client keeps the count.                                     *)
LEMMA StepCounted ==
  ASSUME Counted, NEW c \in Clients,
         Query(c) \/ Stream(c) \/ Shed(c) \/ Retry(c) \/ Advance(c) \/ LeaveEarly(c)
  PROVE  Counted'
<1> DEFINE n == Cardinality(Holders)
<1>t. /\ slots \in 0 .. MaxConcurrent /\ left \in [Clients -> 0 .. MaxEvents]
      /\ lost \in Nat /\ MaxConcurrent \in Nat /\ MaxEvents \in Nat
      /\ n \in Nat /\ slots + n + lost = MaxConcurrent /\ SlotsTypeOK
  BY SlotConstants, HoldersFinite DEF Counted, SlotsTypeOK, SlotsAccounted
<1>a. Cardinality(Holders \cup {c}) = IF c \in Holders THEN n ELSE n + 1
  BY HoldersFinite, FS_AddElement
<1>r. Cardinality(Holders \ {c}) = IF c \in Holders THEN n - 1 ELSE n
  BY HoldersFinite, FS_RemoveElement
<1>1. CASE Query(c)
  <2>1. Goto(c, "idle", "query") /\ slots > 0 /\ slots' = slots - 1
        /\ left' = left /\ lost' = lost
    BY <1>1 DEF Query, Acquire
  <2>2. Cardinality(Holders') = n + 1
    BY <2>1, <1>t, <1>a, Moves
  <2> QED BY <2>1, <2>2, <1>t, Moves DEF Counted, SlotsTypeOK, SlotsAccounted
<1>2. CASE Stream(c)
  <2>1. Goto(c, "idle", "accepted") /\ slots > 0 /\ slots' = slots - 1
        /\ left' \in [Clients -> 0 .. MaxEvents] /\ lost' = lost
    BY <1>2, <1>t DEF Stream, Acquire
  <2>2. Cardinality(Holders') = n + 1
    BY <2>1, <1>t, <1>a, Moves
  <2> QED BY <2>1, <2>2, <1>t, Moves DEF Counted, SlotsTypeOK, SlotsAccounted
<1>3. CASE Shed(c) \/ Retry(c)
  <2>1. /\ Goto(c, "idle", "shed") \/ Goto(c, "shed", "idle")
        /\ slots' = slots /\ left' = left /\ lost' = lost
    BY <1>3 DEF Shed, Retry
  <2>2. Cardinality(Holders') = n
    BY <2>1, <1>t, <1>r, Moves
  <2> QED BY <2>1, <2>2, <1>t, Moves DEF Counted, SlotsTypeOK, SlotsAccounted
<1>4. CASE EndQuery(c) \/ EndStream(c) \/ Collect(c)
  <2>1. /\ Goto(c, "query", "idle") \/ Goto(c, "running", "idle") \/ Goto(c, "dropped", "idle")
        /\ slots' = slots + 1 /\ left' = left /\ lost' = lost
    BY <1>4 DEF EndQuery, EndStream, Collect, Release
  <2>2. Cardinality(Holders') = n - 1
    BY <2>1, <1>t, <1>r, Moves
  <2>3. Cardinality(Holders') \in Nat
    <3>1. IsFiniteSet(Holders')
      BY <2>1, <1>t, Moves, HoldersFinite, FS_RemoveElement
    <3> QED BY <3>1, FS_CardinalityType
  <2> QED BY <2>1, <2>2, <2>3, <1>t, Moves DEF Counted, SlotsTypeOK, SlotsAccounted
<1>5. CASE Begin(c) \/ Send(c) \/ Resume(c) \/ Leave(c)
  <2>1. /\ \/ Goto(c, "accepted", "running") \/ Goto(c, "running", "sending")
           \/ Goto(c, "sending", "running") \/ Goto(c, "sending", "dropped")
        /\ slots' = slots /\ left' \in [Clients -> 0 .. MaxEvents] /\ lost' = lost
    BY <1>5, <1>t DEF Begin, Send, Resume, Leave
  <2>2. Cardinality(Holders') = n
    BY <2>1, <1>t, <1>a, Moves
  <2> QED BY <2>1, <2>2, <1>t, Moves DEF Counted, SlotsTypeOK, SlotsAccounted
<1>6. CASE LeaveEarly(c)
  <2>1. Goto(c, "accepted", "idle") /\ slots' = slots /\ left' = left /\ lost' = lost + 1
    BY <1>6 DEF LeaveEarly
  <2>2. Cardinality(Holders') = n - 1
    BY <2>1, <1>t, <1>r, Moves
  <2> QED BY <2>1, <2>2, <1>t, Moves DEF Counted, SlotsTypeOK, SlotsAccounted
<1> QED BY <1>1, <1>2, <1>3, <1>4, <1>5, <1>6 DEF Advance

(* So does every step.                                                     *)
LEMMA NextCounted == Counted /\ [SlotsNext]_slotsVars => Counted'
<1> SUFFICES ASSUME Counted, [SlotsNext]_slotsVars PROVE Counted'
  OBVIOUS
<1>1. CASE SlotsNext
  BY <1>1, StepCounted DEF SlotsNext
<1>2. CASE UNCHANGED slotsVars
  BY <1>2 DEF slotsVars, Counted, SlotsTypeOK, SlotsAccounted, Holders
<1> QED BY <1>1, <1>2

(* No slot of _QUERY_SEM is given back twice or forgotten, but for streams *)
(* whose generator never began.                                            *)
THEOREM EverySlotAccounted == SlotsSpec => []SlotsAccounted
<1>1. Counted => SlotsAccounted
  BY DEF Counted
<1> QED BY <1>1, InitCounted, NextCounted, PTL DEF SlotsSpec

(* The semaphore keeps between 0 and its initial value.                    *)
THEOREM SlotTypes == SlotsSpec => []SlotsTypeOK
<1>1. Counted => SlotsTypeOK
  BY DEF Counted
<1> QED BY <1>1, InitCounted, NextCounted, PTL DEF SlotsSpec

(* No more agents run at a time than api.max_concurrent_queries.           *)
THEOREM CeilingHolds == SlotsSpec => []AgentsBounded
<1>1. Counted => AgentsBounded
  <2> SUFFICES ASSUME Counted PROVE AgentsBounded
    OBVIOUS
  <2>1. Serving \in SUBSET Holders
    BY DEF Serving, Holders
  <2>2. Cardinality(Serving) <= Cardinality(Holders) /\ Cardinality(Serving) \in Nat
    BY <2>1, HoldersFinite, FS_Subset, FS_CardinalityType
  <2> QED BY <2>2, HoldersFinite, SlotConstants
          DEF Counted, SlotsTypeOK, SlotsAccounted, AgentsBounded
<1> QED BY <1>1, InitCounted, NextCounted, PTL DEF SlotsSpec
-----------------------------------------------------------------------------
(* The rate limit.  First, what the operators of RateLimiter compute.      *)

(* A non-empty set of natural numbers up to n has a greatest element.      *)
LEMMA GreatestExists ==
  ASSUME NEW n \in Nat, NEW S \in SUBSET (0 .. n), S # {}
  PROVE  Max(S) \in S /\ \A y \in S : Max(S) >= y
<1> DEFINE Up(s) == s .. n
           T == {Up(s) : s \in S}
<1>1. T \subseteq FiniteSubsetsOf(Nat) /\ T # {}
  <2>1. \A s \in S : Up(s) \in SUBSET Nat /\ IsFiniteSet(Up(s))
    BY FS_Interval
  <2> QED BY <2>1 DEF FiniteSubsetsOf
<1>2. PICK x \in T : \A y \in T : ~ (<<y, x>> \in StrictSubsetOrdering(Nat))
  <2> HIDE DEF T
  <2> QED BY <1>1, FS_StrictSubsetOrderingWellFounded, WFMin
<1>3. PICK s \in S : x = Up(s)
  OBVIOUS
<1>4. \A y \in S : s >= y
  <2> SUFFICES ASSUME NEW y \in S, y > s PROVE FALSE
    OBVIOUS
  <2>1. Up(y) \in T /\ Up(y) \subseteq Up(s) /\ s \in Up(s) /\ s \notin Up(y)
    OBVIOUS
  <2>2. <<Up(y), Up(s)>> \in StrictSubsetOrdering(Nat)
    <3>1. Up(y) \in SUBSET Nat /\ Up(s) \in SUBSET Nat /\ Up(y) # Up(s)
      BY <2>1
    <3> QED BY <2>1, <3>1 DEF StrictSubsetOrdering
  <2> QED BY <1>2, <1>3, <2>1, <2>2
<1> QED BY <1>4 DEF Max

(* Ages that do not increase: the oldest hit comes first.                  *)
OldestFirst(ages) == \A j, k \in DOMAIN ages : j <= k => ages[j] >= ages[k]

(* The loop of popleft drops the hits that are too old and no others.      *)
LEMMA GoneAreOld ==
  ASSUME NEW ages \in Seq(Ages)
  PROVE  /\ Gone(ages) \in 0 .. Len(ages)
         /\ Gone(ages) # 0 => ages[Gone(ages)] >= Window
         /\ \A k \in DOMAIN ages : k > Gone(ages) => ages[k] < Window
<1> DEFINE S == {0} \cup {k \in DOMAIN ages : ages[k] >= Window}
<1>1. Len(ages) \in Nat /\ DOMAIN ages = 1 .. Len(ages) /\ Window \in Nat
      /\ \A k \in DOMAIN ages : ages[k] \in Nat
  BY LimiterConstants DEF Ages
<1>2. S \in SUBSET (0 .. Len(ages)) /\ S # {}
  BY <1>1
<1>3. Max(S) \in S /\ \A y \in S : Max(S) >= y
  BY <1>1, <1>2, GreatestExists
<1>4. Gone(ages) = Max(S)
  BY DEF Gone
<1> HIDE DEF S
<1>5. Gone(ages) \in S /\ \A y \in S : Gone(ages) >= y
  BY <1>3, <1>4
<1> USE DEF S
<1> QED BY <1>1, <1>5

(* What a tick makes of a list of ages.                                    *)
LEMMA OlderList ==
  ASSUME NEW ages \in Seq(Ages)
  PROVE  /\ Older(ages) \in Seq(Ages) /\ Len(Older(ages)) = Len(ages) - Gone(ages)
         /\ \A k \in DOMAIN Older(ages) :
              k + Gone(ages) \in DOMAIN ages /\ Older(ages)[k] = ages[k + Gone(ages)] + 1
         /\ OldestFirst(ages) => OldestFirst(Older(ages))
<1> DEFINE n == Gone(ages)
           m == Len(ages) - n
<1>1. /\ n \in 0 .. Len(ages) /\ m \in Nat
      /\ DOMAIN ages = 1 .. Len(ages) /\ Len(ages) \in Nat /\ Window \in Nat
      /\ \A k \in DOMAIN ages : ages[k] \in 0 .. Window /\ (k > n => ages[k] < Window)
  BY GoneAreOld, LimiterConstants DEF Ages
<1>2. Older(ages) = [k \in 1 .. m |-> ages[k + n] + 1]
  BY DEF Older
<1> HIDE DEF n, m
<1>3. \A k \in 1 .. m : k + n \in DOMAIN ages /\ k + n > n
  BY <1>1 DEF m
<1>4. ASSUME NEW k \in 1 .. m PROVE ages[k + n] + 1 \in Ages
  <2>1. PICK a : a = ages[k + n]
    OBVIOUS
  <2>2. a \in 0 .. Window /\ a < Window
    BY <1>1, <1>3, <2>1
  <2>3. a + 1 \in 0 .. Window
    BY <1>1, <2>2
  <2> QED BY <2>1, <2>3 DEF Ages
<1>5. Older(ages) \in Seq(Ages) /\ Len(Older(ages)) = m /\ DOMAIN Older(ages) = 1 .. m
  <2>1. PICK o : o = Older(ages)
    OBVIOUS
  <2>2. o \in [1 .. m -> Ages]
    BY <1>2, <1>4, <2>1
  <2>3. m \in Nat
    BY <1>1
  <2>4. o \in Seq(Ages) /\ Len(o) = m /\ DOMAIN o = 1 .. m
    BY <2>2, <2>3
  <2> QED BY <2>1, <2>4
<1>6. ASSUME OldestFirst(ages) PROVE OldestFirst(Older(ages))
  <2> SUFFICES ASSUME NEW j \in 1 .. m, NEW k \in 1 .. m, j <= k
               PROVE  ages[j + n] + 1 >= ages[k + n] + 1
    BY <1>2, <1>5 DEF OldestFirst
  <2>1. j + n <= k + n /\ ages[j + n] \in Nat /\ ages[k + n] \in Nat
    BY <1>1, <1>3
  <2> QED BY <1>3, <1>6, <2>1 DEF OldestFirst
<1> QED BY <1>2, <1>3, <1>5, <1>6 DEF n, m

(* Division with remainder.                                                *)
LEMMA Division ==
  ASSUME NEW n \in Nat, NEW d \in Nat \ {0}
  PROVE  n \div d \in Nat /\ d * (n \div d) <= n /\ n < d * (n \div d + 1)
OBVIOUS

(* The remainder of a number up to the divisor.                            *)
LEMMA Remainder ==
  ASSUME NEW d \in Nat \ {0}, NEW n \in 0 .. d
  PROVE  n % d = IF n = d THEN 0 ELSE n
OBVIOUS

(* The maximum of two numbers ...                                          *)
LEMMA MaxOfTwo ==
  ASSUME NEW a \in Int, NEW b \in Int
  PROVE  Max({a, b}) = IF a >= b THEN a ELSE b
BY DEF Max

(* ... and the minimum.                                                    *)
LEMMA MinOfTwo ==
  ASSUME NEW a \in Int, NEW b \in Int
  PROVE  Min({a, b}) = IF a <= b THEN a ELSE b
BY DEF Min

(* Types, the order of the hits, and why a counter that is not zero has a  *)
(* key that lives to the end of its minute: the EXPIRE of its first hit.   *)
KeyLives == count > 0 => ttl >= Window - phase

Ordered == OldestFirst(served) /\ \A i \in Instances : OldestFirst(hits[i])

LimiterSound == LimiterTypeOK /\ KeyLives /\ Ordered

(* A list of ages that takes a new hit stays in order.                     *)
LEMMA NewHitList ==
  ASSUME NEW ages \in Seq(Ages), OldestFirst(ages)
  PROVE  /\ Append(ages, 0) \in Seq(Ages) /\ OldestFirst(Append(ages, 0))
         /\ Len(Append(ages, 0)) = Len(ages) + 1
<1>1. 0 \in Ages /\ \A k \in DOMAIN ages : ages[k] >= 0
  BY LimiterConstants DEF Ages
<1>2. /\ Append(ages, 0) \in Seq(Ages) /\ Len(Append(ages, 0)) = Len(ages) + 1
      /\ \A k \in 1 .. Len(ages) + 1 :
           Append(ages, 0)[k] = IF k = Len(ages) + 1 THEN 0 ELSE ages[k]
  BY <1>1
<1> QED BY <1>1, <1>2 DEF OldestFirst

(* Counting a request in Redis keeps what is known of the counter.         *)
LEMMA IncrSound ==
  ASSUME LimiterSound, Incr
  PROVE  /\ count' \in 0 .. Limit + 1 /\ ttl' \in Ages
         /\ count' = IF count <= Limit THEN count + 1 ELSE count
         /\ phase' = phase => KeyLives'
<1>1. /\ count \in 0 .. Limit + 1 /\ ttl \in 0 .. Window /\ phase \in 0 .. Window - 1
      /\ Limit \in Nat /\ Window \in Nat
  BY LimiterConstants DEF LimiterSound, LimiterTypeOK, Ages
<1>2. count' = IF count <= Limit THEN count + 1 ELSE count
  BY <1>1, MinOfTwo DEF Incr
<1>3. ttl' = IF count = 0 THEN Window ELSE ttl
  BY DEF Incr
<1> QED BY <1>1, <1>2, <1>3 DEF LimiterSound, KeyLives, Ages

(* A decision in an instance keeps its hits in order and within the limit. *)
LEMMA InProcessSound ==
  ASSUME LimiterSound, NEW i \in Instances, InProcess(i)
  PROVE  /\ hits' \in [Instances -> Seq(Ages)] /\ \A j \in Instances : Len(hits'[j]) <= Limit
         /\ ahead' \in [Instances -> 0 .. MaxIPs - 1]
         /\ served' \in Seq(Ages) /\ OldestFirst(served')
         /\ \A j \in Instances : OldestFirst(hits'[j])
<1>1. /\ hits \in [Instances -> Seq(Ages)] /\ served \in Seq(Ages) /\ OldestFirst(served)
      /\ \A j \in Instances : Len(hits[j]) <= Limit /\ OldestFirst(hits[j])
      /\ ahead \in [Instances -> 0 .. MaxIPs - 1] /\ MaxIPs \in Nat \ {0} /\ Limit \in Nat
  BY LimiterConstants DEF LimiterSound, LimiterTypeOK, Ordered
<1>2. ahead' \in [Instances -> 0 .. MaxIPs - 1]
  BY <1>1 DEF InProcess
<1>3. CASE Len(hits[i]) >= Limit
  BY <1>1, <1>2, <1>3 DEF InProcess
<1>4. CASE ~ Len(hits[i]) >= Limit
  <2> DEFINE new == Append(hits[i], 0)
  <2>1. hits' = [hits EXCEPT ![i] = new] /\ served' = Append(served, 0)
    BY <1>4 DEF InProcess, Admit
  <2>2. /\ new \in Seq(Ages) /\ OldestFirst(new) /\ Len(new) = Len(hits[i]) + 1
        /\ Append(served, 0) \in Seq(Ages) /\ OldestFirst(Append(served, 0))
    BY <1>1, NewHitList
  <2> HIDE DEF new
  <2>3. Len(hits[i]) \in Nat
    BY <1>1
  <2>4. Len(new) <= Limit
    BY <1>1, <1>4, <2>2, <2>3
  <2> QED BY <1>1, <1>2, <2>1, <2>2, <2>4
<1> QED BY <1>3, <1>4

(* Dropping the hits of one instance.                                      *)
LEMMA ForgottenSound ==
  ASSUME LimiterSound, NEW i \in Instances, hits' = [hits EXCEPT ![i] = <<>>],
         ahead' = [ahead EXCEPT ![i] = 0], served' = <<>>,
         UNCHANGED <<shared, phase, count, ttl>>
  PROVE  LimiterSound'
<1>1. /\ <<>> \in Seq(Ages) /\ Len(<<>>) = 0 /\ OldestFirst(<<>>)
      /\ MaxIPs \in Nat \ {0} /\ Limit \in Nat
  BY LimiterConstants DEF OldestFirst
<1>2. LimiterTypeOK'
  BY <1>1 DEF LimiterSound, LimiterTypeOK
<1>3. Ordered'
  BY <1>1 DEF LimiterSound, LimiterTypeOK, Ordered
<1> QED BY <1>2, <1>3 DEF LimiterSound, KeyLives

(* At first all is empty.                                                  *)
LEMMA InitLimiterSound == LimiterInit => LimiterSound
<1> SUFFICES ASSUME LimiterInit PROVE LimiterSound
  OBVIOUS
<1>1. /\ <<>> \in Seq(Ages) /\ Len(<<>>) = 0 /\ OldestFirst(<<>>)
      /\ MaxIPs \in Nat \ {0} /\ Limit \in Nat /\ Window \in Nat \ {0}
  BY LimiterConstants DEF OldestFirst
<1>2. LimiterTypeOK
  BY <1>1 DEF LimiterInit, LimiterTypeOK, Ages
<1>3. Ordered /\ KeyLives
  BY <1>1 DEF LimiterInit, Ordered, KeyLives
<1> QED BY <1>2, <1>3 DEF LimiterSound

(* A tick.                                                                 *)
LEMMA TickSound == LimiterSound /\ Tick => LimiterSound'
<1> SUFFICES ASSUME LimiterSound, Tick PROVE LimiterSound'
  OBVIOUS
<1>1. /\ hits \in [Instances -> Seq(Ages)] /\ served \in Seq(Ages)
      /\ OldestFirst(served)
      /\ \A i \in Instances : Len(hits[i]) <= Limit /\ OldestFirst(hits[i])
      /\ ahead \in [Instances -> 0 .. MaxIPs - 1] /\ MaxIPs \in Nat \ {0} /\ Limit \in Nat
      /\ count \in 0 .. Limit + 1 /\ ttl \in 0 .. Window /\ phase \in 0 .. Window - 1
      /\ Window \in Nat \ {0} /\ shared \in BOOLEAN
  BY LimiterConstants DEF LimiterSound, LimiterTypeOK, Ordered, Ages
<1>2. /\ hits' = [i \in Instances |-> Older(hits[i])] /\ served' = Older(served)
      /\ ahead' = [i \in Instances |-> IF hits'[i] = <<>> THEN 0 ELSE ahead[i]]
      /\ shared' = shared
  BY DEF Tick
<1>3. \A i \in Instances :
        /\ hits'[i] \in Seq(Ages) /\ Len(hits'[i]) <= Limit /\ OldestFirst(hits'[i])
  <2> TAKE i \in Instances
  <2>1. /\ hits[i] \in Seq(Ages) /\ Len(hits[i]) \in Nat /\ Gone(hits[i]) \in Nat
        /\ OldestFirst(hits[i]) /\ Len(hits[i]) <= Limit
    BY <1>1, GoneAreOld
  <2>2. /\ Older(hits[i]) \in Seq(Ages) /\ Len(Older(hits[i])) = Len(hits[i]) - Gone(hits[i])
        /\ OldestFirst(Older(hits[i]))
    BY <2>1, OlderList
  <2>3. hits'[i] = Older(hits[i])
    BY <1>2
  <2> QED BY <1>1, <2>1, <2>2, <2>3
<1>4. served' \in Seq(Ages) /\ OldestFirst(served')
  BY <1>1, <1>2, OlderList
<1>5. hits' \in [Instances -> Seq(Ages)] /\ ahead' \in [Instances -> 0 .. MaxIPs - 1]
  BY <1>1, <1>2, <1>3
<1>6. /\ phase' \in 0 .. Window - 1 /\ count' \in 0 .. Limit + 1 /\ ttl' \in Ages
      /\ KeyLives'
  <2>1. phase' = IF phase = Window - 1 THEN 0 ELSE phase + 1
    <3>1. phase + 1 \in 0 .. Window /\ (phase + 1 = Window <=> phase = Window - 1)
      BY <1>1
    <3>2. (phase + 1) % Window = IF phase + 1 = Window THEN 0 ELSE phase + 1
      BY <1>1, <3>1, Remainder
    <3> QED BY <3>1, <3>2 DEF Tick
  <2>2. Max({ttl - 1, 0}) = IF ttl >= 1 THEN ttl - 1 ELSE 0
    <3>1. ttl - 1 \in Int /\ (ttl - 1 >= 0 <=> ttl >= 1)
      BY <1>1
    <3> QED BY <3>1, MaxOfTwo
  <2>3. count' = (IF phase' = 0 THEN 0 ELSE count)
        /\ ttl' = (IF phase' = 0 THEN 0 ELSE Max({ttl - 1, 0}))
    BY DEF Tick
  <2> QED BY <1>1, <2>1, <2>2, <2>3 DEF LimiterSound, KeyLives, Ages
<1> QED BY <1>1, <1>2, <1>3, <1>4, <1>5, <1>6 DEF LimiterSound, LimiterTypeOK, Ordered

(* A request, decided by Redis, by an instance, or by an instance after    *)
(* Redis failed.                                                           *)
LEMMA AskSound ==
  ASSUME LimiterSound, AskRedis \/ \E i \in Instances : AskAfterFailure(i) \/ AskInstance(i)
  PROVE  LimiterSound'
<1>1. /\ hits \in [Instances -> Seq(Ages)] /\ served \in Seq(Ages)
      /\ count \in 0 .. Limit + 1 /\ ttl \in Ages /\ phase \in 0 .. Window - 1
      /\ shared \in BOOLEAN /\ OldestFirst(served) /\ KeyLives
  BY DEF LimiterSound, LimiterTypeOK, Ordered
<1>2. CASE AskRedis
  <2>1. served' \in Seq(Ages) /\ OldestFirst(served')
    BY <1>1, <1>2, NewHitList DEF AskRedis, Admit
  <2>2. Incr /\ UNCHANGED <<shared, phase, hits, ahead>>
    BY <1>2 DEF AskRedis
  <2>3. count' \in 0 .. Limit + 1 /\ ttl' \in Ages /\ KeyLives'
    BY <2>2, IncrSound
  <2> QED BY <2>1, <2>2, <2>3 DEF LimiterSound, LimiterTypeOK, Ordered
<1>3. ASSUME NEW i \in Instances, AskAfterFailure(i) \/ AskInstance(i) PROVE LimiterSound'
  <2>1. InProcess(i) /\ shared' = shared /\ phase' = phase
        /\ (Incr \/ (count' = count /\ ttl' = ttl))
    BY <1>3 DEF AskAfterFailure, AskInstance
  <2>2. count' \in 0 .. Limit + 1 /\ ttl' \in Ages /\ KeyLives'
    <3>1. CASE Incr
      BY <2>1, <3>1, IncrSound
    <3>2. CASE count' = count /\ ttl' = ttl
      BY <1>1, <2>1, <3>2 DEF KeyLives
    <3> QED BY <2>1, <3>1, <3>2
  <2> QED BY <1>1, <2>1, <2>2, InProcessSound DEF LimiterSound, LimiterTypeOK, Ordered
<1> QED BY <1>2, <1>3

(* So is every step.                                                       *)
LEMMA NextLimiterSound == LimiterSound /\ [LimiterNext]_limiterVars => LimiterSound'
<1> SUFFICES ASSUME LimiterSound, [LimiterNext]_limiterVars PROVE LimiterSound'
  OBVIOUS
<1>1. CASE RedisRestart
  <2>1. <<>> \in Seq(Ages) /\ OldestFirst(<<>>) /\ Limit \in Nat /\ Window \in Nat
    BY LimiterConstants DEF OldestFirst
  <2> QED BY <1>1, <2>1
          DEF RedisRestart, LimiterSound, LimiterTypeOK, Ordered, KeyLives, Ages
<1>2. ASSUME NEW i \in Instances, OtherClient(i) PROVE LimiterSound'
  <2>1. CASE ahead[i] = MaxIPs - 1
    BY <1>2, <2>1, ForgottenSound DEF OtherClient
  <2>2. CASE ahead[i] # MaxIPs - 1
    <3>1. ahead' \in [Instances -> 0 .. MaxIPs - 1]
      BY <1>2, <2>2, LimiterConstants DEF OtherClient, LimiterSound, LimiterTypeOK
    <3>2. UNCHANGED <<hits, served, shared, phase, count, ttl>>
      BY <1>2, <2>2 DEF OtherClient
    <3> QED BY <3>1, <3>2 DEF LimiterSound, LimiterTypeOK, Ordered, KeyLives
  <2> QED BY <2>1, <2>2
<1>3. ASSUME NEW i \in Instances, Restart(i) PROVE LimiterSound'
  BY <1>3, ForgottenSound DEF Restart
<1>4. CASE UNCHANGED limiterVars
  BY <1>4 DEF limiterVars, LimiterSound, LimiterTypeOK, Ordered, KeyLives
<1> QED BY <1>1, <1>2, <1>3, <1>4, TickSound, AskSound DEF LimiterNext

(* "memory can't grow without limit": an instance remembers no more hits   *)
(* of a client than it may let through, and no more clients than the       *)
(* bound.                                                                  *)
THEOREM LimiterTypes == LimiterSpec => []LimiterTypeOK
<1>1. LimiterSound => LimiterTypeOK
  BY DEF LimiterSound
<1> QED BY <1>1, InitLimiterSound, NextLimiterSound, PTL DEF LimiterSpec

(* A refusal of an instance: a second after the hint its oldest hit has    *)
(* left the window.                                                        *)
LEMMA InstanceHint ==
  ASSUME LimiterSound, NEW i \in Instances, Len(hits[i]) >= Limit,
         NEW later \in Int, later = (RetryHint(hits[i][1]) + 1) * Second
  PROVE  Cardinality({k \in DOMAIN hits[i] : hits[i][k] + later <= Window}) < Limit
<1> DEFINE old == hits[i][1]
           In == {k \in DOMAIN hits[i] : hits[i][k] + later <= Window}
<1>1. /\ hits[i] \in Seq(Ages) /\ Len(hits[i]) = Limit /\ Limit \in Nat \ {0}
      /\ Window \in Nat /\ Second \in Nat \ {0}
  BY LimiterConstants DEF LimiterSound, LimiterTypeOK
<1>2. old \in 0 .. Window
  BY <1>1 DEF Ages
<1>3. old + later > Window
  <2> DEFINE q == (Window - old) \div Second
  <2>1. q \in Nat /\ Window - old < Second * (q + 1)
    <3>1. Window - old \in Nat
      BY <1>1, <1>2
    <3> QED BY <1>1, <3>1, Division
  <2>2. RetryHint(old) = Max({1, q})
    BY DEF RetryHint
  <2> HIDE DEF q, old
  <2>3. RetryHint(old) \in Nat /\ RetryHint(old) >= q
    BY <2>1, <2>2, MaxOfTwo
  <2>4. Second * (q + 1) <= (RetryHint(old) + 1) * Second
    BY <1>1, <2>1, <2>3
  <2>5. later = (RetryHint(old) + 1) * Second
    BY DEF old
  <2> QED BY <1>1, <1>2, <2>1, <2>3, <2>4, <2>5
<1>4. In \in SUBSET (2 .. Limit)
  <2>1. DOMAIN hits[i] = 1 .. Limit /\ Limit \in Nat
    BY <1>1
  <2>2. 1 \notin In
    <3>1. ~ (old + later <= Window)
      BY <1>1, <1>2, <1>3
    <3> QED BY <3>1
  <2> QED BY <2>1, <2>2
<1>5. IsFiniteSet(2 .. Limit) /\ Cardinality(2 .. Limit) = Limit - 1
  <2>1. Limit \in Int /\ 2 \in Int /\ (IF 2 > Limit THEN 0 ELSE Limit - 2 + 1) = Limit - 1
    BY LimiterConstants
  <2> QED BY <2>1, FS_Interval
<1> HIDE DEF In
<1>6. Cardinality(In) <= Limit - 1 /\ Cardinality(In) \in Nat
  BY <1>4, <1>5, FS_Subset, FS_CardinalityType
<1> QED BY <1>1, <1>6 DEF In

(* A refusal of Redis: a second after the hint a new minute has begun.     *)
LEMMA RedisHintReaches ==
  ASSUME LimiterSound, count > Limit
  PROVE  phase + (RedisHint + 1) * Second >= Window
<1> DEFINE s == (2 * ttl + Second) \div (2 * Second)
           h == RedisHint
<1>1. /\ ttl \in 0 .. Window /\ phase \in 0 .. Window - 1 /\ Window \in Nat \ {0}
      /\ Second \in Nat \ {0} /\ Limit \in Nat /\ count \in Nat
  BY LimiterConstants DEF LimiterSound, LimiterTypeOK, Ages
<1>2. ttl >= Window - phase
  BY <1>1 DEF LimiterSound, KeyLives
<1>3. s \in Nat /\ 2 * ttl + Second < (2 * Second) * (s + 1)
  <2>1. 2 * ttl + Second \in Nat /\ 2 * Second \in Nat \ {0}
    BY <1>1
  <2> QED BY <2>1, Division
<1>4. h = IF s > 0 THEN s ELSE Window \div Second
  BY DEF RedisHint
<1>5. Window \div Second \in Nat /\ Window < Second * (Window \div Second + 1)
  BY <1>1, Division
<1> HIDE DEF s, h
<1>6. CASE s > 0
  <2>1. (2 * Second) * (s + 1) = 2 * ((h + 1) * Second)
    BY <1>1, <1>3, <1>4, <1>6
  <2> DEFINE x == (h + 1) * Second
  <2>2. x \in Int
    BY <1>1, <1>3, <1>4, <1>6
  <2> HIDE DEF x
  <2>3. 2 * ttl + Second < 2 * x
    BY <1>3, <2>1 DEF x
  <2>4. phase + x >= Window
    BY <1>1, <1>2, <2>2, <2>3
  <2> QED BY <2>4 DEF x, h
<1>7. CASE ~ s > 0
  <2>1. (h + 1) * Second = Second * (Window \div Second + 1)
    BY <1>1, <1>4, <1>5, <1>7
  <2> DEFINE x == (h + 1) * Second
  <2>2. x \in Int /\ x > Window
    BY <1>1, <1>5, <2>1
  <2> HIDE DEF x
  <2>3. phase + x >= Window
    BY <1>1, <2>2
  <2> QED BY <2>3 DEF x, h
<1> QED BY <1>6, <1>7

(* Retry-After is right: whoever is refused by a store and comes back a    *)
(* second after it was told to is let through by it.                       *)
THEOREM HintIsRight == LimiterSpec => []HintSuffices
<1>1. LimiterSound => HintSuffices
  <2> SUFFICES ASSUME LimiterSound PROVE HintSuffices
    OBVIOUS
  <2>1. ASSUME NEW i \in Instances, Len(hits[i]) >= Limit
        PROVE  Cardinality({k \in DOMAIN hits[i] :
                 hits[i][k] + (RetryHint(hits[i][1]) + 1) * Second <= Window}) < Limit
    <3>1. hits[i][1] \in 0 .. Window /\ Window \in Nat /\ Second \in Nat \ {0}
      BY <2>1, LimiterConstants DEF LimiterSound, LimiterTypeOK, Ages
    <3>2. RetryHint(hits[i][1]) \in Int
      <4>1. Window - hits[i][1] \in Nat
        BY <3>1
      <4>2. (Window - hits[i][1]) \div Second \in Int
        BY <3>1, <4>1, Division
      <4> QED BY <4>2, MaxOfTwo DEF RetryHint
    <3>3. (RetryHint(hits[i][1]) + 1) * Second \in Int
      BY <3>1, <3>2
    <3> QED BY <2>1, <3>3, InstanceHint
  <2> QED BY <2>1, RedisHintReaches DEF HintSuffices
<1> QED BY <1>1, InitLimiterSound, NextLimiterSound, PTL DEF LimiterSpec
-----------------------------------------------------------------------------
(* Every request that was let through and is still in the window is        *)
(* counted, each under a number of its own: among the hits of an instance, *)
(* as a hit of its age, or in the counter of this minute of Redis, or, if  *)
(* it is older than the minute, in that of the minute before.              *)
Now == <<"redis", "now">>
Before == <<"redis", "before">>

Stores == ({"alone"} \X Instances) \cup {Now, Before}

Counts == {c \in Stores \X (1 .. Limit) \X Ages :
  \/ \E i \in Instances :
       c[1] = <<"alone", i>> /\ c[2] <= Len(hits[i]) /\ hits[i][c[2]] = c[3]
  \/ c[1] = Now /\ shared /\ c[2] <= count /\ c[3] <= phase
  \/ c[1] = Before /\ shared /\ c[3] > phase}

Accounts(by, nth) ==
  /\ \A k \in DOMAIN served : <<by[k], nth[k], served[k]>> \in Counts
  /\ \A k, l \in DOMAIN served : by[k] = by[l] /\ nth[k] = nth[l] => k = l

Accounted == \E by, nth : Accounts(by, nth)

(* Nothing to account for.                                                 *)
LEMMA NoneAccounted == ASSUME served = <<>> PROVE Accounted
BY DEF Accounted, Accounts

(* What was counted stays counted, and nobody new is let through.          *)
LEMMA SameAccounted ==
  ASSUME Accounted, served' = served, Counts \subseteq Counts'
  PROVE  Accounted'
<1>1. PICK by, nth : Accounts(by, nth)
  BY DEF Accounted
<1>2. Accounts(by, nth)'
  BY <1>1 DEF Accounts
<1> QED BY <1>2 DEF Accounted

(* What was counted stays counted, and the one who is let through is       *)
(* counted where nobody was.                                               *)
LEMMA MoreAccounted ==
  ASSUME Accounted, served \in Seq(Ages), served' = Append(served, 0),
         Counts \subseteq Counts',
         NEW store, NEW n, <<store, n, 0>> \in Counts',
         \A age : <<store, n, age>> \notin Counts
  PROVE  Accounted'
<1>1. PICK by, nth : Accounts(by, nth)
  BY DEF Accounted
<1> DEFINE m == Len(served) + 1
           by2 == [k \in 1 .. m |-> IF k = m THEN store ELSE by[k]]
           nth2 == [k \in 1 .. m |-> IF k = m THEN n ELSE nth[k]]
<1>2. /\ DOMAIN served = 1 .. m - 1 /\ DOMAIN served' = 1 .. m /\ m \in Nat \ {0}
      /\ \A k \in 1 .. m : served'[k] = IF k = m THEN 0 ELSE served[k]
  <2>1. Len(served) \in Nat /\ DOMAIN served = 1 .. Len(served) /\ 0 \in Ages
    BY LimiterConstants DEF Ages
  <2> QED BY <2>1
<1> HIDE DEF m
<1>3. \A k \in DOMAIN served' : <<by2[k], nth2[k], served'[k]>> \in Counts'
  <2> SUFFICES ASSUME NEW k \in 1 .. m PROVE <<by2[k], nth2[k], served'[k]>> \in Counts'
    BY <1>2
  <2>1. CASE k = m
    BY <1>2, <2>1
  <2>2. CASE k # m
    <3>1. k \in DOMAIN served /\ served'[k] = served[k] /\ by2[k] = by[k] /\ nth2[k] = nth[k]
      BY <1>2, <2>2
    <3>2. <<by[k], nth[k], served[k]>> \in Counts
      BY <1>1, <3>1 DEF Accounts
    <3> QED BY <3>1, <3>2
  <2> QED BY <2>1, <2>2
<1>4. ASSUME NEW k \in DOMAIN served', NEW l \in DOMAIN served',
             by2[k] = by2[l], nth2[k] = nth2[l]
      PROVE  k = l
  <2>1. CASE k = m /\ l # m
    <3>1. store = by[l] /\ n = nth[l] /\ l \in DOMAIN served
      BY <1>2, <1>4, <2>1
    <3> QED BY <1>1, <3>1 DEF Accounts
  <2>2. CASE k # m /\ l = m
    <3>1. store = by[k] /\ n = nth[k] /\ k \in DOMAIN served
      BY <1>2, <1>4, <2>2
    <3> QED BY <1>1, <3>1 DEF Accounts
  <2>3. CASE k # m /\ l # m
    <3>1. by[k] = by[l] /\ nth[k] = nth[l] /\ k \in DOMAIN served /\ l \in DOMAIN served
      BY <1>2, <1>4, <2>3
    <3> QED BY <1>1, <3>1 DEF Accounts
  <2> QED BY <2>1, <2>2, <2>3
<1> HIDE DEF by2, nth2
<1>5. PICK b, o : b = by2 /\ o = nth2
  OBVIOUS
<1>6. Accounts(b, o)'
  BY <1>3, <1>4, <1>5 DEF Accounts
<1> QED BY <1>6 DEF Accounted

(* What a step leaves alone stays counted.                                 *)
LEMMA CountsGrow ==
  ASSUME LimiterSound, shared' = shared, phase' = phase, count' >= count, count' \in Nat,
         \A i \in Instances : Len(hits'[i]) >= Len(hits[i])
                              /\ \A n \in DOMAIN hits[i] : hits'[i][n] = hits[i][n],
         hits' \in [Instances -> Seq(Ages)]
  PROVE  Counts \subseteq Counts'
<1> SUFFICES ASSUME NEW c \in Counts PROVE c \in Counts'
  OBVIOUS
<1>1. c \in Stores \X (1 .. Limit) \X Ages /\ c[2] \in 1 .. Limit /\ c[3] \in Ages
  BY DEF Counts
<1>2. count \in Nat /\ Limit \in Nat
  BY LimiterConstants DEF LimiterSound, LimiterTypeOK
<1>3. CASE \E i \in Instances :
             c[1] = <<"alone", i>> /\ c[2] <= Len(hits[i]) /\ hits[i][c[2]] = c[3]
  <2>1. PICK i \in Instances :
          c[1] = <<"alone", i>> /\ c[2] <= Len(hits[i]) /\ hits[i][c[2]] = c[3]
    BY <1>3
  <2>2. hits[i] \in Seq(Ages) /\ hits'[i] \in Seq(Ages)
    BY DEF LimiterSound, LimiterTypeOK
  <2>3. c[2] \in DOMAIN hits[i] /\ c[2] <= Len(hits'[i])
    BY <1>1, <1>2, <2>1, <2>2
  <2>4. hits'[i][c[2]] = c[3]
    BY <2>1, <2>3
  <2> QED BY <1>1, <2>1, <2>3, <2>4 DEF Counts
<1>4. CASE c[1] = Now /\ shared /\ c[2] <= count /\ c[3] <= phase
  <2>1. c[2] <= count'
    BY <1>1, <1>2, <1>4
  <2> QED BY <1>1, <1>4, <2>1 DEF Counts
<1>5. CASE c[1] = Before /\ shared /\ c[3] > phase
  BY <1>1, <1>5 DEF Counts
<1> QED BY <1>3, <1>4, <1>5 DEF Counts

(* What becomes, in a tick, of a number under which a request is counted   *)
(* that stays in the window: an instance renumbers, Redis does not, and    *)
(* with a new minute this minute is the one before.                        *)
LEMMA TickCounts ==
  ASSUME LimiterSound, Tick, NEW s, NEW n, NEW a, <<s, n, a>> \in Counts, a < Window
  PROVE  /\ n \in Nat
         /\ \/ /\ \E i \in Instances : s = <<"alone", i>>
               /\ <<s, n - Gone(hits[s[2]]), a + 1>> \in Counts'
            \/ s = Now /\ <<IF phase' = 0 THEN Before ELSE Now, n, a + 1>> \in Counts'
            \/ s = Before /\ phase' # 0 /\ <<Before, n, a + 1>> \in Counts'
<1>1. /\ count \in Nat /\ phase \in 0 .. Window - 1 /\ Limit \in Nat
      /\ Window \in Nat \ {0} /\ s \in Stores /\ n \in 1 .. Limit /\ a \in 0 .. Window
      /\ a + 1 \in Ages
  <2>1. count \in Nat /\ phase \in 0 .. Window - 1 /\ Limit \in Nat /\ Window \in Nat \ {0}
    BY LimiterConstants DEF LimiterSound, LimiterTypeOK
  <2>2. <<s, n, a>> \in Stores \X (1 .. Limit) \X Ages
    BY DEF Counts
  <2>3. s \in Stores /\ n \in 1 .. Limit /\ a \in 0 .. Window
    BY <2>2 DEF Ages
  <2> QED BY <2>1, <2>3 DEF Ages
<1>2. phase' = IF phase = Window - 1 THEN 0 ELSE phase + 1
  <2>1. phase + 1 \in 0 .. Window /\ (phase + 1 = Window <=> phase = Window - 1)
    BY <1>1
  <2>2. (phase + 1) % Window = IF phase + 1 = Window THEN 0 ELSE phase + 1
    BY <1>1, <2>1, Remainder
  <2> QED BY <2>1, <2>2 DEF Tick
<1>3. /\ shared' = shared /\ hits' = [i \in Instances |-> Older(hits[i])]
      /\ count' = IF phase' = 0 THEN 0 ELSE count
  BY DEF Tick
<1>4. ASSUME NEW i \in Instances, s = <<"alone", i>>, n <= Len(hits[i]), hits[i][n] = a
      PROVE  <<s, n - Gone(hits[s[2]]), a + 1>> \in Counts'
  <2> DEFINE g == Gone(hits[i])
             old == hits[i]
  <2>1. old \in Seq(Ages) /\ OldestFirst(old) /\ Len(old) <= Limit
    BY DEF LimiterSound, LimiterTypeOK, Ordered
  <2>2. /\ g \in 0 .. Len(old) /\ Len(old) \in Nat /\ DOMAIN old = 1 .. Len(old)
        /\ g # 0 => old[g] >= Window
    BY <2>1, GoneAreOld
  <2>3. /\ Len(Older(old)) = Len(old) - g /\ Older(old) \in Seq(Ages)
        /\ \A k \in DOMAIN Older(old) : Older(old)[k] = old[k + g] + 1
    BY <2>1, OlderList
  <2>4. hits'[i] = Older(old)
    BY <1>3
  <2>5. n \in DOMAIN old
    BY <1>1, <1>4, <2>2
  <2>6. n > g
    <3> SUFFICES ASSUME n <= g PROVE FALSE
      BY <1>1, <2>2
    <3>1. g \in DOMAIN old /\ g # 0
      BY <1>1, <2>2
    <3>2. old[g] \in Nat /\ old[g] >= Window
      <4>1. old[g] \in Ages
        <5> HIDE DEF old, g
        <5> QED BY <2>1, <3>1
      <4> QED BY <1>1, <2>2, <3>1, <4>1 DEF Ages
    <3>3. old[n] >= old[g]
      <4> HIDE DEF old, g
      <4> QED BY <2>1, <2>5, <3>1 DEF OldestFirst
    <3> QED BY <1>1, <1>4, <3>2, <3>3
  <2> HIDE DEF g, old
  <2>7. n - g \in 1 .. Limit /\ n - g <= Len(Older(old)) /\ n - g \in DOMAIN Older(old)
    BY <1>1, <2>1, <2>2, <2>3, <2>5, <2>6
  <2>8. Older(old)[n - g] = a + 1
    <3>1. Older(old)[n - g] = old[(n - g) + g] + 1
      BY <2>3, <2>7
    <3>2. (n - g) + g = n /\ old[n] = a
      BY <1>1, <1>4, <2>2 DEF old
    <3> QED BY <3>1, <3>2
  <2>9. <<s, n - g, a + 1>> \in Counts'
    BY <1>1, <1>4, <2>4, <2>7, <2>8 DEF Counts
  <2> QED BY <1>4, <2>9 DEF g
<1>5. ASSUME s = Now, shared, n <= count, a <= phase
      PROVE  <<IF phase' = 0 THEN Before ELSE Now, n, a + 1>> \in Counts'
  <2>1. Now \in Stores /\ Before \in Stores /\ shared'
    BY <1>3, <1>5 DEF Stores
  <2>2. CASE phase' = 0
    <3>1. a + 1 > phase'
      BY <1>1, <2>2
    <3>2. <<Before, n, a + 1>> \in Counts'
      BY <1>1, <2>1, <3>1 DEF Counts
    <3> QED BY <2>2, <3>2
  <2>3. CASE phase' # 0
    <3>1. a + 1 <= phase' /\ n <= count'
      BY <1>1, <1>2, <1>3, <1>5, <2>3
    <3>2. \A b \in Ages : b <= phase' => <<Now, n, b>> \in Counts'
      BY <1>1, <2>1, <3>1 DEF Counts
    <3>3. <<Now, n, a + 1>> \in Counts'
      BY <1>1, <3>1, <3>2
    <3> QED BY <2>3, <3>3
  <2> QED BY <2>2, <2>3
<1>6. ASSUME s = Before, shared, a > phase
      PROVE  phase' # 0 /\ <<Before, n, a + 1>> \in Counts'
  <2>1. phase' # 0 /\ a + 1 > phase'
    BY <1>1, <1>2, <1>6
  <2>2. shared' /\ Before \in Stores
    BY <1>3, <1>6 DEF Stores
  <2> QED BY <1>1, <2>1, <2>2 DEF Counts
<1>7. \/ \E i \in Instances : s = <<"alone", i>> /\ n <= Len(hits[i]) /\ hits[i][n] = a
      \/ s = Now /\ shared /\ n <= count /\ a <= phase
      \/ s = Before /\ shared /\ a > phase
  BY DEF Counts
<1>8. n \in Nat
  BY <1>1
<1>9. CASE \E i \in Instances : s = <<"alone", i>> /\ n <= Len(hits[i]) /\ hits[i][n] = a
  BY <1>4, <1>8, <1>9
<1>10. CASE s = Now /\ shared /\ n <= count /\ a <= phase
  BY <1>5, <1>8, <1>10
<1>11. CASE s = Before /\ shared /\ a > phase
  BY <1>6, <1>8, <1>11
<1> QED BY <1>7, <1>9, <1>10, <1>11

(* The requests that a tick leaves in the window stay accounted for.       *)
LEMMA TickAccounted ==
  ASSUME LimiterSound, Tick, Accounted
  PROVE  Accounted'
<1>1. PICK by, nth : Accounts(by, nth)
  BY DEF Accounted
<1>2. PICK m : m = Gone(served)
  OBVIOUS
<1>3. PICK turned : turned = (phase' = 0)
  OBVIOUS
<1>4. PICK gone : gone = [i \in Instances |-> Gone(hits[i])]
  OBVIOUS
<1> DEFINE Store(s) == IF s = Now /\ turned THEN Before ELSE s
           Number(s, n) == IF s \in {Now, Before} THEN n ELSE n - gone[s[2]]
<1>5. /\ served \in Seq(Ages) /\ m \in 0 .. Len(served)
      /\ \A i \in Instances : gone[i] \in Nat
      /\ \A k \in DOMAIN served : served[k] \in Nat /\ (k > m => served[k] < Window)
  <2>1. served \in Seq(Ages) /\ \A i \in Instances : hits[i] \in Seq(Ages)
    BY DEF LimiterSound, LimiterTypeOK
  <2>2. \A i \in Instances : gone[i] \in Nat
    BY <1>4, <2>1, GoneAreOld
  <2>3. \A k \in DOMAIN served : served[k] \in Nat
    BY <2>1, LimiterConstants DEF Ages
  <2> QED BY <1>2, <2>1, <2>2, <2>3, GoneAreOld
<1>6. /\ DOMAIN served' \in SUBSET Nat
      /\ \A k \in DOMAIN served' :
           k + m \in DOMAIN served /\ k + m > m /\ served'[k] = served[k + m] + 1
  <2>1. served' = Older(served)
    BY DEF Tick
  <2>2. /\ Older(served) \in Seq(Ages)
        /\ \A k \in DOMAIN Older(served) :
             k + m \in DOMAIN served /\ Older(served)[k] = served[k + m] + 1
    BY <1>2, <1>5, OlderList
  <2> QED BY <1>5, <2>1, <2>2
<1>7. ASSUME NEW s, NEW n, NEW a, <<s, n, a>> \in Counts, a < Window
      PROVE  /\ <<Store(s), Number(s, n), a + 1>> \in Counts' /\ n \in Nat
             /\ s = Before => ~ turned
             /\ s \in {Now, Before} \/ \E i \in Instances : s = <<"alone", i>>
  <2>1. n \in Nat
    BY <1>7, TickCounts
  <2>2. CASE /\ \E i \in Instances : s = <<"alone", i>>
             /\ <<s, n - Gone(hits[s[2]]), a + 1>> \in Counts'
    <3>1. s \notin {Now, Before} /\ s[2] \in Instances
      BY <2>2 DEF Now, Before
    <3> QED BY <1>4, <2>1, <2>2, <3>1
  <2>3. CASE s = Now /\ <<IF phase' = 0 THEN Before ELSE Now, n, a + 1>> \in Counts'
    <3>1. Now # Before
      BY DEF Now, Before
    <3> QED BY <1>3, <2>1, <2>3, <3>1
  <2>4. CASE s = Before /\ phase' # 0 /\ <<Before, n, a + 1>> \in Counts'
    BY <1>3, <2>1, <2>4
  <2> QED BY <1>7, <2>2, <2>3, <2>4, TickCounts
<1>8. ASSUME NEW s, NEW n, NEW a, <<s, n, a>> \in Counts, a < Window,
             NEW t, NEW o, NEW b, <<t, o, b>> \in Counts, b < Window,
             Store(s) = Store(t), Number(s, n) = Number(t, o)
      PROVE  s = t /\ n = o
  <2>1. /\ n \in Nat /\ o \in Nat /\ (s = Before => ~ turned) /\ (t = Before => ~ turned)
        /\ s \in {Now, Before} \/ \E i \in Instances : s = <<"alone", i>>
        /\ t \in {Now, Before} \/ \E i \in Instances : t = <<"alone", i>>
    BY <1>7, <1>8
  <2>2. \A i \in Instances : <<"alone", i>> # Now /\ <<"alone", i>> # Before
    BY DEF Now, Before
  <2>3. s = t
    BY <1>8, <2>1, <2>2
  <2>4. CASE s \in {Now, Before}
    BY <1>8, <2>3, <2>4
  <2>5. CASE s \notin {Now, Before}
    <3>1. gone[s[2]] \in Nat
      BY <1>5, <2>1, <2>5
    <3>2. n - gone[s[2]] = o - gone[s[2]]
      BY <1>8, <2>3, <2>5
    <3> QED BY <2>1, <2>3, <3>1, <3>2
  <2> QED BY <2>4, <2>5
<1>9. \A k \in DOMAIN served' :
        <<by[k + m], nth[k + m], served[k + m]>> \in Counts /\ served[k + m] < Window
  BY <1>1, <1>5, <1>6 DEF Accounts
<1> DEFINE by2 == [k \in DOMAIN served' |-> Store(by[k + m])]
           nth2 == [k \in DOMAIN served' |-> Number(by[k + m], nth[k + m])]
<1>10. PICK b, o : b = by2 /\ o = nth2
  OBVIOUS
<1> HIDE DEF Store, Number
<1>11. \A k \in DOMAIN served' : <<b[k], o[k], served'[k]>> \in Counts'
  <2> TAKE k \in DOMAIN served'
  <2>1. <<by[k + m], nth[k + m], served[k + m]>> \in Counts /\ served[k + m] < Window
    BY <1>9
  <2>2. <<Store(by[k + m]), Number(by[k + m], nth[k + m]), served[k + m] + 1>> \in Counts'
    BY <1>7, <2>1
  <2>3. b[k] = Store(by[k + m]) /\ o[k] = Number(by[k + m], nth[k + m])
    BY <1>10
  <2> QED BY <1>6, <2>2, <2>3
<1>12. ASSUME NEW k \in DOMAIN served', NEW l \in DOMAIN served', b[k] = b[l], o[k] = o[l]
       PROVE  k = l
  <2>1. by[k + m] = by[l + m] /\ nth[k + m] = nth[l + m]
    <3>1. /\ Store(by[k + m]) = Store(by[l + m])
          /\ Number(by[k + m], nth[k + m]) = Number(by[l + m], nth[l + m])
      BY <1>10, <1>12
    <3> QED BY <1>8, <1>9, <3>1
  <2>2. k + m = l + m
    BY <1>1, <1>6, <2>1 DEF Accounts
  <2> QED BY <1>5, <1>6, <2>2
<1>13. Accounts(b, o)'
  BY <1>11, <1>12 DEF Accounts
<1> QED BY <1>13 DEF Accounted

(* A decision of an instance: who is let through is its newest hit.        *)
LEMMA InProcessAccounted ==
  ASSUME LimiterSound, Accounted, NEW i \in Instances, InProcess(i), shared' = shared,
         phase' = phase, count' >= count, count' \in Nat
  PROVE  Accounted'
<1>1. /\ hits \in [Instances -> Seq(Ages)] /\ served \in Seq(Ages) /\ Limit \in Nat \ {0}
      /\ Len(hits[i]) \in Nat
  BY LimiterConstants DEF LimiterSound, LimiterTypeOK
<1>2. CASE Len(hits[i]) >= Limit
  <2>1. hits' = hits /\ served' = served
    BY <1>2 DEF InProcess
  <2>2. Counts \subseteq Counts'
    BY <1>1, <2>1, CountsGrow
  <2> QED BY <2>1, <2>2, SameAccounted
<1>3. CASE ~ Len(hits[i]) >= Limit
  <2> DEFINE n == Len(hits[i]) + 1
             store == <<"alone", i>>
  <2>1. hits' = [hits EXCEPT ![i] = Append(hits[i], 0)] /\ served' = Append(served, 0)
    BY <1>3 DEF InProcess, Admit
  <2>2. 0 \in Ages
    BY LimiterConstants DEF Ages
  <2>3. /\ hits'[i] = Append(hits[i], 0) /\ hits'[i] \in Seq(Ages)
        /\ Len(hits'[i]) = n /\ hits'[i][n] = 0
        /\ \A k \in DOMAIN hits[i] : hits'[i][k] = hits[i][k]
    BY <1>1, <2>1, <2>2
  <2>4. hits' \in [Instances -> Seq(Ages)]
    BY <1>1, <2>1, <2>3
  <2>5. \A j \in Instances : Len(hits'[j]) >= Len(hits[j])
                             /\ \A k \in DOMAIN hits[j] : hits'[j][k] = hits[j][k]
    <3> TAKE j \in Instances
    <3>1. CASE j = i
      <4>1. Len(hits'[i]) >= Len(hits[i])
        BY <1>1, <2>3
      <4> QED BY <2>3, <3>1, <4>1
    <3>2. CASE j # i
      <4>1. hits'[j] = hits[j] /\ Len(hits[j]) \in Nat
        BY <1>1, <2>1, <3>2
      <4> QED BY <4>1
    <3> QED BY <3>1, <3>2
  <2>6. Counts \subseteq Counts'
    BY <2>4, <2>5, CountsGrow
  <2>7. <<store, n, 0>> \in Counts'
    <3>1. n \in 1 .. Limit
      BY <1>1, <1>3
    <3>2. <<store, n, 0>> \in Stores \X (1 .. Limit) \X Ages
      BY <2>2, <3>1 DEF Stores
    <3>3. n <= Len(hits'[i])
      BY <1>1, <2>3
    <3> QED BY <2>3, <3>2, <3>3 DEF Counts
  <2>8. ASSUME NEW age, <<store, n, age>> \in Counts PROVE FALSE
    <3>1. store # Now /\ store # Before
      BY DEF Now, Before
    <3>2. PICK j \in Instances : store = <<"alone", j>> /\ n <= Len(hits[j])
      BY <2>8, <3>1 DEF Counts
    <3>3. j = i
      BY <3>2
    <3> QED BY <1>1, <3>2, <3>3
  <2> HIDE DEF n, store
  <2> QED BY <1>1, <2>1, <2>6, <2>7, <2>8, MoreAccounted
<1> QED BY <1>2, <1>3

(* A decision of Redis: who is let through is the last it counted.         *)
LEMMA AskRedisAccounted ==
  ASSUME LimiterSound, Accounted, AskRedis
  PROVE  Accounted'
<1>1. /\ served \in Seq(Ages) /\ Limit \in Nat \ {0} /\ count \in 0 .. Limit + 1
      /\ hits \in [Instances -> Seq(Ages)] /\ phase \in Nat /\ Window \in Nat \ {0}
  BY LimiterConstants DEF LimiterSound, LimiterTypeOK
<1>2. /\ shared /\ Incr /\ shared' = shared /\ phase' = phase /\ hits' = hits
      /\ count' = IF count <= Limit THEN count + 1 ELSE count
  BY IncrSound DEF AskRedis
<1>3. Counts \subseteq Counts'
  <2>1. count' >= count /\ count' \in Nat
    BY <1>1, <1>2
  <2>2. \A i \in Instances : Len(hits'[i]) >= Len(hits[i])
                             /\ \A n \in DOMAIN hits[i] : hits'[i][n] = hits[i][n]
    <3>1. \A i \in Instances : Len(hits[i]) \in Nat
      BY <1>1
    <3> QED BY <1>2, <3>1
  <2>3. hits' \in [Instances -> Seq(Ages)]
    BY <1>1, <1>2
  <2> QED BY <1>2, <2>1, <2>2, <2>3, CountsGrow
<1>4. CASE count < Limit
  <2>1. served' = Append(served, 0)
    BY <1>4 DEF AskRedis, Admit
  <2>2. <<Now, count + 1, 0>> \in Counts'
    <3>1. count + 1 \in 1 .. Limit /\ count + 1 <= count' /\ 0 <= phase'
      BY <1>1, <1>2, <1>4
    <3>2. <<Now, count + 1, 0>> \in Stores \X (1 .. Limit) \X Ages
      BY <1>1, <3>1 DEF Stores, Ages
    <3>3. shared'
      BY <1>2
    <3> QED BY <3>1, <3>2, <3>3 DEF Counts
  <2>3. ASSUME NEW age, <<Now, count + 1, age>> \in Counts PROVE FALSE
    <3>1. \A i \in Instances : Now # <<"alone", i>>
      BY DEF Now
    <3>2. Now # Before
      BY DEF Now, Before
    <3>3. count + 1 <= count
      BY <2>3, <3>1, <3>2 DEF Counts
    <3> QED BY <1>1, <3>3
  <2> QED BY <1>1, <1>3, <2>1, <2>2, <2>3, MoreAccounted
<1>5. CASE ~ count < Limit
  <2>1. served' = served
    BY <1>5 DEF AskRedis
  <2> QED BY <1>3, <2>1, SameAccounted
<1> QED BY <1>4, <1>5

(* Every step keeps the account.                                           *)
LEMMA NextAccounted ==
  LimiterSound /\ Accounted /\ [LimiterNext]_limiterVars => Accounted'
<1> SUFFICES ASSUME LimiterSound, Accounted, [LimiterNext]_limiterVars PROVE Accounted'
  OBVIOUS
<1>1. count \in Nat
  BY LimiterConstants DEF LimiterSound, LimiterTypeOK
<1>2. ASSUME served' = <<>> PROVE Accounted'
  BY <1>2 DEF Accounted, Accounts
<1>3. ASSUME UNCHANGED <<shared, phase, count, hits, served>> PROVE Accounted'
  <2>1. Counts' = Counts
    BY <1>3 DEF Counts
  <2> QED BY <1>3, <2>1, SameAccounted
<1>4. CASE RedisRestart
  BY <1>2, <1>4 DEF RedisRestart
<1>5. ASSUME NEW i \in Instances, Restart(i) PROVE Accounted'
  BY <1>2, <1>5 DEF Restart
<1>6. ASSUME NEW i \in Instances, OtherClient(i) PROVE Accounted'
  BY <1>2, <1>3, <1>6 DEF OtherClient
<1>7. ASSUME NEW i \in Instances, AskAfterFailure(i) \/ AskInstance(i) PROVE Accounted'
  <2>1. InProcess(i) /\ shared' = shared /\ phase' = phase /\ (Incr \/ count' = count)
    BY <1>7 DEF AskAfterFailure, AskInstance
  <2>2. count' >= count /\ count' \in Nat
    BY <1>1, <2>1, IncrSound
  <2> QED BY <2>1, <2>2, InProcessAccounted
<1>8. CASE UNCHANGED limiterVars
  BY <1>3, <1>8 DEF limiterVars
<1> QED BY <1>4, <1>5, <1>6, <1>7, <1>8, TickAccounted, AskRedisAccounted DEF LimiterNext

(* No more than the limit is counted at a time by each instance that has   *)
(* hits, and by Redis in each of two minutes.                              *)
LEMMA AccountedCap == LimiterSound /\ Accounted => CapHolds
<1> SUFFICES ASSUME LimiterSound, Accounted PROVE CapHolds
  OBVIOUS
<1>1. PICK by, nth : Accounts(by, nth)
  BY DEF Accounted
<1> DEFINE L == Len(served)
           A == {"alone"} \X Counting
           R == IF shared THEN {Now, Before} ELSE {}
           N == 1 .. Limit
           f == [k \in 1 .. L |-> <<by[k], nth[k]>>]
           c == Cardinality(Counting)
           r == IF shared THEN 2 ELSE 0
<1>2. L \in Nat /\ DOMAIN served = 1 .. L /\ Limit \in Nat \ {0}
  BY LimiterConstants DEF LimiterSound, LimiterTypeOK
<1>3. IsFiniteSet(Counting) /\ c \in Nat
  <2>1. Counting \in SUBSET Instances
    BY DEF Counting
  <2> QED BY <2>1, LimiterConstants, FS_Subset, FS_CardinalityType
<1>4. IsFiniteSet(A) /\ Cardinality(A) = c
  <2>1. IsFiniteSet({"alone"}) /\ Cardinality({"alone"}) = 1
    BY FS_Singleton
  <2>2. IsFiniteSet(A) /\ Cardinality(A) = 1 * c
    BY <1>3, <2>1, FS_Product
  <2> QED BY <1>3, <2>2
<1>5. IsFiniteSet(R) /\ Cardinality(R) <= r /\ Cardinality(R) \in Nat
  <2>1. IsFiniteSet({}) /\ Cardinality({}) = 0
    BY FS_EmptySet
  <2>2. IsFiniteSet({Now}) /\ Cardinality({Now}) = 1
    BY FS_Singleton
  <2>3. IsFiniteSet({Now} \cup {Before})
        /\ Cardinality({Now} \cup {Before}) = IF Before \in {Now} THEN 1 ELSE 1 + 1
    BY <2>2, FS_AddElement
  <2>4. {Now, Before} = {Now} \cup {Before}
    OBVIOUS
  <2> QED BY <2>1, <2>3, <2>4
<1>6. /\ IsFiniteSet(A \cup R) /\ Cardinality(A \cup R) \in Nat
      /\ Cardinality(A \cup R) <= c + r
  <2> HIDE DEF A, R
  <2>1. /\ IsFiniteSet(A \cup R)
        /\ Cardinality(A \cup R) = Cardinality(A) + Cardinality(R) - Cardinality(A \cap R)
    BY <1>4, <1>5, FS_Union
  <2>2. Cardinality(A \cap R) \in Nat
    BY <1>4, FS_Subset, FS_CardinalityType
  <2>3. Cardinality(A \cup R) \in Nat
    BY <2>1, FS_CardinalityType
  <2> QED BY <1>3, <1>4, <1>5, <2>1, <2>2, <2>3
<1>7. IsFiniteSet(N) /\ Cardinality(N) = Limit
  <2>1. Limit \in Int /\ 1 \in Int /\ (IF 1 > Limit THEN 0 ELSE Limit - 1 + 1) = Limit
    BY <1>2
  <2> QED BY <2>1, FS_Interval
<1>8. /\ IsFiniteSet((A \cup R) \X N)
      /\ Cardinality((A \cup R) \X N) = Cardinality(A \cup R) * Limit
  <2> HIDE DEF A, R, N
  <2> QED BY <1>6, <1>7, FS_Product
<1>9. f \in Injection(1 .. L, (A \cup R) \X N)
  <2>1. ASSUME NEW k \in 1 .. L PROVE f[k] \in (A \cup R) \X N
    <3>1. <<by[k], nth[k], served[k]>> \in Counts
      BY <1>1, <1>2 DEF Accounts
    <3>2. nth[k] \in N
      BY <3>1 DEF Counts
    <3>3. by[k] \in A \cup R
      <4>1. CASE \E i \in Instances : by[k] = <<"alone", i>> /\ nth[k] <= Len(hits[i])
        <5>1. PICK i \in Instances : by[k] = <<"alone", i>> /\ nth[k] <= Len(hits[i])
          BY <4>1
        <5>2. hits[i] # <<>>
          <6> SUFFICES ASSUME hits[i] = <<>> PROVE FALSE
            OBVIOUS
          <6>1. nth[k] \in Nat \ {0} /\ Len(hits[i]) = 0
            BY <1>2, <3>2
          <6>2. nth[k] <= Len(hits[i])
            BY <5>1
          <6> HIDE DEF A, R, N, f, L, c, r
          <6> QED BY <6>1, <6>2
        <5> QED BY <5>1, <5>2 DEF Counting
      <4>2. CASE shared /\ by[k] \in {Now, Before}
        BY <4>2
      <4> QED BY <3>1, <4>1, <4>2 DEF Counts
    <3> QED BY <3>2, <3>3
  <2>2. ASSUME NEW k \in 1 .. L, NEW l \in 1 .. L, f[k] = f[l] PROVE k = l
    <3>1. by[k] = by[l] /\ nth[k] = nth[l]
      BY <2>2
    <3> QED BY <1>1, <1>2, <3>1 DEF Accounts
  <2> HIDE DEF A, R, N
  <2>3. f \in [1 .. L -> (A \cup R) \X N]
    BY <2>1
  <2> HIDE DEF f
  <2> QED BY <2>2, <2>3 DEF Injection, IsInjective
<1>10. L <= Cardinality(A \cup R) * Limit
  <2>1. IsFiniteSet(1 .. L) /\ Cardinality(1 .. L) = L
    <3>1. L \in Int /\ 1 \in Int /\ (IF 1 > L THEN 0 ELSE L - 1 + 1) = L
      BY <1>2
    <3> QED BY <3>1, FS_Interval
  <2> HIDE DEF A, R, N, f, L
  <2>2. Cardinality(1 .. L) <= Cardinality((A \cup R) \X N)
    BY <1>8, <1>9, FS_Injection
  <2> QED BY <1>8, <2>1, <2>2
<1>11. Cardinality(A \cup R) * Limit <= Limit * (c + r)
  BY <1>2, <1>3, <1>6
<1>12. Cardinality(A \cup R) * Limit \in Nat /\ Limit * (c + r) \in Nat
  BY <1>2, <1>3, <1>6
<1>13. L <= Limit * (c + r)
  <2> HIDE DEF A, R, L, c, r
  <2> QED BY <1>2, <1>10, <1>11, <1>12
<1> QED BY <1>13 DEF CapHolds

(* In any 60 seconds no more requests are let through than the limit in    *)
(* each instance that decided alone and in each of the two minutes of      *)
(* Redis they touch, however Redis, the instances and the clock interleave.*)
THEOREM CapAlwaysHolds == LimiterSpec => []CapHolds
<1>1. LimiterInit => Accounted
  BY NoneAccounted DEF LimiterInit
<1>2. LimiterInit => LimiterSound /\ Accounted
  BY <1>1, InitLimiterSound
<1>3. LimiterSound /\ Accounted /\ [LimiterNext]_limiterVars => (LimiterSound /\ Accounted)'
  BY NextLimiterSound, NextAccounted
<1>4. LimiterSound /\ Accounted => CapHolds
  BY AccountedCap
<1> QED BY <1>2, <1>3, <1>4, PTL DEF LimiterSpec
-----------------------------------------------------------------------------
(* The benchmark job.                                                      *)
Marks == {Absent, Empty, Garbled}
Places == {"idle", "scoring", "open", "dump", "upsert", "exit0", "exit1"}

Writing(p) == at[p] \in {"open", "dump", "upsert"}
Opened(p)  == at[p] \in {"dump", "upsert"}

(* Every benchmark has a number of its own, drawn before it is used.       *)
Numbered ==
  /\ jobRun <= runs /\ \A p \in Procs : result[p].run <= runs
  /\ \A n \in Names : ended[n] \subseteq 0 .. runs
  /\ \A p, q \in Procs : result[p].run = result[q].run /\ result[p].run > 0 => p = q

(* A run is in the histories exactly as far as its process is.             *)
Progress ==
  /\ \A j \in Jobs : thread[j] = "starting" =>
       /\ at[j] = "idle" /\ result[j].run > 0
       /\ \A n \in Names : result[j].run \notin ended[n]
  /\ \A p \in Procs : at[p] = "scoring" =>
       result[p].run > 0 /\ \A n \in Names : result[p].run \notin ended[n]
  /\ \A p \in Procs : Writing(p) =>
       /\ result[p].run > 0 /\ result[p].run \notin ended[name[p]]
       /\ name[p] = "scores" => result[p].run \notin ended["champion"]
       /\ name[p] = "champion" => result[p].run \in ended["scores"] /\ result[p].champion # NoModel
  /\ \A p \in Procs : at[p] = "exit0" =>
       /\ result[p].run \in ended["scores"]
       /\ result[p].champion # NoModel => result[p].run \in ended["champion"]

(* There is a thread exactly while the state is "running", and only one.   *)
OneThread ==
  /\ bench = "running" <=> \E j \in Jobs : thread[j] # "none"
  /\ \A i, j \in Jobs : thread[i] # "none" /\ thread[j] # "none" => i = j

(* What a process dumps, nobody who opened before it supersedes: neither   *)
(* file nor row holds a run that ended before a write that has begun, but  *)
(* for the file of the image and the row whose last upsert was swallowed.  *)
Registers ==
  /\ \A n \in Names : superseded[n] \subseteq ended[n]
  /\ \A n \in Names : file[n] \notin Marks =>
       file[n] = Shipped[n] \/ file[n].run \notin superseded[n]
  /\ \A p \in Procs : Opened(p) =>
       /\ before[p] \subseteq ended[name[p]]
       /\ file[name[p]] \notin Marks => file[name[p]].run \notin before[p]
  /\ UsePostgres => \A n \in Names :
       ~ swallowed[n] /\ blob[n] # Absent => blob[n].run \notin superseded[n]

(* File and row both hold v.                                               *)
Shows(n, v) == file[n] = v /\ (UsePostgres => blob[n] = v)

(* The champion is that of the scores, if they have one.                   *)
Settled ==
  LET s == file["scores"] IN
  /\ s \in Result /\ Shows("scores", s)
  /\ s.champion # NoModel => Shows("champion", s)

(* Without faults one process writes at a time, and finds what it left,    *)
(* whatever the snapshots were as it began.                                *)
Undisturbed ==
  ~ disturbed =>
     /\ \A p, q \in Running : p = q
     /\ Running = {} => Settled
     /\ \A p \in Procs : Writing(p) =>
          /\ name[p] = "champion" => Shows("scores", result[p])
          /\ at[p] = "dump" => file[name[p]] = Empty
          /\ at[p] = "upsert" => file[name[p]] = result[p]
-----------------------------------------------------------------------------
(* The files of the image are snapshots of their own, or not there.        *)
LEMMA ShippedTypes ==
  /\ Shipped \in [Names -> Result \cup {Absent}]
  /\ Shipped["champion"] # Absent => Shipped["champion"].champion \in Models
<1>1. 0 \in 0 .. MaxRuns
  BY BenchmarkConstants
<1>2. [run : {0}, champion : Models \cup {NoModel}] \subseteq Result
  BY <1>1 DEF Result
<1> QED BY <1>2, BenchmarkConstants

(* The initial values have their types.                                    *)
LEMMA InitTypes == Init => TypeOK
<1> SUFFICES ASSUME Init PROVE TypeOK
  OBVIOUS
<1>1. NoRun \in Result
  BY BenchmarkConstants DEF NoRun, Result
<1>2. result \in [Procs -> Result] /\ runs \in 0 .. MaxRuns /\ jobRun \in 0 .. MaxRuns
  BY <1>1, BenchmarkConstants DEF Init
<1>3. /\ file \in [Names -> Result \cup {Absent, Empty, Garbled}]
      /\ file["champion"] # Absent => file["champion"].champion \in Models
      /\ blob \in [Names -> Result \cup {Absent}] /\ blob["champion"] = Absent
  BY ShippedTypes, BenchmarkConstants DEF Init, BlobInit
<1>4. /\ at \in [Procs -> {"idle", "scoring", "open", "dump", "upsert", "exit0", "exit1"}]
      /\ name \in [Procs -> Names] /\ thread \in [Jobs -> {"none", "starting", "waiting"}]
  BY BenchmarkConstants DEF Init
<1>5. /\ before \in [Procs -> SUBSET (0 .. MaxRuns)]
      /\ ended \in [Names -> SUBSET (0 .. MaxRuns)]
      /\ superseded \in [Names -> SUBSET (0 .. MaxRuns)]
      /\ disturbed \in BOOLEAN /\ swallowed \in [Names -> BOOLEAN]
  BY BenchmarkConstants DEF Init
<1> QED BY <1>2, <1>3, <1>4, <1>5 DEF Init, TypeOK

(* What a draw leaves: one more run, and its process has it.               *)
LEMMA DrawTypes ==
  ASSUME TypeOK, NEW p \in Procs, Draw(p)
  PROVE  /\ runs' = runs + 1 /\ runs' \in 1 .. MaxRuns
         /\ result' \in [Procs -> Result] /\ result'[p].run = runs'
         /\ \A q \in Procs \ {p} : result'[q] = result[q]
<1>1. PICK m \in Models \cup {NoModel} : result' = [result EXCEPT ![p] = [run |-> runs + 1, champion |-> m]]
  BY DEF Draw
<1>2. runs + 1 \in 1 .. MaxRuns /\ runs' = runs + 1
  BY BenchmarkConstants DEF Draw, TypeOK
<1>3. [run |-> runs + 1, champion |-> m] \in Result
  BY <1>2 DEF Result
<1> QED BY <1>1, <1>2, <1>3 DEF TypeOK

(* The end of a write keeps the types.                                     *)
LEMMA EndTypes ==
  ASSUME TypeOK, Progress, NEW p \in Procs, Writing(p), EndWrite(p)
  PROVE  /\ name' \in [Procs -> Names] /\ at' \in [Procs -> Places]
         /\ ended' \in [Names -> SUBSET (0 .. MaxRuns)]
         /\ superseded' \in [Names -> SUBSET (0 .. MaxRuns)]
<1>1. name[p] \in Names /\ result[p].run \in 0 .. MaxRuns /\ before[p] \subseteq 0 .. MaxRuns
  BY BenchmarkConstants DEF TypeOK, Result, Progress
<1>2. ended' \in [Names -> SUBSET (0 .. MaxRuns)] /\ superseded' \in [Names -> SUBSET (0 .. MaxRuns)]
  BY <1>1 DEF EndWrite, TypeOK
<1>3. name' \in [Procs -> Names] /\ at' \in [Procs -> Places]
  BY BenchmarkConstants DEF EndWrite, Exit, TypeOK, Places
<1> QED BY <1>2, <1>3

(* Every step keeps the types.                                             *)
LEMMA StepTypes ==
  ASSUME TypeOK, Progress, [Next]_vars
  PROVE  TypeOK'
<1>t. /\ at \in [Procs -> Places] /\ result \in [Procs -> Result] /\ name \in [Procs -> Names]
      /\ Jobs \subseteq Procs /\ Operators \subseteq Procs /\ Names = {"scores", "champion"}
  BY BenchmarkConstants DEF TypeOK, Places, Procs
<1>f. \A n \in {"champion"} : \A v \in {file[n], blob[n]} \ Marks : v.champion \in Models
  BY DEF TypeOK, Marks
<1>1. ASSUME NEW j \in Jobs, StartBenchmark(j) PROVE TypeOK'
  <2>1. /\ runs' \in 0 .. MaxRuns /\ result' \in [Procs -> Result]
    BY <1>1, <1>t, DrawTypes DEF StartBenchmark
  <2> QED
    BY <1>1, <1>t, <2>1 DEF StartBenchmark, TypeOK, blobs, history, faults
<1>2. ASSUME NEW j \in Jobs, Popen(j) PROVE TypeOK'
  BY <1>2, <1>t DEF Popen, Launch, TypeOK, Places, blobs, history
<1>3. ASSUME NEW j \in Jobs, PopenRaises(j) PROVE TypeOK'
  BY <1>3, <1>t DEF PopenRaises, TypeOK, blobs, history, faults
<1>4. ASSUME NEW j \in Jobs, Record(j) PROVE TypeOK'
  <2>1. result[j].run \in 0 .. MaxRuns
    BY <1>t DEF Result
  <2> QED
    BY <1>4, <1>t, <2>1 DEF Record, TypeOK, Places, blobs, history, faults
<1>5. ASSUME NEW p \in Operators, Operate(p) PROVE TypeOK'
  <2>1. /\ runs' \in 0 .. MaxRuns /\ result' \in [Procs -> Result]
    BY <1>5, <1>t, DrawTypes DEF Operate
  <2> QED
    BY <1>5, <1>t, <2>1 DEF Operate, Launch, TypeOK, Places, api, blobs, history
<1>6. ASSUME NEW p \in Procs, Score(p) PROVE TypeOK'
  BY <1>6, <1>t DEF Score, TypeOK, Places, api, blobs, history, faults
<1>7. ASSUME NEW p \in Procs, Open(p) PROVE TypeOK'
  <2>1. /\ file' \in [Names -> Result \cup {Absent, Empty, Garbled}] /\ blob' = blob
        /\ file'["champion"] \in {file["champion"], Empty}
    BY <1>7, <1>t DEF Open, OpenBlob, TypeOK
  <2>2. before' \in [Procs -> SUBSET (0 .. MaxRuns)]
    BY <1>7, <1>t DEF Open, TypeOK
  <2> QED
    BY <1>7, <1>t, <1>f, <2>1, <2>2 DEF Open, TypeOK, Places, Marks, api, faults
<1>8. ASSUME NEW p \in Procs, Dump(p) PROVE TypeOK'
  <2>1. PICK v \in {result[p], Garbled} : file' = [file EXCEPT ![name[p]] = v]
    BY <1>8 DEF Dump, DumpBlob
  <2>2. /\ file' \in [Names -> Result \cup {Absent, Empty, Garbled}] /\ blob' = blob
    BY <1>8, <1>t, <2>1 DEF Dump, DumpBlob, TypeOK
  <2>3. file'["champion"] \notin Marks => file'["champion"].champion \in Models
    <3>1. CASE name[p] = "champion"
      <4>1. result[p].champion \in Models
        BY <1>8, <1>t, <3>1 DEF Dump, Progress, Writing, Result
      <4> QED BY <1>t, <2>1, <3>1, <4>1 DEF Marks, TypeOK
    <3>2. CASE name[p] # "champion"
      BY <1>f, <2>1, <3>2, <1>t DEF TypeOK
    <3> QED BY <3>1, <3>2
  <2>4. /\ name' \in [Procs -> Names] /\ at' \in [Procs -> Places]
        /\ ended' \in [Names -> SUBSET (0 .. MaxRuns)]
        /\ superseded' \in [Names -> SUBSET (0 .. MaxRuns)]
    <3>1. CASE UsePostgres
      BY <1>8, <1>t, <3>1 DEF Dump, TypeOK, Places
    <3>2. CASE ~ UsePostgres
      BY <1>8, <3>2, EndTypes DEF Dump, Writing
    <3> QED BY <3>1, <3>2
  <2> QED
    BY <1>8, <1>f, <2>2, <2>3, <2>4 DEF Dump, TypeOK, Places, Marks, api, faults
<1>9. ASSUME NEW p \in Procs, Upsert(p) PROVE TypeOK'
  <2>1. /\ name' \in [Procs -> Names] /\ at' \in [Procs -> Places]
        /\ ended' \in [Names -> SUBSET (0 .. MaxRuns)]
        /\ superseded' \in [Names -> SUBSET (0 .. MaxRuns)]
    BY <1>9, EndTypes DEF Upsert, Writing
  <2>2. /\ file' = file /\ blob' \in [Names -> Result \cup {Absent}]
        /\ blob' = [blob EXCEPT ![name[p]] = result[p]] \/ blob' = blob
    BY <1>9, <1>t DEF Upsert, UpsertBlob, SwallowUpsert, TypeOK
  <2>3. blob'["champion"] \notin Marks => blob'["champion"].champion \in Models
    <3>1. CASE name[p] = "champion"
      <4>1. result[p].champion \in Models
        BY <1>9, <1>t, <3>1 DEF Upsert, Progress, Writing, Result
      <4> QED BY <1>t, <1>f, <2>2, <3>1, <4>1 DEF TypeOK
    <3>2. CASE name[p] # "champion"
      BY <1>f, <2>2, <3>2, <1>t DEF TypeOK
    <3> QED BY <3>1, <3>2
  <2>4. disturbed' \in BOOLEAN /\ swallowed' \in [Names -> BOOLEAN]
    BY <1>9 DEF Upsert, TypeOK
  <2> QED
    BY <1>9, <1>f, <2>1, <2>2, <2>3, <2>4 DEF Upsert, TypeOK, Places, Marks, api
<1>10. ASSUME NEW p \in Procs, Fail(p) PROVE TypeOK'
  BY <1>10, <1>t DEF Fail, Exit, TypeOK, Places, api, blobs, history
<1>11. ASSUME NEW p \in Procs, Reap(p) PROVE TypeOK'
  BY <1>11, <1>t DEF Reap, TypeOK, Places, api, blobs, history, faults
<1>12. CASE RestartAPI
  <2>1. thread' \in [Jobs -> {"none", "starting", "waiting"}] /\ jobRun' \in 0 .. MaxRuns
    BY <1>12, BenchmarkConstants DEF RestartAPI
  <2> QED
    BY <1>12, <2>1 DEF RestartAPI, TypeOK, blobs, history, faults
<1>13. CASE Replace
  <2>1. /\ thread' \in [Jobs -> {"none", "starting", "waiting"}] /\ jobRun' \in 0 .. MaxRuns
        /\ at' \in [Procs -> Places]
        /\ file' \in [Names -> Result \cup {Absent, Empty, Garbled}]
        /\ file'["champion"] # Absent => file'["champion"].champion \in Models
    BY <1>13, <1>t, ShippedTypes, BenchmarkConstants DEF Replace, Places
  <2> QED
    BY <1>13, <2>1, <1>f DEF Replace, TypeOK, Places, Marks, history
<1>14. CASE UNCHANGED vars
  BY <1>14 DEF vars, api, blobs, history, faults, TypeOK
<1> QED
  BY <1>1, <1>2, <1>3, <1>4, <1>5, <1>6, <1>7, <1>8, <1>9, <1>10, <1>11, <1>12, <1>13, <1>14
  DEF Next, Working, Benchmarking

(* All processes but those that are drawn, record or end a write leave the *)
(* numbers alone.                                                          *)
LEMMA StepNumbered ==
  ASSUME TypeOK, Progress, Numbered, [Next]_vars
  PROVE  Numbered'
<1>t. /\ result \in [Procs -> Result] /\ Jobs \subseteq Procs /\ Operators \subseteq Procs
      /\ runs \in Nat /\ ended \in [Names -> SUBSET (0 .. MaxRuns)] /\ name \in [Procs -> Names]
  BY BenchmarkConstants DEF TypeOK, Procs
<1>n. \A p \in Procs : result[p].run \in Nat
  BY <1>t, BenchmarkConstants DEF Result
<1>d. ASSUME NEW p \in Procs, Draw(p), UNCHANGED <<jobRun, ended>> PROVE Numbered'
  <2>1. /\ runs' = runs + 1 /\ result'[p].run = runs'
        /\ \A q \in Procs \ {p} : result'[q] = result[q]
    BY <1>d, DrawTypes
  <2>2. jobRun \in Nat
    BY BenchmarkConstants DEF TypeOK
  <2>3. \A n \in Names : ended'[n] \subseteq 0 .. runs'
    BY <1>d, <1>t, <2>1 DEF Numbered
  <2> QED BY <1>d, <1>t, <1>n, <2>1, <2>2, <2>3 DEF Numbered
<1>e. ASSUME NEW p \in Procs, Writing(p), EndWrite(p), UNCHANGED <<jobRun, result, runs>>
      PROVE Numbered'
  <2>1. result[p].run \in 1 .. runs
    BY <1>e, <1>n, <1>t DEF Progress, Numbered
  <2>2. \A n \in Names : ended'[n] \subseteq 0 .. runs
    BY <1>e, <1>t, <2>1 DEF EndWrite, Numbered
  <2> QED BY <1>e, <2>2 DEF Numbered
<1>u. ASSUME UNCHANGED <<result, runs, ended>>, jobRun' \in {jobRun, 0} \cup {result[p].run : p \in Procs}
      PROVE  Numbered'
  BY <1>u, <1>t DEF Numbered
<1>1. ASSUME NEW j \in Jobs, StartBenchmark(j) \/ Working(j) PROVE Numbered'
  BY <1>1, <1>d, <1>u, <1>t
  DEF StartBenchmark, Working, Popen, Launch, PopenRaises, Record, history
<1>2. ASSUME NEW p \in Operators, Operate(p) PROVE Numbered'
  BY <1>2, <1>d, <1>t DEF Operate, Launch, history, api
<1>3. ASSUME NEW p \in Procs, Benchmarking(p) PROVE Numbered'
  BY <1>3, <1>u, <1>e DEF Benchmarking, Score, Open, Dump, Upsert, Writing, history, api
<1>4. ASSUME NEW p \in Procs, Fail(p) \/ Reap(p) PROVE Numbered'
  BY <1>4, <1>u DEF Fail, Reap, history, api
<1>5. CASE RestartAPI \/ Replace \/ UNCHANGED vars
  BY <1>5, <1>u DEF RestartAPI, Replace, vars, history, api
<1> QED BY <1>1, <1>2, <1>3, <1>4, <1>5 DEF Next

(* A process has at most one thread waiting for it, and a new job none.    *)
LEMMA StepOneThread ==
  ASSUME TypeOK, OneThread, [Next]_vars
  PROVE  OneThread'
<1>t. thread \in [Jobs -> {"none", "starting", "waiting"}]
  BY DEF TypeOK
<1>1. ASSUME NEW j \in Jobs, StartBenchmark(j) PROVE OneThread'
  BY <1>1, <1>t DEF StartBenchmark, OneThread
<1>2. ASSUME NEW j \in Jobs, Popen(j) PROVE OneThread'
  BY <1>2, <1>t DEF Popen, OneThread
<1>3. ASSUME NEW j \in Jobs, PopenRaises(j) \/ Record(j) PROVE OneThread'
  <2>1. /\ bench' # "running" /\ thread' = [thread EXCEPT ![j] = "none"] /\ thread[j] # "none"
    BY <1>3 DEF PopenRaises, Record
  <2>2. \A i \in Jobs : thread'[i] = "none"
    BY <1>t, <2>1 DEF OneThread
  <2> QED BY <2>1, <2>2 DEF OneThread
<1>4. CASE RestartAPI \/ Replace
  <2>1. bench' = "idle" /\ \A i \in Jobs : thread'[i] = "none"
    BY <1>4 DEF RestartAPI, Replace
  <2> QED BY <2>1 DEF OneThread
<1>5. ASSUME UNCHANGED <<bench, thread>> PROVE OneThread'
  BY <1>5 DEF OneThread
<1>6. ASSUME NEW p \in Procs, Benchmarking(p) \/ Fail(p) \/ Reap(p) PROVE OneThread'
  BY <1>6, <1>5 DEF Benchmarking, Score, Open, Dump, Upsert, Fail, Reap, api
<1>7. ASSUME NEW p \in Operators, Operate(p) PROVE OneThread'
  BY <1>7, <1>5 DEF Operate, api
<1>8. CASE UNCHANGED vars
  BY <1>8, <1>5 DEF vars, api
<1> QED BY <1>1, <1>2, <1>3, <1>4, <1>6, <1>7, <1>8 DEF Next, Working

(* Nobody else's run is added to a history, and a process adds its own     *)
(* only as it goes on or exits.                                            *)
LEMMA StepProgress ==
  ASSUME TypeOK, Numbered, Progress, [Next]_vars
  PROVE  Progress'
<1>t. /\ at \in [Procs -> Places] /\ result \in [Procs -> Result] /\ name \in [Procs -> Names]
      /\ thread \in [Jobs -> {"none", "starting", "waiting"}]
      /\ ended \in [Names -> SUBSET (0 .. MaxRuns)] /\ runs \in Nat
      /\ Jobs \subseteq Procs /\ Operators \subseteq Procs /\ Jobs \cap Operators = {}
      /\ Names = {"scores", "champion"}
  BY BenchmarkConstants DEF TypeOK, Places, Procs
<1>n. \A p \in Procs : result[p].run \in Nat
  BY <1>t, BenchmarkConstants DEF Result
<1>1. ASSUME NEW j \in Jobs, StartBenchmark(j) PROVE Progress'
  <2>1. /\ runs' = runs + 1 /\ result'[j].run = runs + 1 /\ at[j] = "idle"
        /\ \A q \in Procs \ {j} : result'[q] = result[q]
        /\ thread' = [thread EXCEPT ![j] = "starting"] /\ UNCHANGED <<at, name, ended>>
    BY <1>1, <1>t, DrawTypes DEF StartBenchmark, history
  <2>2. \A n \in Names : runs + 1 \notin ended[n]
    BY <1>t DEF Numbered
  <2> QED BY <1>t, <2>1, <2>2 DEF Progress, Writing
<1>2. ASSUME NEW j \in Jobs, Popen(j) PROVE Progress'
  BY <1>2, <1>t DEF Popen, Launch, Progress, Writing, history
<1>3. ASSUME NEW j \in Jobs, PopenRaises(j) PROVE Progress'
  BY <1>3, <1>t DEF PopenRaises, Progress, Writing, history
<1>4. ASSUME NEW j \in Jobs, Record(j) PROVE Progress'
  BY <1>4, <1>t DEF Record, Progress, Writing, history
<1>5. ASSUME NEW p \in Operators, Operate(p) PROVE Progress'
  <2>1. /\ runs' = runs + 1 /\ result'[p].run = runs + 1
        /\ \A q \in Procs \ {p} : result'[q] = result[q]
        /\ at' = [at EXCEPT ![p] = "scoring"] /\ UNCHANGED <<thread, name, ended>>
    BY <1>5, <1>t, DrawTypes DEF Operate, Launch, history, api
  <2>2. \A n \in Names : runs + 1 \notin ended[n]
    BY <1>t DEF Numbered
  <2> QED BY <1>t, <2>1, <2>2 DEF Progress, Writing
<1>6. ASSUME NEW p \in Procs, Score(p) PROVE Progress'
  BY <1>6, <1>t DEF Score, Progress, Writing, api, history
<1>7. ASSUME NEW p \in Procs, Open(p) PROVE Progress'
  BY <1>7, <1>t DEF Open, Progress, Writing, api
<1>e. ASSUME NEW p \in Procs, Writing(p), EndWrite(p), UNCHANGED <<result, thread>>
      PROVE  Progress'
  <2>1. \A q \in Procs \ {p} : result[q].run # result[p].run
    BY <1>e DEF Numbered, Progress
  <2>2. /\ ended'[name[p]] = ended[name[p]] \cup {result[p].run}
        /\ \A n \in Names \ {name[p]} : ended'[n] = ended[n]
    BY <1>e, <1>t DEF EndWrite
  <2>3. \A q \in Procs \ {p} : at'[q] = at[q] /\ name'[q] = name[q]
    BY <1>e, <1>t DEF EndWrite, Exit
  <2>4. CASE name[p] = "scores" /\ result[p].champion # NoModel
    <3>1. name'[p] = "champion" /\ at'[p] = "open"
      BY <1>e, <1>t, <2>4 DEF EndWrite
    <3> QED BY <1>e, <1>t, <2>1, <2>2, <2>3, <2>4, <3>1 DEF Progress, Writing
  <2>5. CASE ~ (name[p] = "scores" /\ result[p].champion # NoModel)
    <3>1. name'[p] = name[p] /\ at'[p] = "exit0"
      BY <1>e, <1>t, <2>5 DEF EndWrite, Exit
    <3>2. name[p] = "scores" => result[p].champion = NoModel
      BY <2>5
    <3> QED BY <1>e, <1>t, <2>1, <2>2, <2>3, <3>1, <3>2 DEF Progress, Writing
  <2> QED BY <2>4, <2>5
<1>8. ASSUME NEW p \in Procs, Dump(p) PROVE Progress'
  <2>1. CASE UsePostgres
    BY <1>8, <2>1, <1>t DEF Dump, Progress, Writing, api
  <2>2. CASE ~ UsePostgres
    BY <1>8, <2>2, <1>e DEF Dump, Writing, api
  <2> QED BY <2>1, <2>2
<1>9. ASSUME NEW p \in Procs, Upsert(p) PROVE Progress'
  BY <1>9, <1>e DEF Upsert, Writing, api
<1>10. ASSUME NEW p \in Procs, Fail(p) PROVE Progress'
  BY <1>10, <1>t DEF Fail, Exit, Progress, Writing, api, history
<1>11. ASSUME NEW p \in Procs, Reap(p) PROVE Progress'
  BY <1>11, <1>t DEF Reap, Progress, Writing, api, history
<1>12. CASE RestartAPI
  BY <1>12, <1>t DEF RestartAPI, Progress, Writing, history
<1>13. CASE Replace
  BY <1>13, <1>t DEF Replace, Progress, Writing, history
<1>14. CASE UNCHANGED vars
  BY <1>14 DEF vars, api, history, Progress, Writing
<1> QED
  BY <1>1, <1>2, <1>3, <1>4, <1>5, <1>6, <1>7, <1>8, <1>9, <1>10, <1>11, <1>12, <1>13, <1>14
  DEF Next, Working, Benchmarking

(* A write that ends leaves its own run, and whoever has opened the file   *)
(* since the others ended finds none of theirs in it.                      *)
LEMMA StepRegisters ==
  ASSUME TypeOK, Progress, Registers, [Next]_vars
  PROVE  Registers'
<1>t. /\ at \in [Procs -> Places] /\ result \in [Procs -> Result] /\ name \in [Procs -> Names]
      /\ file \in [Names -> Result \cup Marks] /\ blob \in [Names -> Result \cup {Absent}]
      /\ ended \in [Names -> SUBSET (0 .. MaxRuns)] /\ superseded \in [Names -> SUBSET (0 .. MaxRuns)]
      /\ before \in [Procs -> SUBSET (0 .. MaxRuns)] /\ swallowed \in [Names -> BOOLEAN]
      /\ Jobs \subseteq Procs /\ Operators \subseteq Procs
  BY BenchmarkConstants DEF TypeOK, Places, Procs, Marks
<1>r. ASSUME NEW p \in Procs, at' = [at EXCEPT ![p] = "scoring"] \/ at' = [at EXCEPT ![p] = "idle"]
                              \/ at' = [at EXCEPT ![p] = "exit1"] \/ at' = at,
             UNCHANGED <<name, file, blob, before, ended, superseded, swallowed>>
      PROVE  Registers'
  BY <1>r, <1>t DEF Registers, Opened, Marks
<1>1. ASSUME NEW j \in Jobs, StartBenchmark(j) \/ Working(j) PROVE Registers'
  BY <1>1, <1>r, <1>t
  DEF StartBenchmark, Working, Popen, Launch, PopenRaises, Record, history, blobs, faults
<1>2. ASSUME NEW p \in Operators, Operate(p) PROVE Registers'
  BY <1>2, <1>r, <1>t DEF Operate, Launch, history, blobs
<1>3. ASSUME NEW p \in Procs, Score(p) PROVE Registers'
  BY <1>3, <1>t DEF Score, Registers, Opened, Marks, history, blobs, faults
<1>4. ASSUME NEW p \in Procs, Open(p) PROVE Registers'
  <2>1. /\ file' = [file EXCEPT ![name[p]] = Empty] /\ UNCHANGED <<blob, name, ended, superseded, swallowed>>
        /\ at' = [at EXCEPT ![p] = "dump"] /\ before' = [before EXCEPT ![p] = ended[name[p]]]
    BY <1>4 DEF Open, OpenBlob, faults
  <2> QED BY <1>t, <2>1 DEF Registers, Opened, Marks
<1>5. ASSUME NEW p \in Procs, Dump(p) PROVE Registers'
  <2>0. PICK v \in {result[p], Garbled} : file' = [file EXCEPT ![name[p]] = v] /\ blob' = blob
    BY <1>5 DEF Dump, DumpBlob
  <2>1. /\ result[p].run \notin ended[name[p]] /\ before[p] \subseteq ended[name[p]]
        /\ UNCHANGED <<before, swallowed>>
    BY <1>5 DEF Dump, Progress, Registers, Writing, Opened, faults
  <2>2. \A n \in Names : file'[n] \notin Marks =>
          IF n = name[p] THEN file'[n] = result[p] ELSE file'[n] = file[n]
    BY <1>t, <2>0 DEF Marks
  <2>3. CASE UsePostgres
    <3>1. at' = [at EXCEPT ![p] = "upsert"] /\ UNCHANGED <<name, ended, superseded>>
      BY <1>5, <2>3 DEF Dump
    <3>2. \A q \in Procs : Opened(q)' <=> Opened(q)
      BY <1>5, <1>t, <3>1 DEF Opened, Dump
    <3>3. \A q \in Procs : Opened(q) /\ name[q] = name[p] => result[p].run \notin before[q]
      BY <2>1 DEF Registers
    <3> QED BY <1>t, <2>0, <2>1, <2>2, <3>1, <3>2, <3>3 DEF Registers
  <2>4. CASE ~ UsePostgres
    <3>1. /\ ended' = [ended EXCEPT ![name[p]] = @ \cup {result[p].run}]
          /\ superseded' = [superseded EXCEPT ![name[p]] = @ \cup before[p]]
          /\ ~ Opened(p)'
          /\ \A q \in Procs \ {p} : at'[q] = at[q] /\ name'[q] = name[q]
      BY <1>5, <1>t, <2>4 DEF Dump, EndWrite, Exit, Opened
    <3>2. \A q \in Procs : Opened(q)' => q # p /\ Opened(q) /\ name'[q] = name[q]
      BY <3>1 DEF Opened
    <3>3. \A q \in Procs : Opened(q) /\ name[q] = name[p] => result[p].run \notin before[q]
      BY <2>1 DEF Registers
    <3>4. \A n \in Names : superseded'[n] \subseteq ended'[n] /\ ended[n] \subseteq ended'[n]
      BY <1>t, <2>1, <3>1 DEF Registers
    <3>5. \A n \in Names : file'[n] \notin Marks =>
            file'[n] = Shipped[n] \/ file'[n].run \notin superseded'[n]
      BY <1>t, <2>1, <2>2, <3>1 DEF Registers
    <3>6. \A q \in Procs : Opened(q)' =>
            /\ before'[q] \subseteq ended'[name'[q]]
            /\ file'[name'[q]] \notin Marks => file'[name'[q]].run \notin before'[q]
      BY <1>t, <2>1, <2>2, <3>2, <3>3, <3>4 DEF Registers
    <3> QED BY <2>4, <3>4, <3>5, <3>6 DEF Registers, Marks
  <2> QED BY <2>3, <2>4
<1>6. ASSUME NEW p \in Procs, Upsert(p) PROVE Registers'
  <2>1. /\ result[p].run \notin ended[name[p]] /\ before[p] \subseteq ended[name[p]]
        /\ file[name[p]] \notin Marks => file[name[p]].run \notin before[p]
        /\ UNCHANGED <<before, file>>
    BY <1>6 DEF Upsert, UpsertBlob, SwallowUpsert, Progress, Registers, Writing, Opened
  <2>2. /\ ended' = [ended EXCEPT ![name[p]] = @ \cup {result[p].run}]
        /\ superseded' = [superseded EXCEPT ![name[p]] = @ \cup before[p]]
        /\ ~ Opened(p)'
        /\ \A q \in Procs \ {p} : at'[q] = at[q] /\ name'[q] = name[q]
    BY <1>6, <1>t DEF Upsert, EndWrite, Exit, Opened
  <2>3. \A q \in Procs : Opened(q)' => q # p /\ Opened(q) /\ name'[q] = name[q]
    BY <2>2 DEF Opened
  <2>4. \A n \in Names : superseded'[n] \subseteq ended'[n] /\ ended[n] \subseteq ended'[n]
    BY <1>t, <2>1, <2>2 DEF Registers
  <2>5. \A n \in Names : file'[n] \notin Marks =>
          file'[n] = Shipped[n] \/ file'[n].run \notin superseded'[n]
    BY <1>t, <2>1, <2>2 DEF Registers
  <2>6. \A q \in Procs : Opened(q)' =>
          /\ before'[q] \subseteq ended'[name'[q]]
          /\ file'[name'[q]] \notin Marks => file'[name'[q]].run \notin before'[q]
    BY <1>t, <2>1, <2>3, <2>4 DEF Registers
  <2>7. UsePostgres => \A n \in Names :
          ~ swallowed'[n] /\ blob'[n] # Absent => blob'[n].run \notin superseded'[n]
    <3>1. \A n \in Names \ {name[p]} :
            blob'[n] = blob[n] /\ swallowed'[n] = swallowed[n] /\ superseded'[n] = superseded[n]
      BY <1>6, <1>t, <2>2 DEF Upsert, UpsertBlob, SwallowUpsert
    <3>2. ~ swallowed'[name[p]] => blob'[name[p]] = result[p]
      BY <1>6, <1>t DEF Upsert, UpsertBlob
    <3>3. result[p].run \notin superseded'[name[p]]
      BY <1>t, <2>1, <2>2 DEF Registers
    <3> QED BY <3>1, <3>2, <3>3 DEF Registers
  <2> QED BY <2>4, <2>5, <2>6, <2>7 DEF Registers, Marks
<1>7. ASSUME NEW p \in Procs, Fail(p) \/ Reap(p) PROVE Registers'
  BY <1>7, <1>r DEF Fail, Exit, Reap, history, blobs, faults
<1>8. CASE RestartAPI
  BY <1>8 DEF RestartAPI, Registers, Opened, Marks, history, blobs, faults
<1>9. CASE Replace
  <2>1. /\ \A p \in Procs : ~ Opened(p)'
        /\ file' = Shipped /\ UNCHANGED <<blob, superseded, ended, swallowed>>
    BY <1>9 DEF Replace, Opened, history
  <2> QED BY <2>1 DEF Registers, Marks
<1>10. CASE UNCHANGED vars
  BY <1>10 DEF vars, history, blobs, faults, Registers, Opened, Marks
<1> QED
  BY <1>1, <1>2, <1>3, <1>4, <1>5, <1>6, <1>7, <1>8, <1>9, <1>10
  DEF Next, Benchmarking

(* What a write without faults leaves as it ends: the next write of the    *)
(* process starts from its scores, and after the last all is settled.      *)
LEMMA EndSettles ==
  ASSUME TypeOK, NEW p \in Procs, Writing(p), EndWrite(p), result' = result,
         Running = {p}, file'[name[p]] = result[p], UsePostgres => blob'[name[p]] = result[p],
         name[p] = "champion" => Shows("scores", result[p])'
  PROVE  /\ Running' \subseteq {p}
         /\ p \in Running' => at'[p] = "open" /\ name'[p] = "champion" /\ Shows("scores", result[p])'
         /\ Running' = {} => Settled'
<1>t. /\ at \in [Procs -> Places] /\ result[p] \in Result /\ name \in [Procs -> Names]
      /\ Names = {"scores", "champion"}
  BY BenchmarkConstants DEF TypeOK, Places
<1>1. CASE name[p] = "scores" /\ result[p].champion # NoModel
  <2>1. at' = [at EXCEPT ![p] = "open"] /\ name' = [name EXCEPT ![p] = "champion"]
    BY <1>1 DEF EndWrite
  <2>2. p \in Running' /\ Running' \subseteq {p}
    BY <1>t, <2>1 DEF Running
  <2>3. Shows("scores", result[p])'
    BY <1>1 DEF Shows
  <2> QED BY <1>t, <2>1, <2>2, <2>3
<1>2. CASE ~ (name[p] = "scores" /\ result[p].champion # NoModel)
  <2>1. at' = [at EXCEPT ![p] = "exit0"]
    BY <1>2 DEF EndWrite, Exit
  <2>2. Running' = {}
    BY <1>t, <2>1 DEF Running
  <2>3. CASE name[p] = "scores"
    <3>1. file'["scores"] = result[p] /\ result[p].champion = NoModel
      BY <1>2, <2>3
    <3>2. UsePostgres => blob'["scores"] = file'["scores"]
      BY <2>3, <3>1
    <3> QED BY <1>t, <2>2, <3>1, <3>2 DEF Settled, Shows
  <2>4. CASE name[p] = "champion"
    <3>1. /\ file'["scores"] = result[p] /\ file'["champion"] = result[p]
          /\ UsePostgres => blob'["scores"] = result[p] /\ blob'["champion"] = result[p]
      BY <2>4 DEF Shows
    <3> QED BY <1>t, <2>2, <3>1 DEF Settled, Shows
  <2> QED BY <1>t, <2>3, <2>4
<1> QED BY <1>1, <1>2

(* A process that nobody disturbs writes the scores and then the champion, *)
(* and leaves the snapshots settled, however it found them.                *)
LEMMA StepUndisturbed ==
  ASSUME TypeOK, Undisturbed, [Next]_vars
  PROVE  Undisturbed'
<1> SUFFICES ASSUME ~ disturbed' PROVE Undisturbed'
  BY DEF Undisturbed
<1>t. /\ at \in [Procs -> Places] /\ result \in [Procs -> Result] /\ name \in [Procs -> Names]
      /\ file \in [Names -> Result \cup Marks] /\ blob \in [Names -> Result \cup {Absent}]
      /\ Jobs \subseteq Procs /\ Operators \subseteq Procs /\ Names = {"scores", "champion"}
  BY BenchmarkConstants DEF TypeOK, Places, Procs, Marks
<1>w. \A p \in Procs : Writing(p) => p \in Running
  BY DEF Running, Writing
<1>q. ASSUME UNCHANGED <<file, blob, name, Running, disturbed>>,
             \A p \in Running : at'[p] = at[p] /\ result'[p] = result[p]
      PROVE  Undisturbed'
  <2>1. \A p \in Procs : Writing(p)' => Writing(p) /\ p \in Running
    BY <1>q DEF Running, Writing
  <2>2. Settled' = Settled
    BY <1>q DEF Settled, Shows
  <2> QED BY <1>q, <2>1, <2>2 DEF Undisturbed, Shows
<1>1. ASSUME NEW j \in Jobs, StartBenchmark(j) PROVE Undisturbed'
  <2>1. \A p \in Running : result'[p] = result[p]
    BY <1>1, <1>t, DrawTypes DEF StartBenchmark, Running
  <2> QED BY <1>1, <1>q, <2>1 DEF StartBenchmark, Running, blobs, faults
<1>l. ASSUME NEW p \in Procs, Launch(p) PROVE Undisturbed'
  <2>1. Running = {} /\ at' = [at EXCEPT ![p] = "scoring"]
    BY <1>l DEF Launch
  <2>2. Running' = {p} /\ at'[p] = "scoring"
    BY <1>t, <2>1 DEF Running
  <2>3. \A q \in Procs : ~ Writing(q)'
    BY <2>2 DEF Running, Writing
  <2> QED BY <2>2, <2>3 DEF Undisturbed
<1>2. ASSUME NEW j \in Jobs, PopenRaises(j) \/ Record(j) PROVE Undisturbed'
  <2>1. /\ UNCHANGED <<file, blob, name, result, disturbed>>
        /\ at' = at \/ at' = [at EXCEPT ![j] = "idle"]
        /\ at' # at => at[j] \in {"exit0", "exit1"}
    BY <1>2 DEF PopenRaises, Record, blobs, faults
  <2>2. Running' = Running /\ \A p \in Running : at'[p] = at[p]
    BY <1>t, <2>1 DEF Running
  <2> QED BY <1>q, <2>1, <2>2
<1>3. ASSUME NEW p \in Procs, Score(p) PROVE Undisturbed'
  <2>1. /\ at[p] = "scoring" /\ at' = [at EXCEPT ![p] = "open"]
        /\ name' = [name EXCEPT ![p] = "scores"] /\ UNCHANGED <<file, blob, result, disturbed>>
    BY <1>3 DEF Score, blobs, faults
  <2>2. p \in Running /\ Running' = Running
    BY <1>t, <2>1 DEF Running
  <2>3. Running = {p}
    BY <2>1, <2>2 DEF Undisturbed
  <2>4. \A q \in Procs : Writing(q)' => q = p
    BY <2>2, <2>3 DEF Running, Writing
  <2> QED BY <1>t, <2>1, <2>2, <2>3, <2>4 DEF Undisturbed
<1>4. ASSUME NEW p \in Procs, Open(p) PROVE Undisturbed'
  <2>1. /\ at[p] = "open" /\ at' = [at EXCEPT ![p] = "dump"]
        /\ file' = [file EXCEPT ![name[p]] = Empty] /\ UNCHANGED <<blob, name, result, disturbed>>
    BY <1>4 DEF Open, OpenBlob, faults
  <2>2. p \in Running /\ Running' = Running /\ Writing(p)
    BY <1>t, <2>1 DEF Running, Writing
  <2>3. Running = {p}
    BY <2>1, <2>2 DEF Undisturbed
  <2>4. name[p] = "champion" => Shows("scores", result[p])'
    BY <1>t, <2>1, <2>2 DEF Undisturbed, Shows
  <2>5. \A q \in Procs : Writing(q)' => q = p
    BY <2>2, <2>3 DEF Running, Writing
  <2> QED BY <1>t, <2>1, <2>2, <2>3, <2>4, <2>5 DEF Undisturbed
<1>e. ASSUME NEW p \in Procs, Writing(p), Running = {p}, EndWrite(p), result' = result,
             file'[name[p]] = result[p], UsePostgres => blob'[name[p]] = result[p],
             name[p] = "champion" => Shows("scores", result[p])'
      PROVE  Undisturbed'
  <2>1. /\ Running' \subseteq {p}
        /\ p \in Running' => at'[p] = "open" /\ name'[p] = "champion" /\ Shows("scores", result[p])'
        /\ Running' = {} => Settled'
    BY <1>e, EndSettles
  <2>2. \A q \in Procs : Writing(q)' => q = p /\ p \in Running'
    BY <2>1 DEF Running, Writing
  <2> QED BY <1>e, <2>1, <2>2 DEF Undisturbed
<1>5. ASSUME NEW p \in Procs, Dump(p) PROVE Undisturbed'
  <2>0. ~ disturbed
    BY <1>5 DEF Dump, faults
  <2>1. /\ at[p] = "dump" /\ result' = result /\ blob' = blob
        /\ p \in Running /\ Writing(p)
    BY <1>5 DEF Dump, DumpBlob, Running, Writing
  <2>2. Running = {p}
    BY <2>0, <2>1 DEF Undisturbed
  <2>3. file' = [file EXCEPT ![name[p]] = result[p]]
    BY <1>5, <2>0, <2>1 DEF Dump, DumpBlob, Undisturbed
  <2>4. name[p] = "champion" => Shows("scores", result[p])'
    BY <1>t, <2>0, <2>1, <2>3 DEF Undisturbed, Shows
  <2>5. CASE UsePostgres
    <3>1. at' = [at EXCEPT ![p] = "upsert"] /\ name' = name
      BY <1>5, <2>5 DEF Dump
    <3>2. Running' = Running
      BY <1>t, <2>1, <3>1 DEF Running
    <3>3. \A q \in Procs : Writing(q)' => q = p
      BY <2>2, <3>2 DEF Running, Writing
    <3> QED BY <1>t, <2>0, <2>1, <2>2, <2>3, <2>4, <3>1, <3>2, <3>3 DEF Undisturbed
  <2>6. CASE ~ UsePostgres
    <3>1. file'[name[p]] = result[p]
      BY <1>t, <2>1, <2>3
    <3> QED BY <1>5, <1>e, <2>1, <2>2, <2>4, <2>6, <3>1 DEF Dump
  <2> QED BY <2>5, <2>6
<1>6. ASSUME NEW p \in Procs, Upsert(p) PROVE Undisturbed'
  <2>0. ~ disturbed
    BY <1>6 DEF Upsert
  <2>1. /\ at[p] = "upsert" /\ result' = result /\ file' = file
        /\ p \in Running /\ Writing(p) /\ EndWrite(p)
        /\ blob' = [blob EXCEPT ![name[p]] = result[p]]
    BY <1>6 DEF Upsert, UpsertBlob, Running, Writing
  <2>2. Running = {p}
    BY <2>0, <2>1 DEF Undisturbed
  <2>3. file'[name[p]] = result[p] /\ blob'[name[p]] = result[p]
    BY <1>t, <2>0, <2>1 DEF Undisturbed
  <2>4. name[p] = "champion" => Shows("scores", result[p])'
    BY <1>t, <2>0, <2>1 DEF Undisturbed, Shows
  <2> QED BY <1>e, <2>1, <2>2, <2>3, <2>4
<1>7. ASSUME NEW p \in Procs, Reap(p) PROVE Undisturbed'
  <2>1. /\ UNCHANGED <<file, blob, name, result, disturbed>> /\ at' = [at EXCEPT ![p] = "idle"]
        /\ at[p] \in {"exit0", "exit1"}
    BY <1>7 DEF Reap, blobs, faults
  <2>2. Running' = Running /\ \A q \in Running : at'[q] = at[q]
    BY <1>t, <2>1 DEF Running
  <2> QED BY <1>q, <2>1, <2>2
<1>8. CASE RestartAPI \/ UNCHANGED vars
  BY <1>8, <1>q DEF RestartAPI, vars, blobs, faults, Running
<1>9. ASSUME NEW p \in Procs, Fail(p) PROVE FALSE
  BY <1>9 DEF Fail
<1>10. CASE Replace
  BY <1>10 DEF Replace
<1> QED
  BY <1>1, <1>l, <1>2, <1>3, <1>4, <1>5, <1>6, <1>7, <1>8, <1>9, <1>10, <1>t
  DEF Next, Working, Benchmarking, Popen, Operate

(* A job that is recorded as done has ended both its writes, and its run   *)
(* is nobody else's.                                                       *)
LEMMA StepDone ==
  ASSUME TypeOK, Numbered, Progress, DoneMeansWritten, [Next]_vars
  PROVE  DoneMeansWritten'
<1>t. /\ result \in [Procs -> Result] /\ ended \in [Names -> SUBSET (0 .. MaxRuns)]
      /\ Jobs \subseteq Procs /\ Operators \subseteq Procs /\ Names = {"scores", "champion"}
      /\ name \in [Procs -> Names] /\ runs \in Nat /\ jobRun \in Nat
  BY BenchmarkConstants DEF TypeOK, Procs
<1>s. ASSUME ended["scores"] \subseteq ended'["scores"], ended["champion"] \subseteq ended'["champion"],
             bench' = "done" => bench = "done", jobRun' = jobRun,
             \A p \in Procs : result'[p] = result[p] \/ result'[p].run # jobRun
      PROVE  DoneMeansWritten'
  BY <1>s DEF DoneMeansWritten
<1>d. ASSUME NEW p \in Procs, Draw(p) PROVE \A q \in Procs : result'[q] = result[q] \/ result'[q].run # jobRun
  <2>1. result'[p].run = runs + 1 /\ \A q \in Procs \ {p} : result'[q] = result[q]
    BY <1>d, DrawTypes
  <2>2. runs + 1 # jobRun
    BY <1>t DEF Numbered
  <2> QED BY <2>1, <2>2
<1>1. ASSUME NEW j \in Jobs, StartBenchmark(j) PROVE DoneMeansWritten'
  BY <1>1 DEF StartBenchmark, DoneMeansWritten
<1>2. ASSUME NEW j \in Jobs, Popen(j) \/ PopenRaises(j) PROVE DoneMeansWritten'
  BY <1>2, <1>s DEF Popen, Launch, PopenRaises, history
<1>3. ASSUME NEW j \in Jobs, Record(j) PROVE DoneMeansWritten'
  <2> SUFFICES ASSUME bench' = "done", jobRun' > 0 PROVE DoneMeansWritten'
    BY DEF DoneMeansWritten
  <2>1. at[j] = "exit0" /\ jobRun' = result[j].run /\ UNCHANGED <<ended, result>>
    BY <1>3 DEF Record, history
  <2>2. \A p \in Procs : result[p].run = jobRun' => p = j
    BY <1>t, <2>1 DEF Numbered
  <2>3. \A m \in Models : [run |-> jobRun', champion |-> m] \in {result[p] : p \in Procs} =>
            result[j].champion = m
    BY <2>2
  <2> QED BY <1>t, <2>1, <2>3, BenchmarkConstants DEF DoneMeansWritten, Progress
<1>4. ASSUME NEW p \in Operators, Operate(p) PROVE DoneMeansWritten'
  BY <1>4, <1>s, <1>d, <1>t DEF Operate, Launch, api, history
<1>5. ASSUME NEW p \in Procs, Benchmarking(p) PROVE DoneMeansWritten'
  <2>1. UNCHANGED <<bench, jobRun, result>>
    BY <1>5 DEF Benchmarking, Score, Open, Dump, Upsert, api
  <2>2. \A n \in Names : ended[n] \subseteq ended'[n]
    BY <1>5, <1>t DEF Benchmarking, Score, Open, Dump, Upsert, EndWrite, history
  <2> QED BY <1>s, <1>t, <2>1, <2>2
<1>6. ASSUME NEW p \in Procs, Fail(p) \/ Reap(p) PROVE DoneMeansWritten'
  BY <1>6, <1>s DEF Fail, Reap, api, history
<1>7. CASE RestartAPI \/ Replace
  BY <1>7 DEF RestartAPI, Replace, DoneMeansWritten
<1>8. CASE UNCHANGED vars
  BY <1>8, <1>s DEF vars, api, history
<1> QED BY <1>1, <1>2, <1>3, <1>4, <1>5, <1>6, <1>7, <1>8 DEF Next, Working
-----------------------------------------------------------------------------
(* The inductive invariant holds at first ...                              *)
LEMMA InitInv ==
  Init => TypeOK /\ Numbered /\ Progress /\ OneThread /\ Registers /\ Undisturbed /\ DoneMeansWritten
<1> SUFFICES ASSUME Init PROVE Numbered /\ Progress /\ OneThread /\ Registers /\ Undisturbed /\ DoneMeansWritten
  BY InitTypes
<1>t. Jobs \subseteq Procs /\ Names = {"scores", "champion"}
  BY BenchmarkConstants DEF Procs
<1>1. Numbered /\ OneThread /\ DoneMeansWritten
  BY DEF Init, Numbered, OneThread, DoneMeansWritten, NoRun
<1>2. Progress /\ Registers
  BY <1>t DEF Init, BlobInit, Progress, Registers, Writing, Opened, Marks
<1>3. Undisturbed
  BY DEF Init, Undisturbed
<1> QED BY <1>1, <1>2, <1>3

(* The API's counters, the benchmark processes, the snapshots and the      *)
(* histories keep their types, and only a scored model is a champion.      *)
THEOREM BenchmarkTypes == Spec => []TypeOK
<1>1. Init => TypeOK /\ Numbered /\ Progress
  BY InitInv
<1>2. TypeOK /\ Numbered /\ Progress /\ [Next]_vars => (TypeOK /\ Numbered /\ Progress)'
  BY StepTypes, StepNumbered, StepProgress
<1> QED BY <1>1, <1>2, PTL DEF Spec

(* One job thread at a time is one by Cardinality, too.                    *)
LEMMA OneJobOfOneThread == OneThread => OneJob
<1> SUFFICES ASSUME OneThread PROVE OneJob
  OBVIOUS
<1> DEFINE Busy == {j \in Jobs : thread[j] # "none"}
<1>1. CASE Busy = {}
  BY <1>1, FS_EmptySet DEF OneJob, OneThread
<1>2. CASE Busy # {}
  <2>1. PICK j \in Busy : TRUE
    BY <1>2
  <2>2. Busy = {j}
    BY <2>1 DEF OneThread
  <2>3. Cardinality(Busy) = 1
    BY <2>2, FS_Singleton
  <2> QED BY <2>3 DEF OneJob, OneThread
<1> QED BY <1>1, <1>2

(* GET /models/benchmark/status tells the truth: "running" means one job,  *)
(* and "done" means its process wrote the scores and, if it has one, the   *)
(* champion, over refused starts, exceptions, kills and restarts.          *)
THEOREM StatusIsTrue == Spec => []JobStatusTrue
<1>1. Init => TypeOK /\ Numbered /\ Progress /\ OneThread /\ DoneMeansWritten
  BY InitInv
<1>2. /\ TypeOK /\ Numbered /\ Progress /\ OneThread /\ DoneMeansWritten /\ [Next]_vars
      => (TypeOK /\ Numbered /\ Progress /\ OneThread /\ DoneMeansWritten)'
  BY StepTypes, StepNumbered, StepProgress, StepOneThread, StepDone
<1>3. OneThread /\ DoneMeansWritten => JobStatusTrue
  BY OneJobOfOneThread DEF JobStatusTrue
<1> QED BY <1>1, <1>2, <1>3, PTL DEF Spec

(* Nobody reads a snapshot that was superseded, however many benchmarks    *)
(* overlap or are killed: not from the row, unless its last upsert was     *)
(* swallowed, and not from the file, when Postgres is off, has no row or   *)
(* does not answer, unless it is the one the container was shipped with.   *)
THEOREM LatestWinsAlways == Spec => []LatestWins
<1>1. Init => TypeOK /\ Numbered /\ Progress /\ Registers
  BY InitInv
<1>2. TypeOK /\ Numbered /\ Progress /\ Registers /\ [Next]_vars
      => (TypeOK /\ Numbered /\ Progress /\ Registers)'
  BY StepTypes, StepNumbered, StepProgress, StepRegisters
<1>3. Registers => LatestWins
  <2> SUFFICES ASSUME Registers, NEW n \in Names
               PROVE  /\ ~ swallowed[n] => \A v \in FromRow(n) : v.run \notin superseded[n]
                      /\ \A v \in FromFile(n) \ {Absent, Shipped[n]} : v.run \notin superseded[n]
    BY DEF LatestWins
  <2>1. ~ swallowed[n] => \A v \in FromRow(n) : v.run \notin superseded[n]
    BY DEF Registers, FromRow, HasRow
  <2>2. ASSUME NEW v \in FromFile(n) \ {Absent, Shipped[n]} PROVE v.run \notin superseded[n]
    <3>1. v = file[n] /\ file[n] \notin Marks
      BY <2>2 DEF FromFile, Marks
    <3> QED BY <2>2, <3>1 DEF Registers
  <2> QED BY <2>1, <2>2
<1> QED BY <1>1, <1>2, <1>3, PTL DEF Spec

(* After a benchmark that ran alone and undisturbed the served champion is *)
(* the one of the scores shown, in either storage mode, whatever an        *)
(* earlier kill, overlap, swallowed upsert or replaced container had left, *)
(* and whatever the repository's own files say.                            *)
THEOREM ChampionBelongsToScores == Spec => []ChampionOfScores
<1>1. Init => TypeOK /\ Numbered /\ Progress /\ Undisturbed
  BY InitInv
<1>2. TypeOK /\ Numbered /\ Progress /\ Undisturbed /\ [Next]_vars
      => (TypeOK /\ Numbered /\ Progress /\ Undisturbed)'
  BY StepTypes, StepNumbered, StepProgress, StepUndisturbed
<1>3. TypeOK /\ Undisturbed => ChampionOfScores
  <2> SUFFICES ASSUME TypeOK, Undisturbed, ~ disturbed, Running = {}
               PROVE  \E s \in Result : /\ Readable("scores") = {s}
                                        /\ s.champion # NoModel => Readable("champion") = {s}
    BY DEF ChampionOfScores
  <2> DEFINE s == file["scores"]
  <2>1. s \in Result /\ Shows("scores", s) /\ (s.champion # NoModel => Shows("champion", s))
    BY DEF Undisturbed, Settled
  <2>2. s \notin Marks
    BY <2>1, BenchmarkConstants DEF Result, Marks
  <2>3. ASSUME NEW n \in Names, Shows(n, s) PROVE Readable(n) = {s}
    BY <2>2, <2>3 DEF Readable, FromRow, FromFile, HasRow, Shows, Marks
  <2> QED BY <2>1, <2>3, BenchmarkConstants
<1> QED BY <1>1, <1>2, <1>3, PTL DEF Spec
=============================================================================

--------------------------- MODULE TTLCacheProofs ---------------------------
(***************************************************************************)
(* Lemmas about the operators of TTLCache, for caches over any keys, any   *)
(* values, any size and any TTL.                                           *)
(***************************************************************************)
EXTENDS TTLCache, SequenceTheorems, TLAPS

(* The position of a key that occurs is a position of the cache.           *)
LEMMA PositionOfKey ==
  ASSUME NEW c, NEW k \in KeysOf(c)
  PROVE  Position(c, k) \in DOMAIN c /\ c[Position(c, k)].key = k
BY DEF KeysOf, Position

(* Removing position p keeps the other entries in their order.             *)
LEMMA RemoveAtEntries ==
  ASSUME NEW S, NEW c \in Seq(S), NEW p \in 1 .. Len(c)
  PROVE  /\ RemoveAt(c, p) \in Seq(S)
         /\ Len(RemoveAt(c, p)) = Len(c) - 1
         /\ \A i \in 1 .. Len(c) - 1 :
               RemoveAt(c, p)[i] = c[IF i < p THEN i ELSE i + 1]
<1> DEFINE left == SubSeq(c, 1, p - 1)
           right == SubSeq(c, p + 1, Len(c))
<1>1. left \in Seq(S) /\ Len(left) = p - 1 /\ \A i \in 1 .. p - 1 : left[i] = c[i]
  OBVIOUS
<1>2. /\ right \in Seq(S) /\ Len(right) = Len(c) - p
      /\ \A i \in 1 .. Len(c) - p : right[i] = c[p + i]
  OBVIOUS
<1>3. RemoveAt(c, p) = left \o right
  BY DEF RemoveAt
<1> HIDE DEF left, right
<1>4. left \o right \in Seq(S) /\ Len(left \o right) = Len(c) - 1
  BY <1>1, <1>2
<1>5. ASSUME NEW i \in 1 .. Len(c) - 1
      PROVE  (left \o right)[i] = c[IF i < p THEN i ELSE i + 1]
  <2>1. CASE i < p
    BY <2>1, <1>1, <1>2
  <2>2. CASE ~ (i < p)
    <3>1. (left \o right)[i] = right[i - (p - 1)]
      BY <2>2, <1>1, <1>2
    <3>2. i - (p - 1) \in 1 .. Len(c) - p
      BY <2>2
    <3> QED BY <3>1, <3>2, <2>2, <1>2
  <2> QED BY <2>1, <2>2
<1> QED BY <1>3, <1>4, <1>5

(* Removing a key: what stays was there, and the key is gone if it occurred *)
(* once.                                                                   *)
LEMMA WithoutKey ==
  ASSUME NEW S, NEW c \in Seq(S), NEW k
  PROVE  /\ Without(c, k) \in Seq(S)
         /\ Len(Without(c, k)) = IF k \in KeysOf(c) THEN Len(c) - 1 ELSE Len(c)
         /\ \A i \in DOMAIN Without(c, k) : \E j \in DOMAIN c : Without(c, k)[i] = c[j]
         /\ KeysDistinct(c) => /\ KeysDistinct(Without(c, k))
                               /\ k \notin KeysOf(Without(c, k))
<1>1. CASE k \notin KeysOf(c)
  BY <1>1 DEF Without
<1>2. CASE k \in KeysOf(c)
  <2> DEFINE p == Position(c, k)
             w == RemoveAt(c, p)
             at(i) == IF i < p THEN i ELSE i + 1
  <2>1. p \in 1 .. Len(c) /\ c[p].key = k
    BY <1>2, PositionOfKey
  <2>2. /\ w \in Seq(S) /\ Len(w) = Len(c) - 1
        /\ \A i \in 1 .. Len(c) - 1 : w[i] = c[at(i)]
    BY <2>1, RemoveAtEntries
  <2>3. Without(c, k) = w
    BY <1>2 DEF Without
  <2> HIDE DEF w, p
  <2>4. DOMAIN w = 1 .. Len(c) - 1 /\ DOMAIN c = 1 .. Len(c)
    BY <2>2
  <2>5. \A i \in DOMAIN w : at(i) \in DOMAIN c /\ at(i) # p /\ w[i] = c[at(i)]
    BY <2>1, <2>2, <2>4
  <2>6. \A i, j \in DOMAIN w : at(i) = at(j) => i = j
    BY <2>1, <2>4
  <2> HIDE DEF at
  <2>7. ASSUME KeysDistinct(c)
        PROVE  KeysDistinct(w) /\ k \notin KeysOf(w)
    BY <2>7, <2>1, <2>4, <2>5, <2>6 DEF KeysDistinct, KeysOf
  <2> QED BY <1>2, <2>2, <2>3, <2>5, <2>7
<1> QED BY <1>1, <1>2

(* Appending an entry whose key is not there.                              *)
LEMMA AppendEntry ==
  ASSUME NEW S, NEW c \in Seq(S), NEW e \in S
  PROVE  /\ Append(c, e) \in Seq(S)
         /\ Len(Append(c, e)) = Len(c) + 1
         /\ \A i \in DOMAIN Append(c, e) :
               Append(c, e)[i] = e \/ \E j \in DOMAIN c : Append(c, e)[i] = c[j]
         /\ KeysDistinct(c) /\ e.key \notin KeysOf(c) => KeysDistinct(Append(c, e))
<1> DEFINE a == Append(c, e)
<1>1. /\ a \in Seq(S) /\ Len(a) = Len(c) + 1
      /\ \A i \in 1 .. Len(c) : a[i] = c[i]
      /\ a[Len(c) + 1] = e
  BY AppendProperties
<1> HIDE DEF a
<1>2. DOMAIN a = 1 .. Len(c) + 1 /\ DOMAIN c = 1 .. Len(c)
  BY <1>1
<1>3. \A i \in DOMAIN a : (i \in DOMAIN c /\ a[i] = c[i]) \/ (i = Len(c) + 1 /\ a[i] = e)
  BY <1>1, <1>2
<1>4. ASSUME KeysDistinct(c), e.key \notin KeysOf(c)
      PROVE  KeysDistinct(a)
  BY <1>3, <1>4 DEF KeysDistinct, KeysOf
<1> QED BY <1>1, <1>3, <1>4 DEF a

(* TTLCache.get adds no entry and duplicates none.                         *)
LEMMA AfterGetEntries ==
  ASSUME NEW S, NEW c \in Seq(S), NEW k, NEW ttl
  PROVE  /\ AfterGet(c, k, ttl) \in Seq(S)
         /\ Len(AfterGet(c, k, ttl)) <= Len(c)
         /\ \A i \in DOMAIN AfterGet(c, k, ttl) :
               \E j \in DOMAIN c : AfterGet(c, k, ttl)[i] = c[j]
         /\ KeysDistinct(c) => KeysDistinct(AfterGet(c, k, ttl))
<1> DEFINE w == Without(c, k)
           e == c[Position(c, k)]
<1>1. /\ w \in Seq(S)
      /\ Len(w) = IF k \in KeysOf(c) THEN Len(c) - 1 ELSE Len(c)
      /\ \A i \in DOMAIN w : \E j \in DOMAIN c : w[i] = c[j]
      /\ KeysDistinct(c) => KeysDistinct(w) /\ k \notin KeysOf(w)
  BY WithoutKey
<1>2. Len(c) \in Nat /\ Len(w) \in Nat
  BY <1>1, LenProperties
<1>3. CASE ~ Hit(c, k, ttl)
  BY <1>1, <1>2, <1>3 DEF AfterGet
<1>4. CASE Hit(c, k, ttl)
  <2>1. k \in KeysOf(c)
    BY <1>4 DEF Hit
  <2>2. Position(c, k) \in DOMAIN c /\ e.key = k
    BY <2>1, PositionOfKey
  <2>3. e \in S
    BY <2>2, ElementOfSeq, LenProperties
  <2>4. AfterGet(c, k, ttl) = Append(w, e)
    BY <1>4 DEF AfterGet
  <2> HIDE DEF w, e
  <2>5. /\ Append(w, e) \in Seq(S)
        /\ Len(Append(w, e)) = Len(w) + 1
        /\ \A i \in DOMAIN Append(w, e) :
              Append(w, e)[i] = e \/ \E j \in DOMAIN w : Append(w, e)[i] = w[j]
        /\ KeysDistinct(w) /\ e.key \notin KeysOf(w) => KeysDistinct(Append(w, e))
    BY <1>1, <2>3, AppendEntry
  <2>6. Len(Append(w, e)) <= Len(c)
    BY <1>1, <1>2, <2>1, <2>5
  <2>7. \A i \in DOMAIN Append(w, e) : \E j \in DOMAIN c : Append(w, e)[i] = c[j]
    BY <1>1, <2>2, <2>5 DEF e
  <2> QED BY <1>1, <2>2, <2>4, <2>5, <2>6, <2>7
<1> QED BY <1>3, <1>4

(* Trimming to n entries keeps a suffix.                                   *)
LEMMA NewestEntries ==
  ASSUME NEW S, NEW c \in Seq(S), NEW n \in Nat
  PROVE  /\ Newest(c, n) \in Seq(S)
         /\ Len(Newest(c, n)) <= n
         /\ \A i \in DOMAIN Newest(c, n) : \E j \in DOMAIN c : Newest(c, n)[i] = c[j]
         /\ KeysDistinct(c) => KeysDistinct(Newest(c, n))
<1>1. CASE ~ (Len(c) > n)
  BY <1>1 DEF Newest
<1>2. CASE Len(c) > n
  <2> DEFINE d == Len(c) - n
             s == SubSeq(c, d + 1, Len(c))
  <2>1. Newest(c, n) = s
    BY <1>2 DEF Newest
  <2>2. d \in Nat /\ d + n = Len(c)
    BY <1>2
  <2>3. s \in Seq(S) /\ Len(s) = n /\ \A i \in 1 .. n : s[i] = c[d + i]
    <3> HIDE DEF d
    <3>1. d + 1 \in 1 .. Len(c) + 1
      BY <2>2
    <3>2. /\ s \in Seq(S) /\ Len(s) = Len(c) - (d + 1) + 1
          /\ \A i \in 1 .. Len(c) - (d + 1) + 1 : s[i] = c[(d + 1) + i - 1]
      BY <2>2, <3>1, SubSeqProperties
    <3>3. Len(c) - (d + 1) + 1 = n /\ \A i \in 1 .. n : (d + 1) + i - 1 = d + i
      BY <2>2
    <3> QED BY <3>2, <3>3
  <2> HIDE DEF s, d
  <2>4. DOMAIN s = 1 .. n /\ DOMAIN c = 1 .. Len(c)
    BY <2>3
  <2>5. \A i \in DOMAIN s : d + i \in DOMAIN c /\ s[i] = c[d + i]
    BY <2>2, <2>3, <2>4
  <2>6. KeysDistinct(c) => KeysDistinct(s)
    <3> SUFFICES ASSUME KeysDistinct(c), NEW i \in DOMAIN s, NEW j \in DOMAIN s,
                        s[i].key = s[j].key
                 PROVE  i = j
      BY DEF KeysDistinct
    <3>1. d + i = d + j
      BY <2>5 DEF KeysDistinct
    <3> QED BY <3>1, <2>2, <2>4
  <2>7. Len(s) <= n
    BY <2>3
  <2> QED BY <2>1, <2>3, <2>5, <2>6, <2>7
<1> QED BY <1>1, <1>2

(* TTLCache.set leaves at most maxsize entries, with distinct keys: the    *)
(* new one and entries that were there.                                    *)
LEMMA AfterSetEntries ==
  ASSUME NEW S, NEW c \in Seq(S), NEW k, NEW v, NEW maxsize \in Nat,
         [key |-> k, val |-> v, age |-> 0] \in S
  PROVE  /\ AfterSet(c, k, v, maxsize) \in Seq(S)
         /\ Len(AfterSet(c, k, v, maxsize)) <= maxsize
         /\ \A i \in DOMAIN AfterSet(c, k, v, maxsize) :
               \/ AfterSet(c, k, v, maxsize)[i] = [key |-> k, val |-> v, age |-> 0]
               \/ \E j \in DOMAIN c : AfterSet(c, k, v, maxsize)[i] = c[j]
         /\ KeysDistinct(c) => KeysDistinct(AfterSet(c, k, v, maxsize))
<1> DEFINE e == [key |-> k, val |-> v, age |-> 0]
           w == Without(c, k)
           a == Append(w, e)
<1>1. /\ w \in Seq(S)
      /\ \A i \in DOMAIN w : \E j \in DOMAIN c : w[i] = c[j]
      /\ KeysDistinct(c) => KeysDistinct(w) /\ k \notin KeysOf(w)
  BY WithoutKey
<1>2. e.key = k
  OBVIOUS
<1> HIDE DEF w, e
<1>3. /\ a \in Seq(S)
      /\ \A i \in DOMAIN a : a[i] = e \/ \E j \in DOMAIN w : a[i] = w[j]
      /\ KeysDistinct(w) /\ e.key \notin KeysOf(w) => KeysDistinct(a)
  BY <1>1, AppendEntry DEF e
<1> HIDE DEF a
<1>4. /\ Newest(a, maxsize) \in Seq(S)
      /\ Len(Newest(a, maxsize)) <= maxsize
      /\ \A i \in DOMAIN Newest(a, maxsize) : \E j \in DOMAIN a : Newest(a, maxsize)[i] = a[j]
      /\ KeysDistinct(a) => KeysDistinct(Newest(a, maxsize))
  BY <1>3, NewestEntries
<1>5. AfterSet(c, k, v, maxsize) = Newest(a, maxsize)
  BY DEF AfterSet, a, w, e
<1>6. \A i \in DOMAIN Newest(a, maxsize) :
         Newest(a, maxsize)[i] = e \/ \E j \in DOMAIN c : Newest(a, maxsize)[i] = c[j]
  BY <1>1, <1>3, <1>4
<1>7. KeysDistinct(c) => KeysDistinct(Newest(a, maxsize))
  BY <1>1, <1>2, <1>3, <1>4
<1> QED BY <1>4, <1>5, <1>6, <1>7 DEF e

(* Ageing changes no key and no value, and keeps ages within the TTL's     *)
(* horizon.                                                                *)
LEMMA AgedEntries ==
  ASSUME NEW K, NEW V, NEW ttl \in Nat, NEW c \in Seq(Entry(K, V, ttl))
  PROVE  /\ Aged(c, ttl) \in Seq(Entry(K, V, ttl))
         /\ Len(Aged(c, ttl)) = Len(c) /\ DOMAIN Aged(c, ttl) = DOMAIN c
         /\ \A i \in DOMAIN c : /\ Aged(c, ttl)[i].key = c[i].key
                                /\ Aged(c, ttl)[i].val = c[i].val
         /\ KeysDistinct(c) => KeysDistinct(Aged(c, ttl))
<1> DEFINE E == Entry(K, V, ttl)
           older(i) == [c[i] EXCEPT !.age = IF @ > ttl THEN @ ELSE @ + 1]
<1>1. DOMAIN c = 1 .. Len(c) /\ Len(c) \in Nat /\ \A i \in DOMAIN c : c[i] \in E
  BY ElementOfSeq, LenProperties
<1>2. \A i \in DOMAIN c : older(i) \in E /\ older(i).key = c[i].key /\ older(i).val = c[i].val
  BY <1>1 DEF Entry
<1>3. Aged(c, ttl) = [i \in 1 .. Len(c) |-> older(i)]
  BY <1>1 DEF Aged
<1> HIDE DEF older, E
<1>4. Aged(c, ttl) \in Seq(E) /\ Len(Aged(c, ttl)) = Len(c)
  BY <1>1, <1>2, <1>3, IsASeq
<1>5. DOMAIN Aged(c, ttl) = DOMAIN c /\ \A i \in DOMAIN c : Aged(c, ttl)[i] = older(i)
  BY <1>1, <1>3
<1>6. KeysDistinct(c) => KeysDistinct(Aged(c, ttl))
  BY <1>2, <1>5 DEF KeysDistinct
<1> QED BY <1>2, <1>4, <1>5, <1>6 DEF E

(* A hit returns the value of an entry of the cache stored under its key.  *)
LEMMA HitEntry ==
  ASSUME NEW c, NEW k, NEW ttl, Hit(c, k, ttl)
  PROVE  \E i \in DOMAIN c : c[i].key = k /\ ValueAt(c, k) = c[i].val
BY PositionOfKey DEF Hit, ValueAt

(* A hit is the value of an entry that has not expired.                    *)
LEMMA HitLive ==
  ASSUME NEW c, NEW k, NEW ttl, Hit(c, k, ttl)
  PROVE  \E i \in DOMAIN c : ValueAt(c, k) = c[i].val /\ ~ Expired(c[i], ttl)
BY PositionOfKey DEF Hit, ValueAt

(* An entry that may be served after a tick could be served before, with   *)
(* the same value, at an age that is now one tick more.                    *)
LEMMA AgedLive ==
  ASSUME NEW K, NEW V, NEW ttl \in Nat \ {0}, NEW c \in Seq(Entry(K, V, ttl)),
         NEW i \in DOMAIN c, ~ Expired(Aged(c, ttl)[i], ttl)
  PROVE  /\ ~ Expired(c[i], ttl)
         /\ Aged(c, ttl)[i].val = c[i].val
         /\ c[i].age \in Nat /\ Aged(c, ttl)[i].age = c[i].age + 1
<1>1. c[i] \in Entry(K, V, ttl)
  BY ElementOfSeq, LenProperties
<1>2. c[i].age \in 0 .. (ttl + 1)
  BY <1>1 DEF Entry
<1>3. Aged(c, ttl)[i] = [c[i] EXCEPT !.age = IF @ > ttl THEN @ ELSE @ + 1]
  BY DEF Aged
<1>4. /\ Aged(c, ttl)[i].val = c[i].val
      /\ Aged(c, ttl)[i].age = IF c[i].age > ttl THEN c[i].age ELSE c[i].age + 1
  BY <1>1, <1>3 DEF Entry
<1> QED BY <1>2, <1>4 DEF Expired

(* With one entry per key, looking up finds that entry.                    *)
LEMMA HitIsEntry ==
  ASSUME NEW c, KeysDistinct(c), NEW k, NEW ttl
  PROVE  /\ Hit(c, k, ttl) <=> \E i \in DOMAIN c : c[i].key = k /\ ~ Expired(c[i], ttl)
         /\ \A i \in DOMAIN c : c[i].key = k => Position(c, k) = i /\ ValueAt(c, k) = c[i].val
<1>1. ASSUME NEW i \in DOMAIN c, c[i].key = k
      PROVE  k \in KeysOf(c) /\ Position(c, k) = i
  <2>1. k \in KeysOf(c)
    BY <1>1 DEF KeysOf
  <2> QED BY <1>1, <2>1, PositionOfKey DEF KeysDistinct
<1> QED BY <1>1, PositionOfKey DEF Hit, ValueAt

(* Removing a key keeps the entries of all others, in their order.         *)
LEMMA WithoutRest ==
  ASSUME NEW S, NEW c \in Seq(S), NEW k
  PROVE  /\ \A m \in DOMAIN c : c[m].key # k => \E i \in DOMAIN Without(c, k) : Without(c, k)[i] = c[m]
         /\ \A i, j \in DOMAIN Without(c, k) : i < j =>
               \E m, n \in DOMAIN c : m < n /\ Without(c, k)[i] = c[m] /\ Without(c, k)[j] = c[n]
<1>1. CASE k \notin KeysOf(c)
  BY <1>1 DEF Without
<1>2. CASE k \in KeysOf(c)
  <2> DEFINE p == Position(c, k)
             w == RemoveAt(c, p)
             at(i) == IF i < p THEN i ELSE i + 1
  <2>1. p \in 1 .. Len(c) /\ c[p].key = k
    BY <1>2, PositionOfKey
  <2>2. /\ w \in Seq(S) /\ Len(w) = Len(c) - 1
        /\ \A i \in 1 .. Len(c) - 1 : w[i] = c[at(i)]
    BY <2>1, RemoveAtEntries
  <2>3. Without(c, k) = w
    BY <1>2 DEF Without
  <2> HIDE DEF w, p
  <2>4. DOMAIN w = 1 .. Len(c) - 1 /\ DOMAIN c = 1 .. Len(c) /\ Len(c) \in Nat
    BY <2>2
  <2>5. ASSUME NEW m \in DOMAIN c, c[m].key # k
        PROVE  \E i \in DOMAIN w : w[i] = c[m]
    <3>1. m # p
      BY <2>1, <2>5
    <3>2. CASE m < p
      <4>1. m \in DOMAIN w /\ at(m) = m
        BY <2>1, <2>4, <3>2
      <4> QED BY <2>2, <2>4, <4>1
    <3>3. CASE p < m
      <4>1. m - 1 \in DOMAIN w /\ at(m - 1) = m
        BY <2>1, <2>4, <3>3
      <4> QED BY <2>2, <2>4, <4>1
    <3> QED BY <2>1, <2>4, <3>1, <3>2, <3>3
  <2>6. ASSUME NEW i \in DOMAIN w, NEW j \in DOMAIN w, i < j
        PROVE  \E m, n \in DOMAIN c : m < n /\ w[i] = c[m] /\ w[j] = c[n]
    <3>1. at(i) \in DOMAIN c /\ at(j) \in DOMAIN c /\ at(i) < at(j)
      BY <2>1, <2>4, <2>6
    <3>2. w[i] = c[at(i)] /\ w[j] = c[at(j)]
      BY <2>2, <2>4
    <3> QED BY <3>1, <3>2
  <2> QED BY <2>3, <2>5, <2>6
<1> QED BY <1>1, <1>2

(* TTLCache.get leaves the entry of every other key, and that of its own   *)
(* key if it can be served, which becomes the most recent.                 *)
LEMMA AfterGetRest ==
  ASSUME NEW S, NEW c \in Seq(S), KeysDistinct(c), NEW k, NEW ttl
  PROVE  /\ \A m \in DOMAIN c : c[m].key # k \/ ~ Expired(c[m], ttl) =>
               \E i \in DOMAIN AfterGet(c, k, ttl) : AfterGet(c, k, ttl)[i] = c[m]
         /\ \A i, j \in DOMAIN AfterGet(c, k, ttl) : i < j =>
               /\ AfterGet(c, k, ttl)[i].key # k
               /\ \/ AfterGet(c, k, ttl)[j].key = k
                  \/ \E m, n \in DOMAIN c : /\ m < n /\ AfterGet(c, k, ttl)[i] = c[m]
                                            /\ AfterGet(c, k, ttl)[j] = c[n]
<1> DEFINE w == Without(c, k)
           e == c[Position(c, k)]
<1>1. w \in Seq(S) /\ k \notin KeysOf(w)
  BY WithoutKey
<1>2. /\ \A m \in DOMAIN c : c[m].key # k => \E i \in DOMAIN w : w[i] = c[m]
      /\ \A i, j \in DOMAIN w : i < j =>
            \E m, n \in DOMAIN c : m < n /\ w[i] = c[m] /\ w[j] = c[n]
  BY WithoutRest
<1>3. \A i \in DOMAIN w : w[i].key # k
  BY <1>1 DEF KeysOf
<1>4. CASE ~ Hit(c, k, ttl)
  <2>1. AfterGet(c, k, ttl) = w
    BY <1>4 DEF AfterGet
  <2>2. \A m \in DOMAIN c : c[m].key = k => Expired(c[m], ttl)
    BY <1>4, HitIsEntry
  <2> QED BY <1>2, <1>3, <2>1, <2>2
<1>5. CASE Hit(c, k, ttl)
  <2>1. e.key = k /\ Position(c, k) \in DOMAIN c
    BY <1>5, PositionOfKey DEF Hit
  <2>2. e \in S
    BY <2>1, ElementOfSeq, LenProperties
  <2>3. \A m \in DOMAIN c : c[m].key = k => c[m] = e
    BY HitIsEntry
  <2>4. AfterGet(c, k, ttl) = Append(w, e)
    BY <1>5 DEF AfterGet
  <2> HIDE DEF w, e
  <2>5. /\ DOMAIN Append(w, e) = 1 .. Len(w) + 1 /\ DOMAIN w = 1 .. Len(w) /\ Len(w) \in Nat
        /\ \A i \in 1 .. Len(w) : Append(w, e)[i] = w[i]
        /\ Append(w, e)[Len(w) + 1] = e
    BY <1>1, <2>2, AppendProperties, LenProperties
  <2>6. ASSUME NEW m \in DOMAIN c
        PROVE  \E i \in DOMAIN Append(w, e) : Append(w, e)[i] = c[m]
    <3>1. CASE c[m].key = k
      BY <2>3, <2>5, <3>1
    <3>2. CASE c[m].key # k
      BY <1>2, <2>5, <3>2
    <3> QED BY <3>1, <3>2
  <2>7. ASSUME NEW i \in DOMAIN Append(w, e), NEW j \in DOMAIN Append(w, e), i < j
        PROVE  /\ Append(w, e)[i].key # k
               /\ \/ Append(w, e)[j].key = k
                  \/ \E m, n \in DOMAIN c : /\ m < n /\ Append(w, e)[i] = c[m]
                                            /\ Append(w, e)[j] = c[n]
    <3>1. i \in DOMAIN w /\ (j \in DOMAIN w \/ j = Len(w) + 1)
      BY <2>5, <2>7
    <3> QED BY <1>2, <1>3, <2>1, <2>5, <2>7, <3>1
  <2> QED BY <2>4, <2>6, <2>7
<1> QED BY <1>4, <1>5

(* TTLCache.set puts the new entry last and keeps the order of the rest;   *)
(* into a cache within its bounds it keeps the entry of every other key,   *)
(* or the cache is full and only the least recent one goes.                *)
LEMMA StoredRest ==
  ASSUME NEW S, NEW c \in Seq(S), KeysDistinct(c), NEW k,
         NEW maxsize \in Nat \ {0}, Len(c) <= maxsize,
         NEW e \in S, e.key = k
  PROVE  /\ \E i \in DOMAIN Newest(Append(Without(c, k), e), maxsize) :
               Newest(Append(Without(c, k), e), maxsize)[i] = e
         /\ \A i, j \in DOMAIN Newest(Append(Without(c, k), e), maxsize) : i < j =>
               /\ Newest(Append(Without(c, k), e), maxsize)[i].key # k
               /\ \/ Newest(Append(Without(c, k), e), maxsize)[j].key = k
                  \/ \E m, n \in DOMAIN c : /\ m < n /\ Newest(Append(Without(c, k), e), maxsize)[i] = c[m]
                                            /\ Newest(Append(Without(c, k), e), maxsize)[j] = c[n]
         /\ \/ \A m \in DOMAIN c : c[m].key # k =>
                  \E i \in DOMAIN Newest(Append(Without(c, k), e), maxsize) :
                     Newest(Append(Without(c, k), e), maxsize)[i] = c[m]
            \/ /\ Len(Newest(Append(Without(c, k), e), maxsize)) = maxsize
               /\ \A m \in DOMAIN c : c[m].key # k /\ m # 1 =>
                     \E i \in DOMAIN Newest(Append(Without(c, k), e), maxsize) :
                        Newest(Append(Without(c, k), e), maxsize)[i] = c[m]
               /\ k \notin KeysOf(c)
<1>r. /\ \A m \in DOMAIN c : c[m].key # k =>
              \E i \in DOMAIN Without(c, k) : Without(c, k)[i] = c[m]
      /\ \A i, j \in DOMAIN Without(c, k) : i < j =>
            \E m, n \in DOMAIN c : m < n /\ Without(c, k)[i] = c[m] /\ Without(c, k)[j] = c[n]
  BY WithoutRest
<1> DEFINE w == Without(c, k)
           a == Append(w, e)
<1>1. /\ w \in Seq(S) /\ k \notin KeysOf(w)
      /\ Len(w) = IF k \in KeysOf(c) THEN Len(c) - 1 ELSE Len(c)
  BY WithoutKey
<1>2. /\ \A m \in DOMAIN c : c[m].key # k => \E i \in DOMAIN w : w[i] = c[m]
      /\ \A i, j \in DOMAIN w : i < j =>
            \E m, n \in DOMAIN c : m < n /\ w[i] = c[m] /\ w[j] = c[n]
  BY <1>r DEF w
<1>3. \A i \in DOMAIN w : w[i].key # k
  BY <1>1 DEF KeysOf
<1>w. k \notin KeysOf(c) => w = c
  BY DEF Without
<1>d. Newest(Append(Without(c, k), e), maxsize) = Newest(a, maxsize)
  OBVIOUS
<1> HIDE DEF w
<1>5. /\ a \in Seq(S)
      /\ DOMAIN a = 1 .. Len(w) + 1 /\ Len(a) = Len(w) + 1
      /\ DOMAIN w = 1 .. Len(w) /\ Len(w) \in Nat /\ DOMAIN c = 1 .. Len(c) /\ Len(c) \in Nat
      /\ \A i \in 1 .. Len(w) : a[i] = w[i]
      /\ a[Len(w) + 1] = e
  BY <1>1, AppendProperties, LenProperties
<1> HIDE DEF a
<1>6. ASSUME NEW i \in DOMAIN a, NEW j \in DOMAIN a, i < j
      PROVE  /\ a[i].key # k
             /\ \/ a[j].key = k
                \/ \E m, n \in DOMAIN c : m < n /\ a[i] = c[m] /\ a[j] = c[n]
  <2>1. i \in DOMAIN w /\ (j \in DOMAIN w \/ j = Len(w) + 1)
    BY <1>5, <1>6
  <2> QED BY <1>2, <1>3, <1>5, <1>6, <2>1
<1>7. CASE ~ (Len(a) > maxsize)
  <2>1. Newest(a, maxsize) = a
    BY <1>7 DEF Newest
  <2>2. \A m \in DOMAIN c : c[m].key # k => \E i \in DOMAIN a : a[i] = c[m]
    BY <1>2, <1>5
  <2>3. \E i \in DOMAIN a : a[i] = e
    BY <1>5
  <2> QED BY <1>d, <1>6, <2>1, <2>2, <2>3
<1>8. CASE Len(a) > maxsize
  <2>1. Len(w) = maxsize /\ Len(a) = maxsize + 1 /\ k \notin KeysOf(c)
    <3>1. CASE k \in KeysOf(c)
      BY <1>1, <1>5, <1>8, <3>1
    <3>2. CASE k \notin KeysOf(c)
      <4>1. Len(w) = Len(c) /\ Len(a) = Len(w) + 1
        BY <1>1, <1>5, <3>2
      <4>2. Len(c) \in Nat /\ Len(c) + 1 > maxsize
        BY <1>5, <1>8, <4>1
      <4>3. Len(c) = maxsize
        BY <4>2
      <4> QED BY <3>2, <4>1, <4>3
    <3> QED BY <3>1, <3>2
  <2> DEFINE d == SubSeq(a, 2, Len(a))
  <2>2. w = c
    BY <1>w, <2>1
  <2>3. Newest(a, maxsize) = d
    BY <1>5, <1>8, <2>1 DEF Newest
  <2>4. Len(d) = maxsize /\ DOMAIN d = 1 .. maxsize /\ \A i \in 1 .. maxsize : d[i] = a[i + 1]
    BY <1>5, <2>1, SubSeqProperties
  <2> HIDE DEF d
  <2>5. \E i \in DOMAIN d : d[i] = e
    <3>1. maxsize \in DOMAIN d /\ d[maxsize] = a[Len(w) + 1]
      BY <2>1, <2>4
    <3> QED BY <1>5, <3>1
  <2>6. ASSUME NEW i \in DOMAIN d, NEW j \in DOMAIN d, i < j
        PROVE  /\ d[i].key # k
               /\ \/ d[j].key = k
                  \/ \E m, n \in DOMAIN c : m < n /\ d[i] = c[m] /\ d[j] = c[n]
    <3>1. i + 1 \in DOMAIN a /\ j + 1 \in DOMAIN a /\ i + 1 < j + 1
      BY <1>5, <2>1, <2>4, <2>6
    <3>2. d[i] = a[i + 1] /\ d[j] = a[j + 1]
      BY <2>4
    <3> QED BY <1>6, <3>1, <3>2
  <2>7. ASSUME NEW m \in DOMAIN c, m # 1
        PROVE  \E i \in DOMAIN d : d[i] = c[m]
    <3>1. m - 1 \in DOMAIN d /\ d[m - 1] = a[m]
      BY <1>5, <2>1, <2>2, <2>4, <2>7
    <3>2. a[m] = c[m]
      BY <1>5, <2>2
    <3> QED BY <3>1, <3>2
  <2> QED BY <1>d, <2>1, <2>3, <2>4, <2>5, <2>6, <2>7
<1> QED BY <1>7, <1>8

(* What can be served of a key can still be served, with the same value,   *)
(* from a cache that holds a live entry of that key and value.             *)
LEMMA HitCarries ==
  ASSUME NEW c, KeysDistinct(c), NEW d, KeysDistinct(d), NEW k, NEW ttl, Hit(c, k, ttl),
         \A m \in DOMAIN c : c[m].key = k /\ ~ Expired(c[m], ttl) =>
            \E i \in DOMAIN d : /\ d[i].key = k /\ d[i].val = c[m].val
                                /\ ~ Expired(d[i], ttl)
  PROVE  Hit(d, k, ttl) /\ ValueAt(d, k) = ValueAt(c, k)
<1>1. PICK m \in DOMAIN c : c[m].key = k /\ ~ Expired(c[m], ttl)
  BY HitIsEntry
<1>2. PICK i \in DOMAIN d : d[i].key = k /\ d[i].val = c[m].val /\ ~ Expired(d[i], ttl)
  BY <1>1
<1>3. ValueAt(c, k) = c[m].val
  BY <1>1, HitIsEntry
<1>4. Hit(d, k, ttl) /\ ValueAt(d, k) = d[i].val
  BY <1>2, HitIsEntry
<1> QED BY <1>2, <1>3, <1>4
=============================================================================

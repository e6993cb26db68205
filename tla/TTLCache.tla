------------------------------ MODULE TTLCache ------------------------------
(***************************************************************************)
(* The data structure of src/core/cache.py: an OrderedDict whose entries   *)
(* carry the moment they were stored.  A cache is a sequence of entries in *)
(* the order of the OrderedDict, least recently used first.  Time is kept  *)
(* as the age of each entry in ticks, so that a state is finite: ages stop *)
(* growing one tick past the TTL, where they can no longer matter.         *)
(*                                                                         *)
(* Every operator is the effect of one critical section (`with             *)
(* self._lock`), so a module that uses a cache makes each one a step.      *)
(***************************************************************************)
EXTENDS Integers, SequencesExt

(* A cache entry; `age` stands for time.monotonic() - ts.                  *)
Entry(Key, Val, ttl) == [key : Key, val : Val, age : 0 .. (ttl + 1)]

KeysOf(c) == {c[i].key : i \in DOMAIN c}

Position(c, k) == CHOOSE i \in DOMAIN c : c[i].key = k

(* TTLCache._expired: a TTL of 0 means an entry never expires.             *)
Expired(e, ttl) == ttl > 0 /\ e.age > ttl

(* del self._store[key], or nothing when the key is absent.                *)
Without(c, k) == IF k \in KeysOf(c) THEN RemoveAt(c, Position(c, k)) ELSE c

(* TTLCache.get returns a value for k (a hit), and that value.             *)
Hit(c, k, ttl) == k \in KeysOf(c) /\ ~ Expired(c[Position(c, k)], ttl)

ValueAt(c, k) == c[Position(c, k)].val

(* Slip: a hit also renews the timestamp.                                  *)
AfterGetRenewing(c, k, ttl) ==
  IF Hit(c, k, ttl)
    THEN Append(Without(c, k), [c[Position(c, k)] EXCEPT !.age = 0])
    ELSE Without(c, k)

(* Slip: a hit leaves the entry where it is.                               *)
AfterGetInPlace(c, k, ttl) == IF Hit(c, k, ttl) THEN c ELSE Without(c, k)

(* The cache TTLCache.get leaves: a hit moves to the recent end and keeps  *)
(* its timestamp, an expired entry is deleted.                             *)
AfterGet(c, k, ttl) ==
  IF Hit(c, k, ttl) THEN Append(Without(c, k), c[Position(c, k)])
                    ELSE Without(c, k)

(* Slip: one entry too many stays.                                         *)
NewestAndOne(c, n) == IF Len(c) > n + 1 THEN SubSeq(c, Len(c) - n, Len(c)) ELSE c

(* The newest n entries of a cache: what popitem(last=False) leaves.       *)
Newest(c, n) == IF Len(c) > n THEN SubSeq(c, Len(c) - n + 1, Len(c)) ELSE c

(* Slip: a set of a present key does not replace its entry.                *)
AfterSetAppending(c, k, v, maxsize) ==
  Newest(Append(c, [key |-> k, val |-> v, age |-> 0]), maxsize)

(* The cache TTLCache.set leaves: the entry is stored afresh at the recent *)
(* end, then the oldest entries go while the cache is above maxsize.       *)
AfterSet(c, k, v, maxsize) ==
  Newest(Append(Without(c, k), [key |-> k, val |-> v, age |-> 0]), maxsize)

(* One tick of time.monotonic() as a cache sees it.                        *)
Aged(c, ttl) ==
  [i \in DOMAIN c |-> [c[i] EXCEPT !.age = IF @ > ttl THEN @ ELSE @ + 1]]

(* The keys of a cache occur once each.                                    *)
KeysDistinct(c) == \A i, j \in DOMAIN c : c[i].key = c[j].key => i = j
=============================================================================

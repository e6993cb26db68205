-------------------------- MODULE AlgorithmsProofs --------------------------
(***************************************************************************)
(* What the pure functions of the program do for every input: the facts    *)
(* about them that Algorithms checks on bounded inputs.                    *)
(***************************************************************************)
EXTENDS Algorithms, FiniteSetTheorems, SequenceTheorems, WellFoundedInduction, TLAPS

(* A finite set of integers, unless it is empty, has a greatest element    *)
(* and a least one: Max and Min are what their names say.                  *)
LEMMA MaxOfFinite ==
  ASSUME NEW S \in SUBSET Int, IsFiniteSet(S), S # {}
  PROVE  Max(S) \in S /\ \A y \in S : Max(S) >= y
<1> DEFINE Up(s) == {y \in S : y >= s}
           T == {Up(s) : s \in S}
<1>1. T \subseteq FiniteSubsetsOf(S) /\ T # {}
  <2>1. \A s \in S : Up(s) \in SUBSET S /\ IsFiniteSet(Up(s))
    BY FS_Subset
  <2> QED BY <2>1 DEF FiniteSubsetsOf
<1>2. PICK x \in T : \A y \in T : ~ (<<y, x>> \in StrictSubsetOrdering(S))
  <2> HIDE DEF T
  <2> QED BY <1>1, FS_StrictSubsetOrderingWellFounded, WFMin
<1>3. PICK s \in S : x = Up(s)
  OBVIOUS
<1>4. \A y \in S : s >= y
  <2> SUFFICES ASSUME NEW y \in S, y > s PROVE FALSE
    OBVIOUS
  <2>1. Up(y) \in T /\ Up(y) \subseteq Up(s) /\ s \in Up(s) /\ s \notin Up(y)
    <3>1. s \in Int /\ y \in Int /\ s >= s /\ ~ (s >= y) /\ \A z \in S : z >= y => z >= s
      OBVIOUS
    <3>2. Up(y) \in T
      OBVIOUS
    <3> QED BY <3>1, <3>2
  <2>2. <<Up(y), Up(s)>> \in StrictSubsetOrdering(S)
    <3>1. Up(y) \in SUBSET S /\ Up(s) \in SUBSET S /\ Up(y) # Up(s)
      BY <2>1
    <3> QED BY <2>1, <3>1 DEF StrictSubsetOrdering
  <2> QED BY <1>2, <1>3, <2>1, <2>2
<1> QED BY <1>4 DEF Max

(* ... and a least one.                                                    *)
LEMMA MinOfFinite ==
  ASSUME NEW S \in SUBSET Int, IsFiniteSet(S), S # {}
  PROVE  Min(S) \in S /\ \A y \in S : Min(S) <= y
<1> DEFINE N == {-y : y \in S}
<1>1. N \in SUBSET Int /\ IsFiniteSet(N) /\ N # {}
  <2> DEFINE neg == [y \in S |-> -y]
  <2>1. neg \in Surjection(S, N)
    BY DEF Surjection
  <2>2. N \in SUBSET Int /\ N # {}
    OBVIOUS
  <2> HIDE DEF N, neg
  <2> QED BY <2>1, <2>2, FS_Surjection
<1>2. Max(N) \in N /\ \A y \in N : Max(N) >= y
  <2> HIDE DEF N
  <2> QED BY <1>1, MaxOfFinite
<1>3. PICK m \in S : Max(N) = -m
  BY <1>2
<1>4. \A y \in S : m <= y
  <2> TAKE y \in S
  <2>1. -m >= -y
    BY <1>2, <1>3
  <2> QED BY <2>1
<1> QED BY <1>4 DEF Min

(* Induction over the natural numbers, for a set of them.                  *)
LEMMA AllNumbers ==
  ASSUME NEW S, 0 \in S, \A n \in Nat : n \in S => n + 1 \in S
  PROVE  Nat \subseteq S
<1> SUFFICES ASSUME NEW k \in Nat, k \notin S PROVE FALSE
  OBVIOUS
<1> DEFINE D == {n \in 0 .. k : n \notin S}
<1>1. D \in SUBSET Int /\ IsFiniteSet(D) /\ D # {}
  <2>1. IsFiniteSet(0 .. k)
    BY FS_Interval
  <2> QED BY <2>1, FS_Subset
<1>2. Min(D) \in D /\ \A y \in D : Min(D) <= y
  <2> HIDE DEF D
  <2> QED BY <1>1, MinOfFinite
<1>3. PICK m : m = Min(D)
  OBVIOUS
<1>4. m \in 0 .. k /\ m \notin S /\ m # 0 /\ m - 1 \in 0 .. k
  BY <1>2, <1>3
<1>5. m - 1 \in S
  BY <1>2, <1>3, <1>4
<1> QED BY <1>4, <1>5

(* A function on the numbers can be defined by recursion.                  *)
Iterates(f, V, v, step) ==
  f \in [Nat -> V] /\ f[0] = v /\ \A n \in Nat : f[n + 1] = step[<<n, f[n]>>]

(* Such a function exists.                                                 *)
LEMMA Recursion ==
  ASSUME NEW V, NEW v \in V, NEW step \in [Nat \X V -> V]
  PROVE  \E f : Iterates(f, V, v, step)
<1> DEFINE Up(n) == {h \in [0 .. n -> V] :
                       h[0] = v /\ \A k \in 0 .. n - 1 : h[k + 1] = step[<<k, h[k]>>]}
<1>1. \A n \in Nat : Up(n) # {}
  <2> DEFINE S == {n \in Nat : Up(n) # {}}
  <2>1. 0 \in S
    <3>1. [k \in 0 .. 0 |-> v] \in Up(0)
      OBVIOUS
    <3> QED BY <3>1
  <2>2. ASSUME NEW n \in S PROVE n + 1 \in S
    <3>1. PICK h \in [0 .. n -> V] :
             h[0] = v /\ \A k \in 0 .. n - 1 : h[k + 1] = step[<<k, h[k]>>]
      OBVIOUS
    <3> DEFINE g == [k \in 0 .. n + 1 |-> IF k = n + 1 THEN step[<<n, h[n]>>] ELSE h[k]]
    <3>2. n \in Nat /\ h[n] \in V /\ step[<<n, h[n]>>] \in V
      OBVIOUS
    <3>3. g \in [0 .. n + 1 -> V]
      BY <3>2
    <3>4. g[0] = v
      BY <3>1, <3>2
    <3>5. ASSUME NEW k \in 0 .. n PROVE g[k + 1] = step[<<k, g[k]>>]
      <4>1. k \in 0 .. n + 1 /\ k + 1 \in 0 .. n + 1 /\ k # n + 1 /\ g[k] = h[k]
        BY <3>2
      <4>2. CASE k = n
        BY <4>1, <4>2
      <4>3. CASE k # n
        <5>1. k \in 0 .. n - 1 /\ k + 1 # n + 1
          BY <3>2, <4>3
        <5>2. g[k + 1] = h[k + 1]
          BY <4>1, <5>1
        <5> QED BY <3>1, <4>1, <5>1, <5>2
      <4> QED BY <4>2, <4>3
    <3>6. (n + 1) - 1 = n
      BY <3>2
    <3> HIDE DEF g
    <3>7. g \in Up(n + 1)
      BY <3>3, <3>4, <3>5, <3>6
    <3> QED BY <3>2, <3>7
  <2> HIDE DEF S
  <2>3. Nat \subseteq S
    BY <2>1, <2>2, AllNumbers
  <2> USE DEF S
  <2> QED BY <2>3
<1>2. ASSUME NEW m \in Nat, NEW n \in Nat, NEW g \in Up(m), NEW h \in Up(n)
      PROVE  \A k \in Nat : k <= m /\ k <= n => g[k] = h[k]
  <2> DEFINE S == {k \in Nat : k <= m /\ k <= n => g[k] = h[k]}
  <2>1. 0 \in S
    OBVIOUS
  <2>2. ASSUME NEW k \in S PROVE k + 1 \in S
    <3> SUFFICES ASSUME k + 1 <= m, k + 1 <= n PROVE g[k + 1] = h[k + 1]
      OBVIOUS
    <3>1. k \in 0 .. m - 1 /\ k \in 0 .. n - 1 /\ k <= m /\ k <= n
      OBVIOUS
    <3> QED BY <3>1
  <2> HIDE DEF S
  <2>3. Nat \subseteq S
    BY <2>1, <2>2, AllNumbers
  <2> USE DEF S
  <2> QED BY <2>3
<1> DEFINE G(n) == CHOOSE h : h \in Up(n)
           f == [n \in Nat |-> G(n)[n]]
<1>3. \A n \in Nat : G(n) \in Up(n)
  <2> HIDE DEF Up
  <2> QED BY <1>1
<1> HIDE DEF G
<1>4. \A n \in Nat : G(n) \in [0 .. n -> V] /\ G(n)[0] = v
  BY <1>3
<1>5. f \in [Nat -> V] /\ f[0] = v
  BY <1>4
<1>6. ASSUME NEW n \in Nat PROVE f[n + 1] = step[<<n, f[n]>>]
  <2>1. n \in 0 .. (n + 1) - 1 /\ n + 1 \in Nat
    OBVIOUS
  <2>2. G(n + 1)[n + 1] = step[<<n, G(n + 1)[n]>>]
    <3>1. G(n + 1) \in Up(n + 1)
      BY <1>3, <2>1
    <3> QED BY <2>1, <3>1
  <2>3. G(n + 1)[n] = G(n)[n]
    <3> HIDE DEF Up
    <3> QED BY <1>2, <1>3, <2>1
  <2> QED BY <2>1, <2>2, <2>3
<1> QED BY <1>5, <1>6 DEF Iterates

(* So can one on the subsets of a finite set: the folds of the community   *)
(* modules are such functions, which take their elements one by one.       *)
FoldsSets(g, S, V, v, step, pick) ==
  /\ g \in [SUBSET S -> V]
  /\ \A T \in SUBSET S : g[T] = IF T = {} THEN v ELSE step[<<pick[T], g[T \ {pick[T]}]>>]

(* Such a function exists, in whatever order the elements are taken.       *)
LEMMA FoldExists ==
  ASSUME NEW S, IsFiniteSet(S), NEW V, NEW v \in V, NEW step \in [S \X V -> V],
         NEW pick, \A T \in SUBSET S : T # {} => pick[T] \in T
  PROVE  \E g : FoldsSets(g, S, V, v, step, pick)
<1> DEFINE F == [SUBSET S -> V]
           f0 == [T \in SUBSET S |-> v]
           Next1(h) == [T \in SUBSET S |->
                          IF T = {} THEN v ELSE step[<<pick[T], h[T \ {pick[T]}]>>]]
           next == [p \in Nat \X F |-> Next1(p[2])]
<1>1. \A h \in F : Next1(h) \in F
  <2> SUFFICES ASSUME NEW h \in F, NEW T \in SUBSET S, T # {}
               PROVE  step[<<pick[T], h[T \ {pick[T]}]>>] \in V
    OBVIOUS
  <2>1. pick[T] \in S /\ T \ {pick[T]} \in SUBSET S
    OBVIOUS
  <2> QED BY <2>1
<1>2. f0 \in F
  OBVIOUS
<1> HIDE DEF F, Next1
<1>3. next \in [Nat \X F -> F]
  BY <1>1
<1>4. \A n \in Nat : \A h \in F : next[<<n, h>>] = Next1(h)
  OBVIOUS
<1> HIDE DEF next, f0
<1>c. PICK c : Iterates(c, F, f0, next)
  BY <1>2, <1>3, Recursion
<1>5. \A n \in Nat : c[n] \in F /\ c[n + 1] = Next1(c[n])
  BY <1>4, <1>c DEF Iterates
<1> DEFINE g == [T \in SUBSET S |-> c[Cardinality(T)][T]]
<1>6. \A T \in SUBSET S : IsFiniteSet(T) /\ Cardinality(T) \in Nat
  BY FS_Subset, FS_CardinalityType
<1>7. g \in [SUBSET S -> V]
  BY <1>5, <1>6 DEF F
<1>8. ASSUME NEW T \in SUBSET S
      PROVE  g[T] = IF T = {} THEN v ELSE step[<<pick[T], g[T \ {pick[T]}]>>]
  <2>1. CASE T = {}
    <3>1. Cardinality(T) = 0
      BY <2>1, FS_EmptySet
    <3> QED BY <1>c, <2>1, <3>1 DEF f0, Iterates
  <2>2. CASE T # {}
    <3> DEFINE x == pick[T]
               U == T \ {x}
    <3>1. x \in T /\ U \in SUBSET S
      BY <2>2
    <3>2. Cardinality(T) = Cardinality(U) + 1 /\ Cardinality(U) \in Nat
      <4>1. Cardinality(U) = Cardinality(T) - 1
        BY <1>6, <3>1, FS_RemoveElement
      <4> QED BY <1>6, <3>1, <4>1
    <3>3. c[Cardinality(U) + 1] = Next1(c[Cardinality(U)])
      BY <1>5, <3>2
    <3>4. g[T] = Next1(c[Cardinality(U)])[T]
      BY <3>2, <3>3
    <3>5. g[U] = c[Cardinality(U)][U]
      BY <3>1
    <3> HIDE DEF g
    <3> QED BY <2>2, <3>4, <3>5 DEF Next1
  <2> QED BY <2>1, <2>2
<1> QED BY <1>7, <1>8 DEF FoldsSets

(* FoldLeft goes through a sequence from its first element to its last:    *)
(* what it has after each of them.                                         *)
FoldsSeq(h, n, V, v, step, result) ==
  /\ h \in [0 .. n -> V] /\ h[0] = v /\ h[n] = result
  /\ \A k \in 1 .. n : h[k] = step[<<k, h[k - 1]>>]

(* Such intermediate results exist, whatever function on sets of positions *)
(* computes the fold by taking the last position first.                    *)
LEMMA FoldSteps ==
  ASSUME NEW n \in Nat, NEW V, NEW v \in V, NEW step \in [(1 .. n) \X V -> V],
         NEW g, g[{}] = v,
         \A T \in SUBSET (1 .. n) :
            T # {} /\ g[T \ {Max(T)}] \in V => g[T] = step[<<Max(T), g[T \ {Max(T)}]>>]
  PROVE  \E h : FoldsSeq(h, n, V, v, step, g[1 .. n])
<1>1. ASSUME NEW k \in 1 .. n
      PROVE  /\ 1 .. k \in SUBSET (1 .. n) /\ 1 .. k # {}
             /\ Max(1 .. k) = k /\ (1 .. k) \ {k} = 1 .. k - 1
  <2>1. \A y \in 1 .. k : k >= y
    OBVIOUS
  <2>2. k \in 1 .. k
    OBVIOUS
  <2>3. Max(1 .. k) = k
    BY <2>1, <2>2 DEF Max
  <2>4. 1 .. k \in SUBSET (1 .. n) /\ (1 .. k) \ {k} = 1 .. k - 1
    OBVIOUS
  <2> QED BY <2>2, <2>3, <2>4
<1> DEFINE S == {k \in Nat : k <= n => g[1 .. k] \in V}
<1>2. 1 .. 0 = {}
  OBVIOUS
<1>3. 0 \in S
  BY <1>2
<1>4. ASSUME NEW k \in 1 .. n, g[1 .. k - 1] \in V
      PROVE  g[1 .. k] = step[<<k, g[1 .. k - 1]>>] /\ g[1 .. k] \in V
  <2>1. g[1 .. k] = step[<<k, g[1 .. k - 1]>>]
    <3> DEFINE T == 1 .. k
    <3>1. T \in SUBSET (1 .. n) /\ T # {} /\ Max(T) = k /\ T \ {k} = 1 .. k - 1
      BY <1>1
    <3> HIDE DEF T
    <3>2. g[T] = step[<<Max(T), g[T \ {Max(T)}]>>]
      BY <1>4, <3>1
    <3>3. g[T] = step[<<k, g[1 .. k - 1]>>]
      BY <3>1, <3>2
    <3> QED BY <3>3 DEF T
  <2> QED BY <1>4, <2>1
<1>5. ASSUME NEW k \in S PROVE k + 1 \in S
  <2> SUFFICES ASSUME k + 1 <= n PROVE g[1 .. k + 1] \in V
    OBVIOUS
  <2>1. k + 1 \in 1 .. n /\ (k + 1) - 1 = k /\ k <= n
    OBVIOUS
  <2>2. g[1 .. (k + 1) - 1] \in V
    BY <2>1
  <2> QED BY <1>4, <2>1, <2>2
<1> HIDE DEF S
<1>6. Nat \subseteq S
  BY <1>3, <1>5, AllNumbers
<1> USE DEF S
<1>7. \A k \in 0 .. n : g[1 .. k] \in V
  BY <1>6
<1> DEFINE h == [k \in 0 .. n |-> g[1 .. k]]
<1>8. h \in [0 .. n -> V] /\ h[0] = v /\ h[n] = g[1 .. n]
  BY <1>2, <1>7
<1>9. ASSUME NEW k \in 1 .. n PROVE h[k] = step[<<k, h[k - 1]>>]
  <2>1. k - 1 \in 0 .. n /\ k \in 0 .. n
    OBVIOUS
  <2> QED BY <1>4, <1>7, <2>1
<1> QED BY <1>8, <1>9 DEF FoldsSeq

(* ... where the last of the positions left is its last.                   *)
LEMMA MaxOfPositions ==
  ASSUME NEW n \in Nat
  PROVE  \A T \in SUBSET (1 .. n) : T # {} => Max(T) \in T
<1>1. IsFiniteSet(1 .. n) /\ 1 .. n \in SUBSET Int
  <2>1. 1 \in Int /\ n \in Int
    OBVIOUS
  <2> QED BY <2>1, FS_Interval
<1> TAKE T \in SUBSET (1 .. n)
<1>2. IsFiniteSet(T) /\ T \in SUBSET Int
  BY <1>1, FS_Subset
<1> QED BY <1>2, MaxOfFinite

(* h[k]: what is kept of the first k elements of a list.                   *)
KeepsOf(h, s, S, E) ==
  /\ h \in [0 .. Len(s) -> Seq(E)]
  /\ h[0] = <<>> /\ h[Len(s)] = Kept(s, S)
  /\ \A k \in 1 .. Len(s) : h[k] = IF s[k] \in S THEN Append(h[k - 1], s[k]) ELSE h[k - 1]

(* The elements of a list that are in a set, in their order.               *)
LEMMA KeptSteps ==
  ASSUME NEW E, NEW s \in Seq(E), NEW S
  PROVE  \E h : KeepsOf(h, s, S, E)
<1> DEFINE n == Len(s)
           V == Seq(E)
           Op(r, x) == IF x \in S THEN Append(r, x) ELSE r
           step == [p \in (1 .. n) \X V |-> Op(p[2], s[p[1]])]
           Pass(i) == [T \in SUBSET DOMAIN s |->
                         IF T = {} THEN <<>> ELSE Op(i[T \ {Max(T)}], s[Max(T)])]
           I == CHOOSE i : i = Pass(i)
           pick == [T \in SUBSET (1 .. n) |-> Max(T)]
<1>1. n \in Nat /\ DOMAIN s = 1 .. n /\ <<>> \in V /\ \A k \in 1 .. n : s[k] \in E
  OBVIOUS
<1>2. \A r \in V : \A x \in E : Op(r, x) \in V
  OBVIOUS
<1>3. Kept(s, S) = I[1 .. n]
  BY <1>1 DEF Kept, FoldLeft, MapThenFoldSet
<1> HIDE DEF V, n, Op
<1>4. step \in [(1 .. n) \X V -> V] /\ \A k \in 1 .. n : \A r \in V : step[<<k, r>>] = Op(r, s[k])
  BY <1>1, <1>2
<1>5. \A T \in SUBSET (1 .. n) : T # {} => Max(T) \in T /\ pick[T] = Max(T)
  BY <1>1, MaxOfPositions
<1> HIDE DEF step, pick
<1>6. IsFiniteSet(1 .. n)
  BY <1>1, FS_Interval
<1>7. PICK g : FoldsSets(g, 1 .. n, V, <<>>, step, pick)
  BY <1>1, <1>4, <1>5, <1>6, FoldExists
<1>8. g = Pass(g)
  <2>1. ASSUME NEW T \in SUBSET DOMAIN s
        PROVE  g[T] = IF T = {} THEN <<>> ELSE Op(g[T \ {Max(T)}], s[Max(T)])
    <3>1. CASE T = {}
      BY <1>1, <1>7, <3>1 DEF FoldsSets
    <3>2. CASE T # {}
      <4>1. Max(T) \in 1 .. n /\ T \ {Max(T)} \in SUBSET (1 .. n)
        BY <1>1, <1>5, <3>2
      <4>2. g[T] = step[<<Max(T), g[T \ {Max(T)}]>>] /\ g[T \ {Max(T)}] \in V
        BY <1>1, <1>5, <1>7, <3>2, <4>1 DEF FoldsSets
      <4> QED BY <1>4, <3>2, <4>1, <4>2
    <3> QED BY <3>1, <3>2
  <2>2. g \in [SUBSET DOMAIN s -> V]
    BY <1>1, <1>7 DEF FoldsSets
  <2> QED BY <2>1, <2>2
<1>9. I = Pass(I)
  BY <1>8
<1> HIDE DEF I
<1>10. I[{}] = <<>>
  BY <1>9
<1>11. \A T \in SUBSET (1 .. n) :
          T # {} /\ I[T \ {Max(T)}] \in V => I[T] = step[<<Max(T), I[T \ {Max(T)}]>>]
  <2> TAKE T \in SUBSET (1 .. n)
  <2> HAVE T # {} /\ I[T \ {Max(T)}] \in V
  <2>1. I[T] = Op(I[T \ {Max(T)}], s[Max(T)])
    BY <1>1, <1>9
  <2>2. Max(T) \in 1 .. n
    BY <1>5
  <2> QED BY <1>4, <2>1, <2>2
<1>12. PICK h : FoldsSeq(h, n, V, <<>>, step, I[1 .. n])
  BY <1>1, <1>4, <1>10, <1>11, FoldSteps
<1>13. h \in [0 .. n -> V] /\ h[0] = <<>> /\ h[n] = Kept(s, S)
  BY <1>3, <1>12 DEF FoldsSeq
<1>14. ASSUME NEW k \in 1 .. n PROVE h[k] = Op(h[k - 1], s[k])
  <2>1. k - 1 \in 0 .. n
    BY <1>1
  <2> QED BY <1>4, <1>12, <1>13, <2>1 DEF FoldsSeq
<1> QED BY <1>13, <1>14 DEF n, V, Op, KeepsOf
-----------------------------------------------------------------------------
(* Division is monotone.                                                   *)
LEMMA DivGrows ==
  ASSUME NEW a \in Nat, NEW b \in Nat, NEW d \in Nat \ {0}, a <= b
  PROVE  a \div d <= b \div d
<1> DEFINE p == a \div d
           q == b \div d
           r == a % d
           s == b % d
<1>1. p \in Nat /\ q \in Nat /\ r \in 0 .. d - 1 /\ s \in 0 .. d - 1
      /\ a = d * p + r /\ b = d * q + s
  OBVIOUS
<1> HIDE DEF p, q, r, s
<1>2. ASSUME q < p PROVE FALSE
  <2>1. PICK n \in Nat : p = q + 1 + n
    <3>1. p - q - 1 \in Nat /\ p = q + 1 + (p - q - 1)
      BY <1>1, <1>2
    <3> QED BY <3>1
  <2>2. d * p = d * q + d + d * n
    BY <1>1, <2>1
  <2>3. d * n \in Nat /\ d * q \in Nat /\ d * p \in Nat
    BY <1>1, <2>1
  <2> QED BY <1>1, <2>2, <2>3
<1>3. p <= q
  BY <1>1, <1>2
<1> QED BY <1>3 DEF p, q

(* The more words a text is compared with, the more it shares with them.   *)
LEMMA ShareGrows ==
  ASSUME NEW w \in SUBSET Word, NEW u, NEW v, u \subseteq v
  PROVE  Share(w, u) \in Nat /\ Share(w, v) \in Nat /\ Share(w, u) <= Share(w, v)
<1>1. IsFiniteSet(w)
  BY FS_Subset, GuardrailConstants
<1>2. IsFiniteSet(w \cap v) /\ IsFiniteSet(w \cap u) /\ w \cap u \subseteq w \cap v
  BY <1>1, FS_Subset
<1>3. /\ Cardinality(w) \in Nat /\ Cardinality(w \cap u) \in Nat /\ Cardinality(w \cap v) \in Nat
      /\ Cardinality(w \cap u) <= Cardinality(w \cap v)
  BY <1>1, <1>2, FS_CardinalityType, FS_Subset
<1>4. CASE w = {}
  BY <1>4 DEF Share
<1>5. CASE w # {}
  <2> DEFINE n == Cardinality(w)
             a == 2000 * Cardinality(w \cap u) + n
             b == 2000 * Cardinality(w \cap v) + n
  <2>1. n \in Nat \ {0}
    BY <1>1, <1>3, <1>5, FS_EmptySet
  <2>2. a \in Nat /\ b \in Nat /\ a <= b /\ 2 * n \in Nat \ {0}
    BY <1>3, <2>1
  <2>3. a \div (2 * n) <= b \div (2 * n) /\ a \div (2 * n) \in Nat /\ b \div (2 * n) \in Nat
    <3> HIDE DEF a, b, n
    <3>1. \A m \in Nat \ {0} : a \div m \in Nat /\ b \div m \in Nat
      BY <2>2
    <3> QED BY <2>2, <3>1, DivGrows
  <2>4. Share(w, u) \in {0, a \div (2 * n)} /\ (v = {} => u = {})
        /\ Share(w, v) = IF v = {} THEN 0 ELSE b \div (2 * n)
    BY <1>5 DEF Share
  <2>5. u = {} => Share(w, u) = 0
    BY DEF Share
  <2> HIDE DEF a, b, n
  <2> QED BY <2>3, <2>4, <2>5
<1> QED BY <1>4, <1>5

(* The tokens of an answer are words that count.                           *)
LEMMA TokensTyped ==
  ASSUME NEW answer \in Answer
  PROVE  Tokens(answer) \in SUBSET Word /\ answer.words \subseteq Tokens(answer)
<1>1. ToSet(answer.cites) \subseteq Source
  BY DEF Answer, ToSet
<1> QED BY <1>1, GuardrailConstants DEF Tokens, Answer

(* An answer that does not leak does not without its citation, either.     *)
LEMMA LeakIsInTheWords ==
  ASSUME NEW answer \in Answer, ~ Leaks(answer)
  PROVE  ~ Leaks([answer EXCEPT !.cites = <<>>])
<1> DEFINE bare == [answer EXCEPT !.cites = <<>>]
<1>1. bare.canary = answer.canary /\ bare.cites = <<>> /\ bare.words = answer.words
  BY DEF Answer
<1>2. Tokens(bare) \subseteq Tokens(answer)
  BY <1>1, TokensTyped DEF Tokens
<1> HIDE DEF bare
<1>3. ASSUME NEW line \in PromptLines, Cardinality(line) >= 5, Share(line, Tokens(bare)) >= 600
      PROVE  FALSE
  <2>1. line \in SUBSET Word
    BY GuardrailConstants
  <2>2. Share(line, Tokens(answer)) >= 600
    BY <1>2, <1>3, <2>1, ShareGrows
  <2> QED BY <1>3, <2>2 DEF Leaks
<1>4. ~ Leaks(bare)
  BY <1>1, <1>3 DEF Leaks
<1> QED BY <1>4 DEF bare

(* What is retrieved comes from sources there are.                         *)
LEMMA RetrievedTyped ==
  ASSUME NEW contexts \in Seq(Seq(Passage))
  PROVE  Retrieved(contexts) \subseteq Source
<1> SUFFICES ASSUME NEW k \in DOMAIN contexts PROVE ToSet(SourcesOf(contexts[k])) \subseteq Source
  BY DEF Retrieved
<1>1. contexts[k] \in Seq(Passage)
  BY ElementOfSeq
<1>2. CASE contexts[k] = <<>>
  BY <1>2, GuardrailConstants DEF SourcesOf, ToSet
<1>3. CASE contexts[k] # <<>>
  <2>1. \A i \in DOMAIN contexts[k] : contexts[k][i] \in Passage
    BY <1>1, ElementOfSeq
  <2>2. \A i \in DOMAIN contexts[k] : contexts[k][i].source \in Source
    BY <2>1 DEF Passage
  <2> QED BY <1>3, <2>2 DEF SourcesOf, ToSet
<1> QED BY <1>2, <1>3

(* Only a source that was retrieved supports an answer.                    *)
LEMMA SupportIsRetrieved ==
  ASSUME NEW answer, NEW contexts, NEW s, Supports(answer, contexts, s)
  PROVE  s \in Retrieved(contexts)
BY GuardrailConstants DEF Supports, Support

(* The audit's verdicts, and what each of them means.                      *)
LEMMA AuditVerdicts ==
  ASSUME NEW answer, NEW contexts
  PROVE  LET audit == Audit(answer, contexts)
             cited == ToSet(answer.cites) IN
         /\ audit.verdict = "no_citation" => cited = {}
         /\ audit.verdict = "accurate" => \E s \in cited : Supports(answer, contexts, s)
         /\ audit.verdict = "invented" => cited \cap Retrieved(contexts) = {}
         /\ audit.verdict # "corrected" => audit.corrected = Unknown
         /\ audit.verdict = "corrected" =>
              /\ cited # {} /\ contexts # <<>>
              /\ Supports(answer, contexts, audit.corrected) /\ audit.corrected \notin cited
              /\ \A s \in cited : ~ Supports(answer, contexts, s)
         /\ audit.verdict \in {"no_citation", "accurate", "corrected", "invented", "unsupported"}
BY DEF Audit, Verdict

(* The words found under a source are among those of all the contexts.     *)
LEMMA SourceWordsInContexts ==
  ASSUME NEW contexts, NEW s
  PROVE  SourceWords(contexts, s) \subseteq UNION {ContextWords(c) : c \in ToSet(contexts)}
<1>1. ASSUME NEW c PROVE WordsUnder(c, s) \subseteq ContextWords(c)
  BY DEF WordsUnder, ContextWords
<1> QED BY <1>1 DEF SourceWords

(* The two passes over an answer agree: with a threshold of the audit that *)
(* is at least the one of the grounding check, as configured, an answer    *)
(* whose citation is accurate is grounded, whatever it says and whatever   *)
(* was retrieved.                                                          *)
THEOREM AccurateAnswersAreGrounded ==
  \A answer \in Answer : \A contexts \in Seq(Seq(Passage)) : AccurateIsGrounded(answer, contexts)
<1> SUFFICES ASSUME NEW answer \in Answer, NEW contexts \in Seq(Seq(Passage)),
                    MinGrounding >= 300, Audit(answer, contexts).verdict = "accurate"
             PROVE  Grounded(answer, contexts)
  BY DEF AccurateIsGrounded
<1>1. PICK s : Supports(answer, contexts, s)
  BY AuditVerdicts
<1>2. s \in Retrieved(contexts)
  BY <1>1, SupportIsRetrieved
<1>3. contexts # <<>>
  BY <1>2 DEF Retrieved
<1>4. Share(Tokens(answer), SourceWords(contexts, s)) >= MinGrounding
  BY <1>1, <1>2 DEF Supports, Support
<1>5. /\ Share(Tokens(answer), SourceWords(contexts, s))
           <= Share(Tokens(answer), UNION {ContextWords(c) : c \in ToSet(contexts)})
      /\ Share(Tokens(answer), SourceWords(contexts, s)) \in Nat
      /\ Share(Tokens(answer), UNION {ContextWords(c) : c \in ToSet(contexts)}) \in Nat
  BY TokensTyped, SourceWordsInContexts, ShareGrows
<1>6. Share(Tokens(answer), UNION {ContextWords(c) : c \in ToSet(contexts)}) >= 300
  BY <1>4, <1>5, GuardrailConstants
<1> QED BY <1>3, <1>6 DEF Grounded

(* A corrected citation is better than those it replaces, was retrieved,   *)
(* and is not called missing or invented when it is audited in its turn.   *)
THEOREM CorrectionsHold ==
  \A answer \in Answer : \A contexts \in Seq(Seq(Passage)) : CorrectionHolds(answer, contexts)
<1> SUFFICES ASSUME NEW answer \in Answer, NEW contexts \in Seq(Seq(Passage)),
                    Audit(answer, contexts).verdict = "corrected"
             PROVE  CorrectionHolds(answer, contexts)
  BY DEF CorrectionHolds
<1> DEFINE best  == Audit(answer, contexts).corrected
           again == Rewrite(answer, best)
<1>1. /\ ToSet(answer.cites) # {} /\ Supports(answer, contexts, best) /\ best \notin ToSet(answer.cites)
      /\ \A s \in ToSet(answer.cites) : ~ Supports(answer, contexts, s)
  BY AuditVerdicts
<1>2. best \in Retrieved(contexts)
  BY <1>1, SupportIsRetrieved
<1>3. \A s : Support(answer, contexts, s) \in Nat
  BY ShareGrows, TokensTyped DEF Support
<1>4. \A s \in ToSet(answer.cites) : Support(answer, contexts, s) < Support(answer, contexts, best)
  BY <1>1, <1>3, GuardrailConstants DEF Supports
<1>5. best \in ToSet(again.cites)
  <2>1. answer.cites \in Seq(Source) /\ answer.cites # <<>>
    BY <1>1 DEF Answer, ToSet
  <2> DEFINE all == [i \in DOMAIN answer.cites |-> best]
  <2>2. again.cites = all
    <3>1. again = [answer EXCEPT !.cites = all]
      BY DEF Rewrite
    <3> HIDE DEF again, all, best
    <3> QED BY <3>1 DEF Answer
  <2>3. DOMAIN again.cites = DOMAIN answer.cites /\ \A i \in DOMAIN answer.cites : again.cites[i] = best
    BY <2>2
  <2>4. DOMAIN answer.cites # {}
    BY <1>1 DEF ToSet
  <2> HIDE DEF again, best
  <2> QED BY <2>3, <2>4 DEF ToSet
<1> HIDE DEF again
<1>6. Audit(again, contexts).verdict \notin {"no_citation", "invented"}
  BY <1>2, <1>5, AuditVerdicts
<1> QED BY <1>1, <1>2, <1>4, <1>6 DEF CorrectionHolds, again
-----------------------------------------------------------------------------
(* A behaviour makes one call at a time, and forgets it.                   *)
LEMMA CallsMade ==
  ASSUME CallsNext
  PROVE  \/ call'.of = "none"
         \/ Chunk /\ call'.of = "chunk"
         \/ Fuse /\ call'.of = "fuse"
         \/ Diversify /\ call'.of = "mmr"
         \/ Rerank /\ call'.of = "rank"
         \/ RerankByModel /\ call'.of = "llm"
         \/ Merge /\ call'.of = "merge"
         \/ Expand /\ call'.of = "expand"
         \/ Compare /\ call'.of = "champion"
         \/ CompareFinite /\ call'.of = "champion"
         \/ Check /\ call'.of = "audit"
<1>1. CASE Chunk
  BY <1>1 DEF Chunk
<1>2. CASE Fuse
  BY <1>2 DEF Fuse
<1>3. CASE Diversify
  BY <1>3 DEF Diversify
<1>4. CASE Rerank
  BY <1>4 DEF Rerank
<1>5. CASE RerankByModel
  BY <1>5 DEF RerankByModel
<1>6. CASE Merge
  BY <1>6 DEF Merge
<1>7. CASE Expand
  BY <1>7 DEF Expand
<1>8. CASE Compare
  BY <1>8 DEF Compare
<1>9. CASE CompareFinite
  <2> DEFINE Named(cards) == [i \in DOMAIN cards |->
                                [cards[i] EXCEPT !.name = (i % 3) + cards[1].name]]
  <2>1. \E cards : call' = [of |-> "champion", cards |-> Named(cards)]
    BY <1>9 DEF CompareFinite
  <2> HIDE DEF Named
  <2> QED BY <1>9, <2>1
<1>10. CASE Check
  BY <1>10 DEF Check
<1>11. CASE call' = NoCall
  BY <1>11 DEF NoCall
<1> QED
  BY <1>1, <1>2, <1>3, <1>4, <1>5, <1>6, <1>7, <1>8, <1>9, <1>10, <1>11 DEF CallsNext, Call

(* Whatever answer is audited against whatever was retrieved for it: the   *)
(* audit and the grounding check agree, and a correction is one.           *)
THEOREM AuditsAgree == CallsSpec => []AuditSound
<1>1. CallsInit => AuditSound
  BY DEF CallsInit, NoCall, AuditSound
<1>2. ASSUME AuditSound, [CallsNext]_call PROVE AuditSound'
  <2>1. CASE UNCHANGED call
    BY <1>2, <2>1 DEF AuditSound
  <2>2. CASE CallsNext /\ call'.of # "audit"
    BY <2>2 DEF AuditSound
  <2>3. CASE CallsNext /\ call'.of = "audit"
    <3>1. Check
      BY <2>3, CallsMade
    <3>2. PICK answer \in Answers, contexts \in Contexts :
             call' = [of |-> "audit", answer |-> answer, contexts |-> contexts]
      BY <3>1 DEF Check
    <3>3. call'.answer = answer /\ call'.contexts = contexts
      BY <3>2
    <3>4. answer \in Answer /\ contexts \in Seq(Seq(Passage))
      BY <3>2, AlgorithmConstants
    <3>5. AccurateIsGrounded(answer, contexts) /\ CorrectionHolds(answer, contexts)
      BY <3>4, AccurateAnswersAreGrounded, CorrectionsHold
    <3> QED BY <3>3, <3>5 DEF AuditSound
  <2> QED BY <1>2, <2>1, <2>2, <2>3
<1> QED BY <1>1, <1>2, PTL DEF CallsSpec
-----------------------------------------------------------------------------
(* A sequence as long as a finite set that repeats no element of it has    *)
(* them all.                                                               *)
LEMMA InjectiveIsOnto ==
  ASSUME NEW S, IsFiniteSet(S), NEW f \in [1 .. Cardinality(S) -> S],
         \A i, j \in 1 .. Cardinality(S) : f[i] = f[j] => i = j
  PROVE  \A x \in S : \E i \in 1 .. Cardinality(S) : f[i] = x
<1> DEFINE n == Cardinality(S)
<1>1. n \in Nat
  BY FS_CardinalityType
<1>2. IsFiniteSet(1 .. n) /\ Cardinality(1 .. n) = n
  BY <1>1, FS_Interval
<1>3. f \in Injection(1 .. n, S)
  BY DEF Injection, IsInjective
<1>4. f \in Surjection(1 .. n, S)
  <2> HIDE DEF n
  <2>1. n = Cardinality(S)
    BY DEF n
  <2> QED BY <1>2, <1>3, <2>1, FS_Injection
<1> QED BY <1>4 DEF Surjection

(* SetToSeq lists a finite set.                                            *)
LEMMA SetToSeqLists ==
  ASSUME NEW S, IsFiniteSet(S)
  PROVE  /\ SetToSeq(S) \in Seq(S) /\ Len(SetToSeq(S)) = Cardinality(S)
         /\ DOMAIN SetToSeq(S) = 1 .. Cardinality(S)
         /\ \A i, j \in 1 .. Cardinality(S) : SetToSeq(S)[i] = SetToSeq(S)[j] => i = j
         /\ ToSet(SetToSeq(S)) = S
<1>1. Cardinality(S) \in Nat /\ ExistsBijection(1 .. Cardinality(S), S)
  BY FS_CardinalityType
<1>2. \E f \in [1 .. Cardinality(S) -> S] : IsInjective(f)
  BY <1>1 DEF ExistsBijection, Bijection, Injection
<1>3. SetToSeq(S) \in [1 .. Cardinality(S) -> S] /\ IsInjective(SetToSeq(S))
  BY <1>2 DEF SetToSeq
<1>4. \A i, j \in 1 .. Cardinality(S) : SetToSeq(S)[i] = SetToSeq(S)[j] => i = j
  BY <1>3 DEF IsInjective
<1>5. \A x \in S : \E i \in 1 .. Cardinality(S) : SetToSeq(S)[i] = x
  BY <1>3, <1>4, InjectiveIsOnto
<1> QED BY <1>1, <1>3, <1>4, <1>5 DEF ToSet

(* The first `limit` elements of a list.                                   *)
LEMMA TopIsPrefix ==
  ASSUME NEW E, NEW s \in Seq(E), NEW limit \in Nat
  PROVE  /\ Top(s, limit) \in Seq(E)
         /\ Len(Top(s, limit)) = IF limit <= Len(s) THEN limit ELSE Len(s)
         /\ Min({limit, Len(s)}) = Len(Top(s, limit))
         /\ \A k \in 1 .. Len(Top(s, limit)) : k \in 1 .. Len(s) /\ Top(s, limit)[k] = s[k]
<1>1. Len(s) \in Nat
  OBVIOUS
<1>2. Min({limit, Len(s)}) = IF limit <= Len(s) THEN limit ELSE Len(s)
  BY <1>1 DEF Min
<1>3. PICK m \in Nat : m = Min({limit, Len(s)}) /\ m <= Len(s)
  BY <1>1, <1>2
<1>4. SubSeq(s, 1, m) \in Seq(E) /\ Len(SubSeq(s, 1, m)) = m
      /\ \A k \in 1 .. m : SubSeq(s, 1, m)[k] = s[k]
  <2>1. 1 \in 1 .. Len(s) + 1 /\ m \in 1 - 1 .. Len(s)
    BY <1>1, <1>3
  <2>2. /\ SubSeq(s, 1, m) \in Seq(E) /\ Len(SubSeq(s, 1, m)) = m - 1 + 1
        /\ \A k \in 1 .. m - 1 + 1 : SubSeq(s, 1, m)[k] = s[1 + k - 1]
    BY <2>1, SubSeqProperties
  <2>3. m - 1 + 1 = m /\ \A k \in 1 .. m : 1 + k - 1 = k
    BY <1>3
  <2> QED BY <2>2, <2>3
<1>5. Top(s, limit) = SubSeq(s, 1, m)
  BY <1>3 DEF Top
<1>6. \A k \in 1 .. m : k \in 1 .. Len(s)
  BY <1>1, <1>3
<1> QED BY <1>2, <1>3, <1>4, <1>5, <1>6

Ranked(T) == Seq([text : T, score : Int])

(* The sequences of at most n elements of a set are sequences over it.     *)
LEMMA SeqOfTyped ==
  ASSUME NEW T, NEW S \in SUBSET T, NEW n \in Nat
  PROVE  SeqOf(S, n) \subseteq Seq(T)
<1> SUFFICES ASSUME NEW s \in SeqOf(S, n) PROVE s \in Seq(T)
  OBVIOUS
<1>1. PICK m \in 0 .. n : s \in [1 .. m -> S]
  BY DEF SeqOf
<1>2. m \in Nat /\ s \in [1 .. m -> T]
  BY <1>1
<1> QED BY <1>2

(* The rankings the calls are made with.                                   *)
LEMMA RankingsTyped == Rankings \subseteq Ranked(Chunks)
<1> SUFFICES ASSUME NEW s \in {SetToSeq(Chunks)} \cup SeqOf(Chunks, 2), NEW f \in [Chunks -> Points]
             PROVE  [i \in DOMAIN s |-> [text |-> s[i], score |-> f[s[i]]]] \in Ranked(Chunks)
  BY DEF Rankings
<1>1. ASSUME s = SetToSeq(Chunks) PROVE s \in Seq(Chunks)
  <2>1. IsFiniteSet(Chunks)
    BY AlgorithmConstants
  <2>2. SetToSeq(Chunks) \in Seq(Chunks)
    BY <2>1, SetToSeqLists, Zenon
  <2> QED BY <1>1, <2>2
<1>2. ASSUME s \in SeqOf(Chunks, 2) PROVE s \in Seq(Chunks)
  <2>1. SeqOf(Chunks, 2) \subseteq Seq(Chunks)
    BY SeqOfTyped
  <2> QED BY <1>2, <2>1
<1>3. s \in Seq(Chunks)
  BY <1>1, <1>2
<1>4. \A i \in DOMAIN s : s[i] \in Chunks /\ f[s[i]] \in Int
  <2> TAKE i \in DOMAIN s
  <2>1. s[i] \in Chunks
    BY <1>3
  <2>2. f[s[i]] \in Points
    BY <2>1
  <2> QED BY <2>1, <2>2, AlgorithmConstants
<1>5. [i \in DOMAIN s |-> [text |-> s[i], score |-> f[s[i]]]] \in Ranked(Chunks)
  <2> DEFINE Entry(i) == [text |-> s[i], score |-> f[s[i]]]
             E == [text : Chunks, score : Int]
  <2>1. Len(s) \in Nat /\ DOMAIN s = 1 .. Len(s)
    BY <1>3
  <2>2. \A i \in DOMAIN s : Entry(i) \in E
    BY <1>4
  <2> HIDE DEF Entry, E
  <2>3. [i \in DOMAIN s |-> Entry(i)] \in Seq(E)
    BY <2>1, <2>2
  <2> QED BY <2>3 DEF Entry, E, Ranked
<1> QED BY <1>5

(* The scores of a ranking have a greatest and a least one.                *)
LEMMA ScoresBounded ==
  ASSUME NEW T, NEW r \in Ranked(T), r # <<>>
  PROVE  /\ Scores(r) \in SUBSET Int
         /\ Max(Scores(r)) \in Scores(r) /\ \A x \in Scores(r) : Max(Scores(r)) >= x
         /\ Min(Scores(r)) \in Scores(r) /\ \A x \in Scores(r) : Min(Scores(r)) <= x
<1>1. Len(r) \in Nat /\ DOMAIN r = 1 .. Len(r) /\ DOMAIN r # {}
      /\ \A i \in DOMAIN r : r[i].score \in Int
  <2> DEFINE E == [text : T, score : Int]
  <2>1. \A e \in E : e.score \in Int
    OBVIOUS
  <2> HIDE DEF E
  <2>2. r \in Seq(E)
    BY DEF Ranked, E
  <2>3. Len(r) \in Nat /\ DOMAIN r = 1 .. Len(r) /\ Len(r) # 0
    BY <2>2
  <2>4. DOMAIN r # {}
    <3>1. 1 \in 1 .. Len(r)
      BY <2>3
    <3> QED BY <2>3, <3>1
  <2>5. \A i \in DOMAIN r : r[i] \in E
    BY <2>2, <2>3
  <2> QED BY <2>1, <2>3, <2>4, <2>5
<1>2. Scores(r) \in SUBSET Int /\ Scores(r) # {}
  BY <1>1 DEF Scores
<1>3. IsFiniteSet(Scores(r))
  <2> DEFINE f == [i \in DOMAIN r |-> r[i].score]
  <2>1. f \in Surjection(DOMAIN r, Scores(r))
    BY DEF Surjection, Scores
  <2>2. IsFiniteSet(DOMAIN r)
    <3>1. 1 \in Int /\ Len(r) \in Int
      BY <1>1
    <3> QED BY <1>1, <3>1, FS_Interval
  <2> QED BY <2>1, <2>2, FS_Surjection
<1> QED BY <1>2, <1>3, MaxOfFinite, MinOfFinite

(* The score of a text of a ranking is one of its scores.                  *)
LEMMA ScoreOfText ==
  ASSUME NEW T, NEW r \in Ranked(T), NEW t \in Texts(r)
  PROVE  r # <<>> /\ ScoreOf(r, t) \in Scores(r)
         /\ \E i \in DOMAIN r : i = Max({j \in DOMAIN r : r[j].text = t})
<1> DEFINE at == {j \in DOMAIN r : r[j].text = t}
<1>1. Len(r) \in Nat /\ DOMAIN r = 1 .. Len(r)
  BY DEF Ranked
<1>2. at \in SUBSET (1 .. Len(r)) /\ at # {}
  BY <1>1 DEF Texts
<1>3. Max(at) \in at
  <2> HIDE DEF at
  <2> QED BY <1>1, <1>2, MaxOfPositions
<1>4. r # <<>>
  BY <1>2, <1>1
<1>5. Max(at) \in DOMAIN r
  BY <1>3
<1> QED BY <1>4, <1>5 DEF ScoreOf, Scores

(* _normalize lifts scores above the least of them; no span is zero.       *)
LEMMA NormalizeTyped ==
  ASSUME NEW T, NEW r \in Ranked(T)
  PROVE  Span(r) \in Nat \ {0} /\ \A t : Above(r, t) \in Nat
<1>1. Span(r) \in Nat \ {0}
  <2>1. CASE r = <<>>
    BY <2>1 DEF Span
  <2>2. CASE r # <<>>
    BY <2>2, ScoresBounded DEF Span
  <2> QED BY <2>1, <2>2
<1>2. ASSUME NEW t PROVE Above(r, t) \in Nat
  <2>1. CASE t \in Texts(r)
    <3>1. r # <<>> /\ ScoreOf(r, t) \in Scores(r)
      BY <2>1, ScoreOfText
    <3>2. Scores(r) \in SUBSET Int /\ Min(Scores(r)) \in Scores(r) /\ Min(Scores(r)) <= ScoreOf(r, t)
      BY <3>1, ScoresBounded
    <3> QED BY <2>1, <3>1, <3>2 DEF Above
  <2>2. CASE t \notin Texts(r)
    BY <2>2 DEF Above
  <2> QED BY <2>1, <2>2
<1> QED BY <1>1, <1>2

(* The keyword scores measured on another scale.                           *)
Rescaled(r) == [i \in DOMAIN r |-> [r[i] EXCEPT !.score = 10 * @ + 3]]

(* It ranks the same texts in the same places.                             *)
LEMMA RescaledRanking ==
  ASSUME NEW T, NEW r \in Ranked(T)
  PROVE  /\ Rescaled(r) \in Ranked(T) /\ DOMAIN Rescaled(r) = DOMAIN r
         /\ \A i \in DOMAIN r : /\ Rescaled(r)[i].text = r[i].text
                                /\ Rescaled(r)[i].score = 10 * r[i].score + 3
         /\ Texts(Rescaled(r)) = Texts(r)
<1> DEFINE E == [text : T, score : Int]
           Entry(e) == [e EXCEPT !.score = 10 * @ + 3]
<1>1. \A e \in E : Entry(e) \in E /\ Entry(e).text = e.text /\ Entry(e).score = 10 * e.score + 3
  OBVIOUS
<1>2. r \in Seq(E) /\ Rescaled(r) = [i \in DOMAIN r |-> Entry(r[i])]
  BY DEF Ranked, Rescaled
<1> HIDE DEF E, Entry
<1>3. Len(r) \in Nat /\ DOMAIN r = 1 .. Len(r) /\ \A i \in DOMAIN r : r[i] \in E
  BY <1>2
<1>4. Rescaled(r) \in Seq(E) /\ DOMAIN Rescaled(r) = DOMAIN r
  BY <1>1, <1>2, <1>3
<1>5. \A i \in DOMAIN r : /\ Rescaled(r)[i].text = r[i].text
                          /\ Rescaled(r)[i].score = 10 * r[i].score + 3
  BY <1>1, <1>2, <1>3
<1>6. Texts(Rescaled(r)) = Texts(r)
  BY <1>4, <1>5 DEF Texts
<1> QED BY <1>4, <1>5, <1>6 DEF E, Ranked

(* ... shift and stretch what _normalize subtracts and divides by alike.   *)
LEMMA RescaledNormal ==
  ASSUME NEW T, NEW r \in Ranked(T)
  PROVE  \/ Span(Rescaled(r)) = Span(r) /\ \A t : Above(Rescaled(r), t) = Above(r, t)
         \/ Span(Rescaled(r)) = 10 * Span(r) /\ \A t : Above(Rescaled(r), t) = 10 * Above(r, t)
<1> DEFINE q == Rescaled(r)
           lo == Min(Scores(r))
           hi == Max(Scores(r))
<1>1. /\ q \in Ranked(T) /\ DOMAIN q = DOMAIN r /\ Texts(q) = Texts(r)
      /\ \A i \in DOMAIN r : q[i].text = r[i].text /\ q[i].score = 10 * r[i].score + 3
  BY RescaledRanking
<1>2. CASE r = <<>>
  <2>1. q = <<>>
    <3>1. Len(q) = 0
      BY <1>1, <1>2 DEF Ranked
    <3> QED BY <1>1, <3>1 DEF Ranked
  <2> QED BY <1>2, <2>1
<1>3. CASE r # <<>>
  <2>1. /\ Scores(r) \in SUBSET Int /\ lo \in Scores(r) /\ hi \in Scores(r)
        /\ \A x \in Scores(r) : lo <= x /\ x <= hi
    BY <1>3, ScoresBounded
  <2>2. q # <<>>
    <3>1. DOMAIN r # {}
      BY <1>3 DEF Ranked
    <3> QED BY <1>1, <3>1
  <2>3. /\ Scores(q) \in SUBSET Int
        /\ Max(Scores(q)) \in Scores(q) /\ \A x \in Scores(q) : Max(Scores(q)) >= x
        /\ Min(Scores(q)) \in Scores(q) /\ \A x \in Scores(q) : Min(Scores(q)) <= x
    BY <1>1, <2>2, ScoresBounded
  <2>4. Scores(q) = {10 * x + 3 : x \in Scores(r)}
    BY <1>1 DEF Scores
  <2>5. Max(Scores(q)) = 10 * hi + 3 /\ Min(Scores(q)) = 10 * lo + 3
    <3> HIDE DEF q, hi, lo
    <3>1. 10 * hi + 3 \in Scores(q) /\ 10 * lo + 3 \in Scores(q)
      BY <2>1, <2>4
    <3>2. \A y \in Scores(q) : y <= 10 * hi + 3 /\ y >= 10 * lo + 3
      BY <2>1, <2>4
    <3>3. Max(Scores(q)) >= 10 * hi + 3 /\ Min(Scores(q)) <= 10 * lo + 3
      BY <2>3, <3>1
    <3>4. Max(Scores(q)) <= 10 * hi + 3 /\ Min(Scores(q)) >= 10 * lo + 3
      BY <2>3, <3>2
    <3> QED BY <2>1, <2>3, <3>3, <3>4
  <2>6. \A t \in Texts(r) : ScoreOf(r, t) \in Scores(r) /\ ScoreOf(q, t) = 10 * ScoreOf(r, t) + 3
    <3> TAKE t \in Texts(r)
    <3>1. ScoreOf(r, t) \in Scores(r) /\ \E i \in DOMAIN r : i = Max({j \in DOMAIN r : r[j].text = t})
      BY ScoreOfText
    <3>2. {j \in DOMAIN q : q[j].text = t} = {j \in DOMAIN r : r[j].text = t}
      BY <1>1
    <3> HIDE DEF q
    <3> QED BY <1>1, <3>1, <3>2 DEF ScoreOf
  <2>7. \A t : IF t \in Texts(r)
               THEN Above(r, t) = ScoreOf(r, t) - lo /\ Above(q, t) = ScoreOf(q, t) - (10 * lo + 3)
               ELSE Above(r, t) = 0 /\ Above(q, t) = 0
    BY <1>1, <2>5 DEF Above
  <2>8. \A t : Above(q, t) = 10 * Above(r, t)
    <3> TAKE t
    <3>1. CASE t \in Texts(r)
      <4>1. ScoreOf(r, t) \in Int /\ lo \in Int
        BY <2>1, <2>6, <3>1
      <4> HIDE DEF q, lo, hi
      <4> QED BY <2>6, <2>7, <3>1, <4>1
    <3>2. CASE t \notin Texts(r)
      BY <2>7, <3>2
    <3> QED BY <3>1, <3>2
  <2>9. CASE hi = lo
    <3>1. Span(r) = 1 /\ Span(q) = 1
      BY <1>3, <2>2, <2>5, <2>9 DEF Span
    <3>2. \A t : Above(r, t) = 0
      <4> TAKE t
      <4>1. CASE t \in Texts(r)
        <5>1. ScoreOf(r, t) \in Scores(r)
          BY <2>6, <4>1
        <5>2. ScoreOf(r, t) = lo /\ lo \in Int
          BY <2>1, <2>9, <5>1
        <5> QED BY <2>7, <4>1, <5>2
      <4>2. CASE t \notin Texts(r)
        BY <2>7, <4>2
      <4> QED BY <4>1, <4>2
    <3>3. \A t : Above(q, t) = Above(r, t)
      BY <2>8, <3>2
    <3> QED BY <3>1, <3>3
  <2>10. CASE hi # lo
    <3>1. hi \in Int /\ lo \in Int
      BY <2>1
    <3>2. Span(r) = hi - lo
      BY <1>3, <2>10 DEF Span
    <3>3. Max(Scores(q)) # Min(Scores(q))
      <4> HIDE DEF q, hi, lo
      <4> QED BY <2>5, <2>10, <3>1
    <3>4. Span(q) = (10 * hi + 3) - (10 * lo + 3)
      <4> HIDE DEF q, hi, lo
      <4> QED BY <2>2, <2>5, <3>3 DEF Span
    <3>5. Span(q) = 10 * Span(r)
      <4> HIDE DEF q, hi, lo
      <4> QED BY <3>1, <3>2, <3>4
    <3> QED BY <2>8, <3>5
  <2> QED BY <2>9, <2>10
<1> QED BY <1>2, <1>3

(* The scores fused are whole numbers.                                     *)
LEMMA FusedTyped ==
  ASSUME NEW T, NEW d \in Ranked(T), NEW s \in Ranked(T), NEW alpha \in Int
  PROVE  \A t : FusedScore(d, s, alpha, t) \in Int
<1> TAKE t
<1>1. Span(d) \in Nat /\ Span(s) \in Nat /\ Above(d, t) \in Nat /\ Above(s, t) \in Nat
  BY NormalizeTyped
<1> QED BY <1>1 DEF FusedScore

(* On another scale the keyword scores fuse to the same ranking.           *)
LEMMA FusionIgnoresScales ==
  ASSUME NEW T, NEW d \in Ranked(T), NEW s \in Ranked(T), NEW alpha \in Int, NEW limit
  PROVE  ScalesDoNotMatter(d, s, alpha, limit)
<1> DEFINE q == Rescaled(s)
           Old(t) == FusedScore(d, s, alpha, t)
           New(t) == FusedScore(d, q, alpha, t)
<1>1. q \in Ranked(T) /\ Texts(q) = Texts(s)
  BY RescaledRanking
<1>2. /\ Span(d) \in Nat /\ Span(s) \in Nat
      /\ \A t : Above(d, t) \in Nat /\ Above(s, t) \in Nat
  BY NormalizeTyped
<1>3. \/ \A t : New(t) = Old(t)
      \/ \A t : New(t) = 10 * Old(t)
  <2>1. CASE Span(q) = Span(s) /\ \A t : Above(q, t) = Above(s, t)
    BY <2>1 DEF FusedScore
  <2>2. CASE Span(q) = 10 * Span(s) /\ \A t : Above(q, t) = 10 * Above(s, t)
    <3>1. ASSUME NEW x \in Nat, NEW y \in Nat, NEW m \in Nat, NEW n \in Nat
          PROVE  alpha * x * (10 * n) + (100 - alpha) * (10 * y) * m
                   = 10 * (alpha * x * n + (100 - alpha) * y * m)
      OBVIOUS
    <3>2. \A t : New(t) = 10 * Old(t)
      <4> TAKE t
      <4>1. PICK x \in Nat, y \in Nat, m \in Nat, n \in Nat :
               x = Above(d, t) /\ y = Above(s, t) /\ m = Span(d) /\ n = Span(s)
        BY <1>2
      <4>2. Old(t) = alpha * x * n + (100 - alpha) * y * m
        BY <4>1 DEF FusedScore
      <4>3. New(t) = alpha * x * (10 * n) + (100 - alpha) * (10 * y) * m
        BY <2>2, <4>1 DEF FusedScore
      <4> QED BY <3>1, <4>2, <4>3
    <3> QED BY <3>2
  <2> QED BY <2>1, <2>2, RescaledNormal
<1>4. \A t, u : New(t) >= New(u) <=> Old(t) >= Old(u)
  <2>1. \A t : Old(t) \in Int
    BY FusedTyped
  <2> HIDE DEF Old, New
  <2> QED BY <1>3, <2>1
<1>5. HybridFuse(d, q, alpha, limit) = HybridFuse(d, s, alpha, limit)
  <2> HIDE DEF q
  <2> QED BY <1>1, <1>4 DEF HybridFuse
<1> QED BY <1>5 DEF ScalesDoNotMatter, Rescaled

(* A weighted sum that is no smaller, of parts that are no greater.        *)
LEMMA WeightedSum ==
  ASSUME NEW p \in Nat \ {0}, NEW q \in Nat \ {0},
         NEW a \in Nat, NEW b \in Nat, NEW x \in Nat, NEW y \in Nat,
         a <= x, b <= y, p * a + q * b >= p * x + q * y
  PROVE  a = x /\ b = y
<1>1. PICK m \in Nat : x = a + m
  <2>1. x - a \in Nat /\ x = a + (x - a)
    OBVIOUS
  <2> QED BY <2>1
<1>2. PICK n \in Nat : y = b + n
  <2>1. y - b \in Nat /\ y = b + (y - b)
    OBVIOUS
  <2> QED BY <2>1
<1>3. p * x = p * a + p * m /\ q * y = q * b + q * n
  BY <1>1, <1>2
<1>4. p * a \in Nat /\ q * b \in Nat /\ p * m \in Nat /\ q * n \in Nat
  OBVIOUS
<1>5. p * m = 0 /\ q * n = 0
  <2> HIDE <1>1, <1>2
  <2> QED BY <1>3, <1>4
<1>6. m = 0 /\ n = 0
  BY <1>5
<1> QED BY <1>1, <1>2, <1>6

(* What both searches put behind another never comes before it.            *)
LEMMA FusionKeepsAgreement ==
  ASSUME NEW T, NEW d \in Ranked(T), NEW s \in Ranked(T), NEW alpha \in Int, NEW limit \in Nat,
         IsFiniteSet(T), NEW fused \in HybridFuse(d, s, alpha, limit)
  PROVE  AgreementKept(d, s, alpha, fused)
<1> DEFINE All == Texts(d) \cup Texts(s)
           n == Cardinality(All)
<1>1. IsFiniteSet(All) /\ n \in Nat
  <2>1. All \in SUBSET T
    <3> DEFINE E == [text : T, score : Int]
    <3>1. \A e \in E : e.text \in T
      OBVIOUS
    <3> HIDE DEF E
    <3>2. d \in Seq(E) /\ s \in Seq(E)
      BY DEF Ranked, E
    <3>3. \A i \in DOMAIN d : d[i] \in E
      BY <3>2
    <3>4. \A i \in DOMAIN s : s[i] \in E
      BY <3>2
    <3> QED BY <3>1, <3>3, <3>4 DEF Texts
  <2> HIDE DEF All
  <2> QED BY <2>1, FS_Subset, FS_CardinalityType
<1>2. PICK r \in SetToSeqs(All) :
         /\ fused = Top(r, limit)
         /\ \A i, j \in DOMAIN r : i < j =>
              FusedScore(d, s, alpha, r[i]) >= FusedScore(d, s, alpha, r[j])
  BY DEF HybridFuse
<1>3. r \in [1 .. n -> All] /\ \A i, j \in 1 .. n : r[i] = r[j] => i = j
  BY <1>2 DEF SetToSeqs
<1>4. \A t \in All : \E i \in 1 .. n : r[i] = t
  <2> HIDE DEF All
  <2> QED BY <1>1, <1>3, InjectiveIsOnto
<1>5. DOMAIN fused \subseteq 1 .. n /\ \A k \in DOMAIN fused : fused[k] = r[k] /\ 1 .. k \subseteq DOMAIN fused
  <2> HIDE DEF n, All
  <2>1. r \in Seq(All) /\ Len(r) = n
    BY <1>1, <1>3
  <2>2. /\ fused \in Seq(All) /\ \A k \in 1 .. Len(fused) : k \in 1 .. Len(r) /\ fused[k] = r[k]
    BY <1>2, <2>1, TopIsPrefix
  <2>3. DOMAIN fused = 1 .. Len(fused) /\ Len(fused) \in Nat
    BY <2>2
  <2>4. \A k \in DOMAIN fused : 1 .. k \subseteq DOMAIN fused
    BY <2>3
  <2>5. \A k \in DOMAIN fused : k \in 1 .. n /\ fused[k] = r[k]
    BY <2>1, <2>2, <2>3
  <2> QED BY <2>4, <2>5
<1> SUFFICES ASSUME NEW k \in DOMAIN fused, NEW b \in All \ {fused[j] : j \in 1 .. k},
                    Above(d, fused[k]) <= Above(d, b), Above(s, fused[k]) <= Above(s, b),
                    alpha \in 1 .. 99
             PROVE  Above(d, fused[k]) = Above(d, b) /\ Above(s, fused[k]) = Above(s, b)
  BY DEF AgreementKept
<1>6. PICK i \in 1 .. n : r[i] = b
  BY <1>4
<1>7. k \in 1 .. n /\ k < i
  <2>1. i \notin 1 .. k
    BY <1>5, <1>6
  <2> QED BY <1>1, <1>5, <2>1
<1>8. FusedScore(d, s, alpha, fused[k]) >= FusedScore(d, s, alpha, b)
  BY <1>2, <1>3, <1>5, <1>6, <1>7
<1>9. /\ Span(d) \in Nat \ {0} /\ Span(s) \in Nat \ {0}
      /\ \A t : Above(d, t) \in Nat /\ Above(s, t) \in Nat
  BY NormalizeTyped
<1>10. \A t : FusedScore(d, s, alpha, t) =
               (alpha * Span(s)) * Above(d, t) + ((100 - alpha) * Span(d)) * Above(s, t)
  <2> TAKE t
  <2>1. ASSUME NEW x \in Nat, NEW y \in Nat, NEW m \in Nat, NEW l \in Nat
        PROVE  alpha * x * l + (100 - alpha) * y * m = (alpha * l) * x + ((100 - alpha) * m) * y
    OBVIOUS
  <2> QED BY <1>9, <2>1 DEF FusedScore
<1>11. alpha * Span(s) \in Nat \ {0} /\ (100 - alpha) * Span(d) \in Nat \ {0}
  <2>1. ASSUME NEW x \in Nat \ {0}, NEW y \in Nat \ {0} PROVE x * y \in Nat \ {0}
    OBVIOUS
  <2>2. alpha \in Nat \ {0} /\ 100 - alpha \in Nat \ {0}
    OBVIOUS
  <2> QED BY <1>9, <2>1, <2>2
<1> HIDE DEF All
<1>12. PICK p \in Nat \ {0}, q \in Nat \ {0} : p = alpha * Span(s) /\ q = (100 - alpha) * Span(d)
  BY <1>11
<1>13. p * Above(d, fused[k]) + q * Above(s, fused[k]) >= p * Above(d, b) + q * Above(s, b)
  BY <1>8, <1>10, <1>12
<1> QED BY <1>9, <1>13, WeightedSum

(* Whatever the two searches score, and on whatever scales: fusion keeps   *)
(* what both of them agree on, and the scale of one does not matter.       *)
THEOREM FusionAlwaysSound == CallsSpec => []FusionSound
<1>1. CallsInit => FusionSound
  BY DEF CallsInit, NoCall, FusionSound
<1>2. ASSUME FusionSound, [CallsNext]_call PROVE FusionSound'
  <2>1. CASE UNCHANGED call
    BY <1>2, <2>1 DEF FusionSound
  <2>2. CASE CallsNext /\ call'.of # "fuse"
    BY <2>2 DEF FusionSound
  <2>3. CASE CallsNext /\ call'.of = "fuse"
    <3>1. Fuse
      BY <2>3, CallsMade
    <3>2. PICK dense \in Rankings \ {<<>>}, sparse \in Rankings, alpha \in Weights :
             call' = [of |-> "fuse", dense |-> dense, sparse |-> sparse, alpha |-> alpha,
                      limit |-> Cardinality(Chunks) - 1]
      BY <3>1 DEF Fuse
    <3>3. /\ call'.dense = dense /\ call'.sparse = sparse /\ call'.alpha = alpha
          /\ call'.limit = Cardinality(Chunks) - 1
      BY <3>2
    <3>4. dense \in Ranked(Chunks) /\ sparse \in Ranked(Chunks) /\ alpha \in Int
      BY <3>2, RankingsTyped, AlgorithmConstants
    <3>5. PICK limit : limit = Cardinality(Chunks) - 1
      OBVIOUS
    <3>6. limit \in Nat
      <4>1. Chunks # {}
        <5>1. 1 \in DOMAIN dense
          BY <3>2, <3>4 DEF Ranked
        <5>2. dense[1].text \in Chunks
          <6> DEFINE E == [text : Chunks, score : Int]
          <6>1. \A e \in E : e.text \in Chunks
            OBVIOUS
          <6> HIDE DEF E
          <6>2. dense \in Seq(E)
            BY <3>4 DEF Ranked, E
          <6> QED BY <5>1, <6>1, <6>2
        <5> QED BY <5>2
      <4>2. Cardinality(Chunks) \in Nat /\ Cardinality(Chunks) # 0
        BY <4>1, AlgorithmConstants, FS_CardinalityType, FS_EmptySet
      <4> QED BY <3>5, <4>2
    <3>7. ScalesDoNotMatter(dense, sparse, alpha, limit)
      BY <3>4, FusionIgnoresScales
    <3>8. \A fused \in HybridFuse(dense, sparse, alpha, limit) :
             AgreementKept(dense, sparse, alpha, fused)
      BY <3>4, <3>6, AlgorithmConstants, FusionKeepsAgreement
    <3> QED BY <3>3, <3>5, <3>7, <3>8 DEF FusionSound
  <2> QED BY <1>2, <2>1, <2>2, <2>3
<1> QED BY <1>1, <1>2, PTL DEF CallsSpec
-----------------------------------------------------------------------------
Key == [primary : Int, mean : Int, name : Int, index : Nat]

(* Among keys of numbers the order of tuples is one.                       *)
LEMMA KeyOrder ==
  /\ \A x \in Key : ~ KeyLess(x, x)
  /\ \A x, y \in Key : KeyLess(x, y) => ~ KeyLess(y, x)
  /\ \A x, y, z \in Key : ~ KeyLess(x, y) /\ ~ KeyLess(y, z) => ~ KeyLess(x, z)
BY NoScores DEF Key, KeyLess

(* Binary search: what it compares x with on its way, said at its end.     *)
Probes(slot, n, sorted, x) ==
  \A l, r \in 1 .. n : slot[<<l, r>>] =
     LET mid == (l + r) \div 2 IN
     IF l >= r THEN l
     ELSE IF KeyLess(x, sorted[mid]) THEN slot[<<l, mid>>] ELSE slot[<<mid + 1, r>>]

(* The middle is in the half it is compared for.                           *)
LEMMA Middle ==
  ASSUME NEW n \in Nat, NEW l \in 1 .. n, NEW r \in 1 .. n, l < r
  PROVE  (l + r) \div 2 \in 1 .. n /\ l <= (l + r) \div 2 /\ (l + r) \div 2 < r
         /\ (l + r) \div 2 + 1 \in 1 .. n
OBVIOUS

(* The recursive definition in Place has a solution.                       *)
LEMMA SearchExists ==
  ASSUME NEW n \in Nat, NEW sorted, NEW x
  PROVE  \E slot \in [(1 .. n) \X (1 .. n) -> Int] : Probes(slot, n, sorted, x)
<1> DEFINE D == (1 .. n) \X (1 .. n)
           F == [D -> Int]
           Half(f) == [p \in D |->
                        LET mid == (p[1] + p[2]) \div 2 IN
                        IF p[1] >= p[2] THEN p[1]
                        ELSE IF KeyLess(x, sorted[mid]) THEN f[<<p[1], mid>>] ELSE f[<<mid + 1, p[2]>>]]
           next == [p \in Nat \X F |-> Half(p[2])]
           f0 == [p \in D |-> p[1]]
<1>1. \A l, r \in 1 .. n : l < r =>
         LET mid == (l + r) \div 2 IN
         <<l, mid>> \in D /\ <<mid + 1, r>> \in D /\ mid - l < r - l /\ r - (mid + 1) < r - l
  <2> TAKE l, r \in 1 .. n
  <2> HAVE l < r
  <2>1. PICK mid : mid = (l + r) \div 2
    OBVIOUS
  <2>2. mid \in 1 .. n /\ l <= mid /\ mid < r /\ mid + 1 \in 1 .. n
    BY <2>1, Middle
  <2> QED BY <2>1, <2>2
<1>2. \A f \in F : Half(f) \in F
  <2> TAKE f \in F
  <2> SUFFICES ASSUME NEW l \in 1 .. n, NEW r \in 1 .. n
               PROVE  LET mid == (l + r) \div 2 IN
                      (IF l >= r THEN l
                       ELSE IF KeyLess(x, sorted[mid]) THEN f[<<l, mid>>] ELSE f[<<mid + 1, r>>]) \in Int
    OBVIOUS
  <2>1. CASE l >= r
    BY <2>1
  <2>2. CASE l < r
    <3>1. PICK mid : mid = (l + r) \div 2
      OBVIOUS
    <3>2. <<l, mid>> \in D /\ <<mid + 1, r>> \in D
      BY <1>1, <2>2, <3>1
    <3>3. f[<<l, mid>>] \in Int /\ f[<<mid + 1, r>>] \in Int
      BY <3>2
    <3> QED BY <2>2, <3>1, <3>3
  <2> QED BY <2>1, <2>2
<1>3. f0 \in F
  OBVIOUS
<1>4. \A f : \A l, r \in 1 .. n : Half(f)[<<l, r>>] =
         LET mid == (l + r) \div 2 IN
         IF l >= r THEN l
         ELSE IF KeyLess(x, sorted[mid]) THEN f[<<l, mid>>] ELSE f[<<mid + 1, r>>]
  OBVIOUS
<1>5. \A l, r \in 1 .. n : f0[<<l, r>>] = l
  OBVIOUS
<1> HIDE DEF F, Half, f0
<1>6. next \in [Nat \X F -> F] /\ \A k \in Nat : \A f \in F : next[<<k, f>>] = Half(f)
  BY <1>2
<1> HIDE DEF next
<1>7. PICK c : Iterates(c, F, f0, next)
  BY <1>3, <1>6, Recursion
<1>8. c[0] = f0 /\ \A k \in Nat : c[k] \in F /\ c[k + 1] = Half(c[k])
  BY <1>6, <1>7 DEF Iterates
<1> DEFINE S == {k \in Nat : \A l, r \in 1 .. n : r - l <= k => c[k + 1][<<l, r>>] = c[k][<<l, r>>]}
<1>9. 0 \in S
  <2> SUFFICES ASSUME NEW l \in 1 .. n, NEW r \in 1 .. n, r - l <= 0
               PROVE  c[0 + 1][<<l, r>>] = c[0][<<l, r>>]
    OBVIOUS
  <2>1. l >= r /\ c[0 + 1] = Half(c[0])
    BY <1>8
  <2>2. Half(c[0])[<<l, r>>] = l
    BY <1>4, <2>1
  <2> QED BY <1>5, <1>8, <2>1, <2>2
<1>10. ASSUME NEW k \in S PROVE k + 1 \in S
  <2> SUFFICES ASSUME NEW l \in 1 .. n, NEW r \in 1 .. n, r - l <= k + 1
               PROVE  c[(k + 1) + 1][<<l, r>>] = c[k + 1][<<l, r>>]
    OBVIOUS
  <2>1. k \in Nat /\ k + 1 \in Nat
    OBVIOUS
  <2>2. c[(k + 1) + 1] = Half(c[k + 1]) /\ c[k + 1] = Half(c[k])
    BY <1>8, <2>1
  <2>3. CASE l >= r
    <3>1. \A f : Half(f)[<<l, r>>] = l
      BY <1>4, <2>3
    <3> QED BY <2>2, <3>1
  <2>4. CASE l < r
    <3>1. PICK mid : mid = (l + r) \div 2
      OBVIOUS
    <3>2. mid \in 1 .. n /\ mid + 1 \in 1 .. n /\ mid - l <= k /\ r - (mid + 1) <= k
      <4>1. mid \in 1 .. n /\ l <= mid /\ mid < r /\ mid + 1 \in 1 .. n
        BY <2>4, <3>1, Middle
      <4> QED BY <2>1, <4>1
    <3>3. c[k + 1][<<l, mid>>] = c[k][<<l, mid>>] /\ c[k + 1][<<mid + 1, r>>] = c[k][<<mid + 1, r>>]
      BY <3>2
    <3>4. c[(k + 1) + 1][<<l, r>>] =
             IF KeyLess(x, sorted[mid]) THEN c[k + 1][<<l, mid>>] ELSE c[k + 1][<<mid + 1, r>>]
      BY <1>4, <2>2, <2>4, <3>1
    <3>5. c[k + 1][<<l, r>>] =
             IF KeyLess(x, sorted[mid]) THEN c[k][<<l, mid>>] ELSE c[k][<<mid + 1, r>>]
      BY <1>4, <2>2, <2>4, <3>1
    <3> QED BY <3>3, <3>4, <3>5
  <2> QED BY <2>3, <2>4
<1> HIDE DEF S
<1>11. n \in S
  BY <1>9, <1>10, AllNumbers
<1>12. c[n] \in F /\ \A l, r \in 1 .. n : c[n][<<l, r>>] = Half(c[n])[<<l, r>>]
  <2>1. \A l, r \in 1 .. n : r - l <= n
    OBVIOUS
  <2> QED BY <1>8, <1>11, <2>1 DEF S
<1>13. Probes(c[n], n, sorted, x)
  <2> SUFFICES ASSUME NEW l \in 1 .. n, NEW r \in 1 .. n
               PROVE  c[n][<<l, r>>] =
                        LET mid == (l + r) \div 2 IN
                        IF l >= r THEN l
                        ELSE IF KeyLess(x, sorted[mid]) THEN c[n][<<l, mid>>] ELSE c[n][<<mid + 1, r>>]
    BY DEF Probes
  <2>1. c[n][<<l, r>>] = Half(c[n])[<<l, r>>]
    BY <1>12
  <2> QED BY <1>4, <2>1
<1> QED BY <1>12, <1>13 DEF F

(* The place found is where x is less than what follows and not less than  *)
(* what goes before, as far as they were compared.                         *)
LEMMA SearchFinds ==
  ASSUME NEW n \in Nat \ {0}, NEW sorted, NEW x, NEW slot, Probes(slot, n, sorted, x)
  PROVE  LET p == slot[<<1, n>>] IN
         /\ p \in 1 .. n
         /\ p = n \/ KeyLess(x, sorted[p])
         /\ p = 1 \/ ~ KeyLess(x, sorted[p - 1])
<1> DEFINE Found1(l, r) == LET p == slot[<<l, r>>] IN
                           /\ p \in l .. r
                           /\ p = r \/ KeyLess(x, sorted[p])
                           /\ p = l \/ ~ KeyLess(x, sorted[p - 1])
           S == {k \in Nat : \A l, r \in 1 .. n : l <= r /\ r - l <= k => Found1(l, r)}
<1>1. \A l, r \in 1 .. n : l >= r => slot[<<l, r>>] = l
  BY DEF Probes
<1>2. 0 \in S
  <2> SUFFICES ASSUME NEW l \in 1 .. n, NEW r \in 1 .. n, l <= r, r - l <= 0 PROVE Found1(l, r)
    OBVIOUS
  <2>1. l = r
    OBVIOUS
  <2> QED BY <1>1, <2>1
<1>3. ASSUME NEW k \in S PROVE k + 1 \in S
  <2> SUFFICES ASSUME NEW l \in 1 .. n, NEW r \in 1 .. n, l <= r, r - l <= k + 1 PROVE Found1(l, r)
    OBVIOUS
  <2>1. CASE l = r
    BY <1>1, <2>1
  <2>2. CASE l < r
    <3>1. PICK mid : mid = (l + r) \div 2
      OBVIOUS
    <3>2. mid \in 1 .. n /\ l <= mid /\ mid < r /\ mid + 1 \in 1 .. n
      BY <2>2, <3>1, Middle
    <3>3. mid - l <= k /\ r - (mid + 1) <= k /\ mid + 1 <= r /\ k \in Nat
      BY <3>2
    <3>4. Found1(l, mid) /\ Found1(mid + 1, r)
      BY <3>2, <3>3
    <3>5. slot[<<l, r>>] = IF KeyLess(x, sorted[mid]) THEN slot[<<l, mid>>] ELSE slot[<<mid + 1, r>>]
      BY <2>2, <3>1 DEF Probes
    <3>6. CASE KeyLess(x, sorted[mid])
      <4>1. PICK p : p = slot[<<l, mid>>]
        OBVIOUS
      <4>2. p \in l .. mid /\ (p = mid \/ KeyLess(x, sorted[p])) /\ (p = l \/ ~ KeyLess(x, sorted[p - 1]))
        BY <3>4, <4>1
      <4>3. slot[<<l, r>>] = p /\ p \in l .. r
        BY <3>2, <3>5, <3>6, <4>1, <4>2
      <4> QED BY <3>6, <4>2, <4>3
    <3>7. CASE ~ KeyLess(x, sorted[mid])
      <4>1. PICK p : p = slot[<<mid + 1, r>>]
        OBVIOUS
      <4>2. p \in mid + 1 .. r /\ (p = r \/ KeyLess(x, sorted[p]))
            /\ (p = mid + 1 \/ ~ KeyLess(x, sorted[p - 1]))
        BY <3>4, <4>1
      <4>3. slot[<<l, r>>] = p /\ p \in l .. r /\ (p = mid + 1 => p - 1 = mid)
        BY <3>2, <3>5, <3>7, <4>1, <4>2
      <4> QED BY <3>7, <4>2, <4>3
    <3> QED BY <3>6, <3>7
  <2> QED BY <2>1, <2>2
<1> HIDE DEF S
<1>4. n \in S
  BY <1>2, <1>3, AllNumbers
<1>5. 1 \in 1 .. n /\ n \in 1 .. n /\ 1 <= n /\ n - 1 <= n
  OBVIOUS
<1> QED BY <1>4, <1>5 DEF S

(* InsertAt moves what follows the place by one.                           *)
LEMMA Inserted ==
  ASSUME NEW E, NEW q \in Seq(E), NEW x \in E, NEW p \in 1 .. Len(q) + 1
  PROVE  /\ InsertAt(q, p, x) \in Seq(E) /\ Len(InsertAt(q, p, x)) = Len(q) + 1
         /\ \A j \in 1 .. Len(q) + 1 :
              InsertAt(q, p, x)[j] = IF j < p THEN q[j] ELSE IF j = p THEN x ELSE q[j - 1]
<1> DEFINE n == Len(q)
           u == SubSeq(q, 1, p - 1)
           v == SubSeq(q, p, n)
<1>1. n \in Nat /\ p \in Int /\ p - 1 \in Int /\ DOMAIN q = 1 .. n /\ \A i \in 1 .. n : q[i] \in E
  OBVIOUS
<1>2. u \in Seq(E) /\ Len(u) = p - 1 /\ \A i \in 1 .. p - 1 : u[i] = q[i]
  <2>1. \A i \in 1 .. p - 1 : q[i] \in E
    BY <1>1
  <2>2. /\ u \in Seq(E) /\ Len(u) = IF 1 <= p - 1 THEN p - 1 - 1 + 1 ELSE 0
        /\ \A i \in 1 .. p - 1 - 1 + 1 : u[i] = q[1 + i - 1]
    BY <1>1, <2>1, SubSeqProperties
  <2>3. p - 1 - 1 + 1 = p - 1 /\ (~ (1 <= p - 1) => p - 1 = 0) /\ \A i \in 1 .. p - 1 : 1 + i - 1 = i
    BY <1>1
  <2> HIDE DEF u
  <2> QED BY <2>2, <2>3
<1>3. v \in Seq(E) /\ Len(v) = n - p + 1 /\ \A i \in 1 .. n - p + 1 : v[i] = q[p + i - 1]
  <2>1. \A i \in p .. n : q[i] \in E
    BY <1>1
  <2>2. /\ v \in Seq(E) /\ Len(v) = IF p <= n THEN n - p + 1 ELSE 0
        /\ \A i \in 1 .. n - p + 1 : v[i] = q[p + i - 1]
    <3> HIDE DEF n
    <3> QED BY <1>1, <2>1, SubSeqProperties DEF n
  <2>3. ~ (p <= n) => n - p + 1 = 0
    BY <1>1
  <2> HIDE DEF v, n
  <2> QED BY <2>2, <2>3
<1> HIDE DEF u, v
<1>4. u \o <<x>> \in Seq(E) /\ Len(u \o <<x>>) = p
      /\ \A j \in 1 .. p : (u \o <<x>>)[j] = IF j < p THEN q[j] ELSE x
  <2>1. <<x>> \in Seq(E) /\ Len(<<x>>) = 1 /\ <<x>>[1] = x
    OBVIOUS
  <2> QED BY <1>1, <1>2, <2>1, ConcatProperties
<1>5. PICK w : w = u \o <<x>>
  OBVIOUS
<1>6. w \o v \in Seq(E) /\ Len(w \o v) = n + 1
      /\ \A j \in 1 .. n + 1 : (w \o v)[j] = IF j <= p THEN w[j] ELSE v[j - p]
  <2>1. w \in Seq(E) /\ Len(w) = p /\ v \in Seq(E) /\ Len(v) = n - p + 1
    BY <1>3, <1>4, <1>5
  <2>2. /\ w \o v \in Seq(E) /\ Len(w \o v) = Len(w) + Len(v)
        /\ \A i \in 1 .. Len(w) + Len(v) : (w \o v)[i] = IF i <= Len(w) THEN w[i] ELSE v[i - Len(w)]
    BY <2>1, ConcatProperties
  <2>3. p + (n - p + 1) = n + 1
    BY <1>1
  <2> QED BY <2>1, <2>2, <2>3
<1>7. InsertAt(q, p, x) = w \o v
  BY <1>5 DEF InsertAt, u, v
<1>8. ASSUME NEW j \in 1 .. n + 1
      PROVE  InsertAt(q, p, x)[j] = IF j < p THEN q[j] ELSE IF j = p THEN x ELSE q[j - 1]
  <2>1. CASE j <= p
    <3>1. j \in 1 .. p
      BY <1>1, <2>1
    <3> QED BY <1>1, <1>4, <1>5, <1>6, <1>7, <2>1, <3>1
  <2>2. CASE j > p
    <3>1. j - p \in 1 .. n - p + 1 /\ p + (j - p) - 1 = j - 1 /\ ~ (j <= p) /\ ~ (j < p) /\ j # p
      BY <1>1, <2>2
    <3>2. v[j - p] = q[j - 1]
      BY <1>3, <3>1
    <3> QED BY <1>6, <1>7, <3>1, <3>2
  <2> QED BY <1>1, <2>1, <2>2
<1> QED BY <1>6, <1>7, <1>8

(* Nothing in a list beats its last.                                       *)
LastIsBest(q) == q # <<>> /\ \A j \in DOMAIN q : ~ KeyLess(q[Len(q)], q[j])

(* Wherever binary search puts a key: the last stays the best.             *)
LEMMA PlaceKeepsBest ==
  ASSUME NEW q \in Seq(Key), LastIsBest(q), NEW x \in Key
  PROVE  /\ Place(q, x) \in Seq(Key) /\ LastIsBest(Place(q, x))
         /\ LET best == Place(q, x)[Len(Place(q, x))] IN
            best \in {q[Len(q)], x} /\ ~ KeyLess(best, x) /\ ~ KeyLess(best, q[Len(q)])
<1> DEFINE n == Len(q) + 1
           Pass(f) == [h \in (1 .. n) \X (1 .. n) |->
                        LET l == h[1]
                            r == h[2]
                            mid == (l + r) \div 2 IN
                        IF l >= r THEN l
                        ELSE IF KeyLess(x, q[mid]) THEN f[<<l, mid>>] ELSE f[<<mid + 1, r>>]]
           slot == CHOOSE f : f = Pass(f)
           p == slot[<<1, n>>]
<1>1. Len(q) \in Nat \ {0} /\ n \in Nat \ {0} /\ n - 1 = Len(q) /\ DOMAIN q = 1 .. Len(q)
      /\ \A j \in 1 .. Len(q) : q[j] \in Key
  BY DEF LastIsBest
<1>2. Place(q, x) = InsertAt(q, p, x)
  BY DEF Place
<1>3. \A l, r \in 1 .. n : \A f : Pass(f)[<<l, r>>] =
         LET mid == (l + r) \div 2 IN
         IF l >= r THEN l
         ELSE IF KeyLess(x, q[mid]) THEN f[<<l, mid>>] ELSE f[<<mid + 1, r>>]
  OBVIOUS
<1>4. PICK g \in [(1 .. n) \X (1 .. n) -> Int] : Probes(g, n, q, x)
  BY <1>1, SearchExists
<1>5. g = Pass(g)
  <2> HIDE DEF n
  <2> QED BY <1>4 DEF Probes
<1>6. slot = Pass(slot)
  BY <1>5
<1> HIDE DEF slot
<1>7. Probes(slot, n, q, x)
  <2> SUFFICES ASSUME NEW l \in 1 .. n, NEW r \in 1 .. n
               PROVE  slot[<<l, r>>] =
                        LET mid == (l + r) \div 2 IN
                        IF l >= r THEN l
                        ELSE IF KeyLess(x, q[mid]) THEN slot[<<l, mid>>] ELSE slot[<<mid + 1, r>>]
    BY DEF Probes
  <2>1. slot[<<l, r>>] = Pass(slot)[<<l, r>>]
    BY <1>6
  <2> HIDE DEF Pass
  <2> QED BY <1>3, <2>1
<1>8. /\ p \in 1 .. n /\ (p = n \/ KeyLess(x, q[p])) /\ (p = 1 \/ ~ KeyLess(x, q[p - 1]))
  <2> HIDE DEF n
  <2> QED BY <1>1, <1>7, SearchFinds
<1> HIDE DEF p
<1>9. PICK s : s = Place(q, x)
  OBVIOUS
<1>10. /\ s \in Seq(Key) /\ Len(s) = n
       /\ \A j \in 1 .. n : s[j] = IF j < p THEN q[j] ELSE IF j = p THEN x ELSE q[j - 1]
  <2>1. p \in 1 .. Len(q) + 1
    BY <1>8
  <2>2. /\ InsertAt(q, p, x) \in Seq(Key) /\ Len(InsertAt(q, p, x)) = Len(q) + 1
        /\ \A j \in 1 .. Len(q) + 1 :
             InsertAt(q, p, x)[j] = IF j < p THEN q[j] ELSE IF j = p THEN x ELSE q[j - 1]
    <3> HIDE DEF n, Pass
    <3>1. q \in Seq(Key) /\ x \in Key
      OBVIOUS
    <3>2. InsertAt(q, p, x) \in Seq(Key) /\ Len(InsertAt(q, p, x)) = Len(q) + 1
      BY <2>1, <3>1, Inserted
    <3>3. \A j \in 1 .. Len(q) + 1 :
             InsertAt(q, p, x)[j] = IF j < p THEN q[j] ELSE IF j = p THEN x ELSE q[j - 1]
      BY <2>1, <3>1, Inserted
    <3> QED BY <3>2, <3>3
  <2> QED BY <1>2, <1>9, <2>2
<1> HIDE DEF n
<1>11. DOMAIN s = 1 .. n /\ s # <<>> /\ n \in 1 .. n /\ Len(q) \in 1 .. Len(q)
  BY <1>1, <1>10
<1>12. /\ s[n] \in {q[Len(q)], x} /\ ~ KeyLess(s[n], x) /\ ~ KeyLess(s[n], q[Len(q)])
  <2>1. CASE p = n
    <3>1. s[n] = x
      BY <1>10, <1>11, <2>1
    <3>2. ~ KeyLess(x, q[Len(q)])
      BY <1>1, <1>8, <2>1
    <3> QED BY <3>1, <3>2, KeyOrder
  <2>2. CASE p # n
    <3>1. s[n] = q[Len(q)] /\ p \in 1 .. Len(q)
      BY <1>1, <1>8, <1>10, <1>11, <2>2
    <3>2. KeyLess(x, q[p]) /\ ~ KeyLess(q[Len(q)], q[p]) /\ q[p] \in Key /\ q[Len(q)] \in Key
      BY <1>1, <1>8, <1>11, <2>2, <3>1 DEF LastIsBest
    <3>3. ~ KeyLess(q[p], x)
      BY <3>2, KeyOrder
    <3> QED BY <3>1, <3>2, <3>3, KeyOrder
  <2> QED BY <2>1, <2>2
<1>13. ASSUME NEW j \in 1 .. n PROVE ~ KeyLess(s[n], s[j])
  <2>1. s[j] = x \/ \E i \in 1 .. Len(q) : s[j] = q[i]
    <3>1. CASE j < p
      BY <1>1, <1>8, <1>10, <3>1
    <3>2. CASE j = p
      BY <1>10, <3>2
    <3>3. CASE j > p
      <4>1. j - 1 \in 1 .. Len(q) /\ ~ (j < p) /\ j # p
        BY <1>1, <1>8, <3>3
      <4> QED BY <1>10, <4>1
    <3> QED BY <1>8, <3>1, <3>2, <3>3
  <2>2. \A i \in 1 .. Len(q) : ~ KeyLess(s[n], q[i])
    <3> TAKE i \in 1 .. Len(q)
    <3>1. ~ KeyLess(q[Len(q)], q[i]) /\ q[i] \in Key /\ q[Len(q)] \in Key /\ s[n] \in Key
      BY <1>1, <1>10, <1>11 DEF LastIsBest
    <3> QED BY <1>12, <3>1, KeyOrder
  <2> QED BY <1>12, <2>1, <2>2
<1> QED BY <1>9, <1>10, <1>11, <1>12, <1>13 DEF LastIsBest

(* A list that rises ends with the best, one that falls begins with it.    *)
LEMMA RunsEndBest ==
  ASSUME NEW s \in Seq(Key), NEW m \in 1 .. Len(s)
  PROVE  /\ (\A i \in 1 .. m - 1 : ~ KeyLess(s[i + 1], s[i])) =>
              \A i \in 1 .. m : ~ KeyLess(s[m], s[i])
         /\ (\A i \in 1 .. m - 1 : KeyLess(s[i + 1], s[i])) =>
              \A i \in 1 .. m : ~ KeyLess(s[1], s[i])
<1>1. Len(s) \in Nat /\ m \in Nat /\ \A i \in 1 .. m : s[i] \in Key
  OBVIOUS
<1>2. ASSUME \A i \in 1 .. m - 1 : ~ KeyLess(s[i + 1], s[i])
      PROVE  \A i \in 1 .. m : ~ KeyLess(s[m], s[i])
  <2> DEFINE S == {k \in Nat : k < m => ~ KeyLess(s[m], s[m - k])}
  <2>1. 0 \in S
    <3>1. m - 0 = m /\ s[m] \in Key
      BY <1>1
    <3> QED BY <3>1, KeyOrder
  <2>2. ASSUME NEW k \in S PROVE k + 1 \in S
    <3> SUFFICES ASSUME k + 1 < m PROVE ~ KeyLess(s[m], s[m - (k + 1)])
      OBVIOUS
    <3>1. k < m /\ m - (k + 1) \in 1 .. m - 1 /\ m - (k + 1) + 1 = m - k
          /\ m - (k + 1) \in 1 .. m /\ m - k \in 1 .. m /\ m \in 1 .. m
      BY <1>1
    <3>2. ~ KeyLess(s[m], s[m - k])
      BY <3>1
    <3>3. ~ KeyLess(s[m - k], s[m - (k + 1)])
      BY <1>2, <3>1
    <3>4. s[m] \in Key /\ s[m - k] \in Key /\ s[m - (k + 1)] \in Key
      BY <1>1, <3>1
    <3> QED BY <3>2, <3>3, <3>4, KeyOrder
  <2> HIDE DEF S
  <2>3. Nat \subseteq S
    BY <2>1, <2>2, AllNumbers
  <2> TAKE i \in 1 .. m
  <2>4. m - i \in Nat /\ m - i < m /\ m - (m - i) = i
    BY <1>1
  <2>5. m - i \in S
    BY <2>3, <2>4
  <2> QED BY <2>4, <2>5 DEF S
<1>3. ASSUME \A i \in 1 .. m - 1 : KeyLess(s[i + 1], s[i])
      PROVE  \A i \in 1 .. m : ~ KeyLess(s[1], s[i])
  <2> DEFINE S == {k \in Nat : k < m => ~ KeyLess(s[1], s[k + 1])}
  <2>1. 0 \in S
    <3>1. 0 + 1 = 1 /\ s[1] \in Key
      BY <1>1
    <3> QED BY <3>1, KeyOrder
  <2>2. ASSUME NEW k \in S PROVE k + 1 \in S
    <3> SUFFICES ASSUME k + 1 < m PROVE ~ KeyLess(s[1], s[(k + 1) + 1])
      OBVIOUS
    <3>1. k < m /\ k + 1 \in 1 .. m - 1 /\ k + 1 \in 1 .. m /\ (k + 1) + 1 \in 1 .. m /\ 1 \in 1 .. m
      BY <1>1
    <3>2. ~ KeyLess(s[1], s[k + 1])
      BY <3>1
    <3>3. KeyLess(s[(k + 1) + 1], s[k + 1])
      BY <1>3, <3>1
    <3>4. s[1] \in Key /\ s[k + 1] \in Key /\ s[(k + 1) + 1] \in Key
      BY <1>1, <3>1
    <3>5. ~ KeyLess(s[k + 1], s[(k + 1) + 1])
      BY <3>3, <3>4, KeyOrder
    <3> QED BY <3>2, <3>5, <3>4, KeyOrder
  <2> HIDE DEF S
  <2>3. Nat \subseteq S
    BY <2>1, <2>2, AllNumbers
  <2> TAKE i \in 1 .. m
  <2>4. i - 1 \in Nat /\ i - 1 < m /\ (i - 1) + 1 = i
    BY <1>1
  <2>5. i - 1 \in S
    BY <2>3, <2>4
  <2> QED BY <2>4, <2>5 DEF S
<1> QED BY <1>2, <1>3

(* The run a list begins with is not empty, and its best is put last.      *)
LEMMA FirstRunBest ==
  ASSUME NEW s \in Seq(Key), s # <<>>
  PROVE  /\ Run(s) \in 1 .. Len(s)
         /\ FirstRun(s) \in Seq(Key) /\ LastIsBest(FirstRun(s))
         /\ LET best == FirstRun(s)[Len(FirstRun(s))] IN
            \E i \in DOMAIN s : best = s[i]
         /\ \A i \in 1 .. Run(s) : ~ KeyLess(FirstRun(s)[Len(FirstRun(s))], s[i])
<1> DEFINE m == Run(s)
           R == {k \in 0 .. Len(s) : \A i \in 1 .. k - 1 : KeyLess(s[i + 1], s[i]) <=> Falls(s)}
<1>1. Len(s) \in Nat \ {0} /\ DOMAIN s = 1 .. Len(s) /\ \A i \in 1 .. Len(s) : s[i] \in Key
  OBVIOUS
<1>2. m \in R /\ m >= 1
  <2>1. 1 \in R
    BY <1>1
  <2>2. R \in SUBSET Int /\ IsFiniteSet(R) /\ R # {}
    <3>1. 0 \in Int /\ Len(s) \in Int
      BY <1>1
    <3>2. IsFiniteSet(0 .. Len(s))
      BY <3>1, FS_Interval
    <3>3. R \subseteq 0 .. Len(s)
      OBVIOUS
    <3>4. IsFiniteSet(R)
      <4> HIDE DEF R
      <4> QED BY <3>2, <3>3, FS_Subset
    <3> QED BY <2>1, <3>3, <3>4
  <2>3. m = Max(R)
    BY DEF Run
  <2> HIDE DEF R, m
  <2>4. Max(R) \in R /\ \A y \in R : Max(R) >= y
    BY <2>2, MaxOfFinite
  <2> QED BY <2>1, <2>3, <2>4
<1>3. m \in 1 .. Len(s) /\ \A i \in 1 .. m - 1 : KeyLess(s[i + 1], s[i]) <=> Falls(s)
  BY <1>1, <1>2
<1> HIDE DEF R
<1>4. PICK u : u = SubSeq(s, 1, m)
  OBVIOUS
<1> HIDE DEF m
<1>5. u \in Seq(Key) /\ Len(u) = m /\ \A i \in 1 .. m : u[i] = s[i]
  <2>1. 1 \in Int /\ m \in Int /\ \A i \in 1 .. m : s[i] \in Key
    BY <1>1, <1>3
  <2>2. /\ u \in Seq(Key) /\ Len(u) = IF 1 <= m THEN m - 1 + 1 ELSE 0
        /\ \A i \in 1 .. m - 1 + 1 : u[i] = s[1 + i - 1]
    BY <1>4, <2>1, SubSeqProperties
  <2>3. 1 <= m /\ m - 1 + 1 = m /\ \A i \in 1 .. m : 1 + i - 1 = i
    BY <1>3
  <2> QED BY <2>2, <2>3
<1>6. m \in 1 .. m /\ 1 \in 1 .. m
  BY <1>3
<1>7. CASE ~ Falls(s)
  <2>1. FirstRun(s) = u
    BY <1>4, <1>7 DEF FirstRun, m
  <2>2. \A i \in 1 .. m : ~ KeyLess(s[m], s[i])
    BY <1>3, <1>7, RunsEndBest
  <2>3. u[Len(u)] = s[m] /\ DOMAIN u = 1 .. m /\ u # <<>>
    BY <1>5, <1>6
  <2>4. \A i \in 1 .. m : ~ KeyLess(u[Len(u)], u[i])
    BY <1>5, <2>2, <2>3
  <2> QED BY <1>1, <1>3, <1>5, <2>1, <2>2, <2>3, <2>4 DEF LastIsBest, m
<1>8. CASE Falls(s)
  <2>1. PICK v : v = Reverse(u)
    OBVIOUS
  <2>2. FirstRun(s) = v
    BY <1>4, <1>8, <2>1 DEF FirstRun, m
  <2>3. v = [i \in 1 .. m |-> u[(m - i) + 1]]
    BY <1>5, <2>1 DEF Reverse
  <2>4. \A i \in 1 .. m : (m - i) + 1 \in 1 .. m /\ u[(m - i) + 1] = s[(m - i) + 1]
    BY <1>3, <1>5
  <2>5. v \in Seq(Key) /\ Len(v) = m /\ DOMAIN v = 1 .. m
    <3>1. m \in Nat
      BY <1>3
    <3>2. \A i \in 1 .. m : u[(m - i) + 1] \in Key
      BY <1>1, <1>3, <2>4
    <3> QED BY <2>3, <3>1, <3>2
  <2>6. v[m] = s[1]
    <3>1. (m - m) + 1 = 1
      BY <1>3
    <3> QED BY <1>6, <2>3, <2>4, <3>1
  <2>7. \A i \in 1 .. m : ~ KeyLess(s[1], s[i])
    BY <1>3, <1>8, RunsEndBest
  <2>8. \A i \in 1 .. m : ~ KeyLess(v[m], v[i])
    BY <2>3, <2>4, <2>6, <2>7
  <2>9. v # <<>>
    BY <1>6, <2>5
  <2> QED BY <1>1, <1>3, <2>2, <2>5, <2>6, <2>7, <2>8, <2>9 DEF LastIsBest, m
<1> QED BY <1>7, <1>8

(* The lists binary insertion goes through, one element of t after another.*)
BestLast == {q \in Seq(Key) : LastIsBest(q)}

(* Every one of them has its best last.                                    *)
LEMMA PlaceSteps ==
  ASSUME NEW first \in BestLast, NEW t \in Seq(Key)
  PROVE  \E h \in [0 .. Len(t) -> BestLast] :
            /\ h[0] = first /\ h[Len(t)] = FoldLeft(Place, first, t)
            /\ \A k \in 1 .. Len(t) : h[k] = Place(h[k - 1], t[k])
<1> DEFINE n == Len(t)
           V == BestLast
           Op(r, x) == Place(r, x)
           step == [p \in (1 .. n) \X V |-> Op(p[2], t[p[1]])]
           Pass(i) == [T \in SUBSET DOMAIN t |->
                         IF T = {} THEN first ELSE Op(i[T \ {Max(T)}], t[Max(T)])]
           I == CHOOSE i : i = Pass(i)
           pick == [T \in SUBSET (1 .. n) |-> Max(T)]
<1>1. n \in Nat /\ DOMAIN t = 1 .. n /\ first \in V /\ \A k \in 1 .. n : t[k] \in Key
  OBVIOUS
<1>2. \A r \in V : \A x \in Key : Op(r, x) \in V
  BY PlaceKeepsBest DEF BestLast
<1>3. FoldLeft(Place, first, t) = I[1 .. n]
  BY <1>1 DEF FoldLeft, MapThenFoldSet
<1> HIDE DEF V, n, Op
<1>4. step \in [(1 .. n) \X V -> V] /\ \A k \in 1 .. n : \A r \in V : step[<<k, r>>] = Op(r, t[k])
  BY <1>1, <1>2
<1>5. \A T \in SUBSET (1 .. n) : T # {} => Max(T) \in T /\ pick[T] = Max(T)
  BY <1>1, MaxOfPositions
<1> HIDE DEF step, pick
<1>6. IsFiniteSet(1 .. n)
  <2>1. 1 \in Int /\ n \in Int
    BY <1>1
  <2> QED BY <2>1, FS_Interval
<1>7. PICK g : FoldsSets(g, 1 .. n, V, first, step, pick)
  BY <1>1, <1>4, <1>5, <1>6, FoldExists
<1>8. g = Pass(g)
  <2>1. ASSUME NEW T \in SUBSET DOMAIN t
        PROVE  g[T] = IF T = {} THEN first ELSE Op(g[T \ {Max(T)}], t[Max(T)])
    <3>1. CASE T = {}
      BY <1>1, <1>7, <3>1 DEF FoldsSets
    <3>2. CASE T # {}
      <4>1. Max(T) \in 1 .. n /\ T \ {Max(T)} \in SUBSET (1 .. n)
        BY <1>1, <1>5, <3>2
      <4>2. g[T] = step[<<Max(T), g[T \ {Max(T)}]>>] /\ g[T \ {Max(T)}] \in V
        BY <1>1, <1>5, <1>7, <3>2, <4>1 DEF FoldsSets
      <4> QED BY <1>4, <3>2, <4>1, <4>2
    <3> QED BY <3>1, <3>2
  <2>2. g \in [SUBSET DOMAIN t -> V]
    BY <1>1, <1>7 DEF FoldsSets
  <2> QED BY <2>1, <2>2
<1>9. I = Pass(I)
  BY <1>8
<1> HIDE DEF I
<1>10. I[{}] = first
  BY <1>9
<1>11. \A T \in SUBSET (1 .. n) :
          T # {} /\ I[T \ {Max(T)}] \in V => I[T] = step[<<Max(T), I[T \ {Max(T)}]>>]
  <2> TAKE T \in SUBSET (1 .. n)
  <2> HAVE T # {} /\ I[T \ {Max(T)}] \in V
  <2>1. I[T] = Op(I[T \ {Max(T)}], t[Max(T)])
    BY <1>1, <1>9
  <2>2. Max(T) \in 1 .. n
    BY <1>5
  <2> QED BY <1>4, <2>1, <2>2
<1>12. PICK h : FoldsSeq(h, n, V, first, step, I[1 .. n])
  BY <1>1, <1>4, <1>10, <1>11, FoldSteps
<1>13. h \in [0 .. n -> V] /\ h[0] = first /\ h[n] = FoldLeft(Place, first, t)
  BY <1>3, <1>12 DEF FoldsSeq
<1>14. ASSUME NEW k \in 1 .. n PROVE h[k] = Op(h[k - 1], t[k])
  <2>1. k - 1 \in 0 .. n
    BY <1>1
  <2> QED BY <1>4, <1>12, <1>13, <2>1 DEF FoldsSeq
<1> QED BY <1>13, <1>14 DEF n, V, Op

(* list.sort puts a best key last, whatever the order the keys come in.    *)
LEMMA SortEndsBest ==
  ASSUME NEW s \in Seq(Key), s # <<>>
  PROVE  /\ \E i \in DOMAIN s : Last(PythonSort(s)) = s[i]
         /\ \A i \in DOMAIN s : ~ KeyLess(Last(PythonSort(s)), s[i])
<1> DEFINE n == Len(s)
<1>0. PICK m : m = Run(s)
  OBVIOUS
<1>1. m \in 1 .. n /\ n \in Nat /\ DOMAIN s = 1 .. n /\ \A i \in 1 .. n : s[i] \in Key
  BY <1>0, FirstRunBest
<1>2. PICK t : t = SubSeq(s, m + 1, n)
  OBVIOUS
<1>3. t \in Seq(Key) /\ Len(t) = n - m /\ \A k \in 1 .. n - m : t[k] = s[m + k]
  <2> HIDE DEF n
  <2>1. m + 1 \in Int /\ n \in Int /\ \A i \in m + 1 .. n : s[i] \in Key
    BY <1>1
  <2>2. /\ t \in Seq(Key) /\ Len(t) = IF m + 1 <= n THEN n - (m + 1) + 1 ELSE 0
        /\ \A i \in 1 .. n - (m + 1) + 1 : t[i] = s[(m + 1) + i - 1]
    BY <1>2, <2>1, SubSeqProperties
  <2>3. n - (m + 1) + 1 = n - m /\ (~ (m + 1 <= n) => n - m = 0)
        /\ \A i \in 1 .. n - m : (m + 1) + i - 1 = m + i
    BY <1>1
  <2> QED BY <2>2, <2>3
<1>4. PICK first : first = FirstRun(s)
  OBVIOUS
<1>5. /\ first \in BestLast
      /\ \E i \in 1 .. n : first[Len(first)] = s[i]
      /\ \A i \in 1 .. m : ~ KeyLess(first[Len(first)], s[i])
  BY <1>0, <1>1, <1>4, FirstRunBest DEF BestLast
<1>6. PICK h \in [0 .. Len(t) -> BestLast] :
         /\ h[0] = first /\ h[Len(t)] = FoldLeft(Place, first, t)
         /\ \A k \in 1 .. Len(t) : h[k] = Place(h[k - 1], t[k])
  BY <1>3, <1>5, PlaceSteps
<1>7. FoldLeft(Place, first, t) = PythonSort(s)
  BY <1>0, <1>2, <1>4 DEF PythonSort
<1> DEFINE Best(k) == h[k][Len(h[k])]
           S == {k \in Nat : k <= n - m =>
                   /\ \E i \in 1 .. n : Best(k) = s[i]
                   /\ \A i \in 1 .. m + k : ~ KeyLess(Best(k), s[i])}
<1> HIDE DEF n
<1>8. 0 \in S
  <2>1. m + 0 = m
    BY <1>1
  <2> QED BY <1>5, <1>6, <2>1
<1>9. ASSUME NEW k \in S PROVE k + 1 \in S
  <2> SUFFICES ASSUME k + 1 <= n - m
               PROVE  /\ \E i \in 1 .. n : Best(k + 1) = s[i]
                      /\ \A i \in 1 .. m + (k + 1) : ~ KeyLess(Best(k + 1), s[i])
    OBVIOUS
  <2>1. k <= n - m /\ k \in 0 .. Len(t) /\ k + 1 \in 1 .. Len(t) /\ (k + 1) - 1 = k
        /\ m + (k + 1) \in 1 .. n
    BY <1>1, <1>3
  <2>2. \E i \in 1 .. n : Best(k) = s[i]
    BY <2>1
  <2>3. \A i \in 1 .. m + k : ~ KeyLess(Best(k), s[i])
    BY <2>1
  <2>4. h[k] \in BestLast /\ h[k + 1] = Place(h[k], s[m + (k + 1)]) /\ s[m + (k + 1)] \in Key
    BY <1>1, <1>3, <1>6, <2>1
  <2> HIDE DEF S
  <2>5. PICK q, x : q = h[k] /\ x = s[m + (k + 1)]
    OBVIOUS
  <2>6. q \in Seq(Key) /\ LastIsBest(q) /\ x \in Key /\ h[k + 1] = Place(q, x)
    BY <2>4, <2>5 DEF BestLast
  <2>7. /\ Best(k + 1) \in {Best(k), x} /\ ~ KeyLess(Best(k + 1), x) /\ ~ KeyLess(Best(k + 1), Best(k))
    BY <2>5, <2>6, PlaceKeepsBest
  <2> HIDE DEF Best
  <2>8. \E i \in 1 .. n : Best(k + 1) = s[i]
    BY <2>1, <2>2, <2>5, <2>7
  <2>9. Best(k) \in Key /\ Best(k + 1) \in Key
    BY <1>1, <2>2, <2>8
  <2>10. ASSUME NEW i \in 1 .. m + (k + 1) PROVE ~ KeyLess(Best(k + 1), s[i])
    <3>1. CASE i = m + (k + 1)
      BY <2>5, <2>7, <3>1
    <3>2. CASE i # m + (k + 1)
      <4>1. i \in 1 .. m + k /\ i \in 1 .. n
        BY <1>1, <2>1, <3>2
      <4>2. ~ KeyLess(Best(k), s[i]) /\ s[i] \in Key
        BY <1>1, <2>3, <4>1
      <4> QED BY <2>7, <2>9, <4>2, KeyOrder
    <3> QED BY <3>1, <3>2
  <2> QED BY <2>8, <2>10
<1> HIDE DEF S
<1>10. n - m \in Nat /\ m + (n - m) = n
  BY <1>1
<1>11. n - m \in S
  BY <1>8, <1>9, <1>10, AllNumbers
<1>12. /\ \E i \in 1 .. n : Best(n - m) = s[i]
       /\ \A i \in 1 .. n : ~ KeyLess(Best(n - m), s[i])
  BY <1>10, <1>11 DEF S
<1>13. Best(n - m) = Last(PythonSort(s))
  BY <1>3, <1>6, <1>7 DEF Last
<1> QED BY <1>1, <1>12, <1>13

(* What is kept of a list are its elements that are in the set.            *)
LEMMA KeptIs ==
  ASSUME NEW E, NEW s \in Seq(E), NEW S
  PROVE  Kept(s, S) \in Seq(E) /\ ToSet(Kept(s, S)) = ToSet(s) \cap S
<1>a. PICK h : KeepsOf(h, s, S, E)
  BY KeptSteps
<1>1. /\ h \in [0 .. Len(s) -> Seq(E)]
      /\ h[0] = <<>> /\ h[Len(s)] = Kept(s, S)
      /\ \A k \in 1 .. Len(s) : h[k] = IF s[k] \in S THEN Append(h[k - 1], s[k]) ELSE h[k - 1]
  BY <1>a DEF KeepsOf
<1>2. Len(s) \in Nat /\ DOMAIN s = 1 .. Len(s) /\ \A k \in 1 .. Len(s) : s[k] \in E
  OBVIOUS
<1> DEFINE N == {k \in Nat : k <= Len(s) => ToSet(h[k]) = {s[i] : i \in 1 .. k} \cap S}
<1>3. 0 \in N
  <2>1. {s[i] : i \in 1 .. 0} = {}
    OBVIOUS
  <2>2. ToSet(<<>>) = {}
    BY DEF ToSet
  <2>3. ToSet(h[0]) = {}
    BY <1>1, <2>2
  <2> QED BY <2>1, <2>3
<1>4. ASSUME NEW k \in N PROVE k + 1 \in N
  <2> SUFFICES ASSUME k + 1 <= Len(s)
               PROVE  ToSet(h[k + 1]) = {s[i] : i \in 1 .. k + 1} \cap S
    OBVIOUS
  <2>1. k <= Len(s) /\ k \in 0 .. Len(s) /\ k + 1 \in 1 .. Len(s) /\ (k + 1) - 1 = k
    BY <1>2
  <2>2. PICK r, x : r = h[k] /\ x = s[k + 1]
    OBVIOUS
  <2>3. r \in Seq(E) /\ x \in E /\ ToSet(r) = {s[i] : i \in 1 .. k} \cap S
    <3>1. h[k] \in Seq(E)
      BY <1>1, <2>1
    <3>2. x \in E
      BY <1>2, <2>1, <2>2
    <3>3. ToSet(h[k]) = {s[i] : i \in 1 .. k} \cap S
      BY <2>1
    <3> QED BY <2>2, <3>1, <3>2, <3>3
  <2>4. h[k + 1] = IF x \in S THEN Append(r, x) ELSE r
    BY <1>1, <2>1, <2>2
  <2>5. {s[i] : i \in 1 .. k + 1} = {s[i] : i \in 1 .. k} \cup {x}
    BY <2>1, <2>2
  <2>6. ToSet(Append(r, x)) = ToSet(r) \cup {x}
    <3>1. /\ Len(r) \in Nat /\ DOMAIN r = 1 .. Len(r) /\ DOMAIN Append(r, x) = 1 .. Len(r) + 1
          /\ \A i \in 1 .. Len(r) : Append(r, x)[i] = r[i]
          /\ Append(r, x)[Len(r) + 1] = x
      BY <2>3
    <3>2. 1 .. Len(r) + 1 = (1 .. Len(r)) \cup {Len(r) + 1}
      BY <3>1
    <3> QED BY <3>1, <3>2 DEF ToSet
  <2> QED BY <2>3, <2>4, <2>5, <2>6
<1> HIDE DEF N
<1>5. Len(s) \in N
  BY <1>2, <1>3, <1>4, AllNumbers
<1>6. ToSet(h[Len(s)]) = {s[i] : i \in 1 .. Len(s)} \cap S
  BY <1>2, <1>5 DEF N
<1>7. h[Len(s)] \in Seq(E)
  BY <1>1, <1>2
<1>8. ToSet(s) = {s[i] : i \in 1 .. Len(s)}
  BY <1>2 DEF ToSet
<1>9. h[Len(s)] = Kept(s, S)
  BY <1>1
<1> QED BY <1>6, <1>7, <1>8, <1>9

(* The mean of numbers is one.                                             *)
LEMMA MeanIsNumber ==
  ASSUME NEW card \in [Metrics -> Int \cup {Missing}], IsFiniteSet(Metrics)
  PROVE  MeanScore(card) \in Int
<1> DEFINE has == {m \in DOMAIN card : card[m] # Missing}
           Pass(i) == [T \in SUBSET has |->
                         IF T = {} THEN 0
                         ELSE i[T \ {CHOOSE x \in T : TRUE}] + card[CHOOSE x \in T : TRUE]]
           I == CHOOSE i : i = Pass(i)
           step == [p \in has \X Int |-> p[2] + card[p[1]]]
           pick == [T \in SUBSET has |-> CHOOSE x \in T : TRUE]
<1>1. IsFiniteSet(has) /\ \A m \in has : card[m] \in Int
  <2>1. has \in SUBSET Metrics
    OBVIOUS
  <2>2. \A m \in has : card[m] \in Int
    OBVIOUS
  <2> HIDE DEF has
  <2> QED BY <2>1, <2>2, FS_Subset
<1>2. FoldSet(LAMBDA m, acc : acc + card[m], 0, has) = I[has]
  BY DEF FoldSet, MapThenFoldSet
<1> HIDE DEF has
<1>3. step \in [has \X Int -> Int] /\ \A m \in has : \A k \in Int : step[<<m, k>>] = k + card[m]
  BY <1>1
<1>4. \A T \in SUBSET has : pick[T] = (CHOOSE x \in T : TRUE) /\ (T # {} => pick[T] \in T)
  OBVIOUS
<1> HIDE DEF step, pick
<1>5. PICK g : FoldsSets(g, has, Int, 0, step, pick)
  <2>1. 0 \in Int
    OBVIOUS
  <2> QED BY <1>1, <1>3, <1>4, <2>1, FoldExists
<1>6. g = Pass(g)
  <2>1. ASSUME NEW T \in SUBSET has, T # {}
        PROVE  g[T] = g[T \ {CHOOSE x \in T : TRUE}] + card[CHOOSE x \in T : TRUE]
    <3>1. PICK x : x = pick[T]
      OBVIOUS
    <3>2. x = (CHOOSE y \in T : TRUE) /\ x \in has /\ T \ {x} \in SUBSET has
      BY <1>4, <2>1, <3>1
    <3>3. g[T] = step[<<x, g[T \ {x}]>>] /\ g[T \ {x}] \in Int
      BY <1>5, <2>1, <3>1, <3>2 DEF FoldsSets
    <3> QED BY <1>3, <3>2, <3>3
  <2>2. g \in [SUBSET has -> Int] /\ g[{}] = 0
    BY <1>5 DEF FoldsSets
  <2> QED BY <2>1, <2>2
<1>7. I = Pass(I)
  BY <1>6
<1> HIDE DEF I
<1>8. ASSUME NEW T \in SUBSET has
      PROVE  \/ T = {} /\ I[T] = 0
             \/ \E x \in T : I[T] = I[T \ {x}] + card[x]
  <2>1. CASE T = {}
    BY <1>7, <2>1
  <2>2. CASE T # {}
    <3>1. I[T] = I[T \ {CHOOSE x \in T : TRUE}] + card[CHOOSE x \in T : TRUE]
      BY <1>7, <2>2
    <3>2. (CHOOSE x \in T : TRUE) \in T
      BY <2>2
    <3> QED BY <3>1, <3>2
  <2> QED BY <2>1, <2>2
<1> DEFINE S == {k \in Nat : \A T \in SUBSET has : Cardinality(T) = k => I[T] \in Int}
<1>9. \A T \in SUBSET has : IsFiniteSet(T) /\ Cardinality(T) \in Nat
  BY <1>1, FS_Subset, FS_CardinalityType
<1>10. 0 \in S
  <2> SUFFICES ASSUME NEW T \in SUBSET has, Cardinality(T) = 0 PROVE I[T] \in Int
    OBVIOUS
  <2>1. T = {}
    BY <1>9, FS_EmptySet
  <2> QED BY <1>8, <2>1
<1>11. ASSUME NEW k \in S PROVE k + 1 \in S
  <2> SUFFICES ASSUME NEW T \in SUBSET has, Cardinality(T) = k + 1 PROVE I[T] \in Int
    OBVIOUS
  <2>1. T # {}
    BY FS_EmptySet
  <2>2. PICK x \in T : I[T] = I[T \ {x}] + card[x]
    BY <1>8, <2>1
  <2>3. Cardinality(T \ {x}) = Cardinality(T) - 1
    BY <1>9, FS_RemoveElement
  <2>4. Cardinality(T \ {x}) = k /\ T \ {x} \in SUBSET has
    BY <2>3
  <2> QED BY <1>1, <2>2, <2>4
<1> HIDE DEF S
<1>12. Nat \subseteq S
  BY <1>10, <1>11, AllNumbers
<1>13. I[has] \in Int
  <2>1. Cardinality(has) \in S
    BY <1>9, <1>12
  <2> QED BY <2>1 DEF S
<1>14. has # {} => Cardinality(has) \in Nat \ {0}
  BY <1>1, <1>9, FS_EmptySet
<1>15. \A a \in Int : \A d \in Nat \ {0} : (60 * a) \div d \in Int
  OBVIOUS
<1>16. \A m \in has : card[m] # NaN
  BY <1>1, NoScores
<1>17. MeanScore(card) = IF has = {} THEN 0 ELSE (60 * I[has]) \div Cardinality(has)
  <2>1. MeanScore(card) = IF has = {} THEN 0
                          ELSE (60 * FoldSet(LAMBDA m, acc : acc + card[m], 0, has)) \div Cardinality(has)
    BY <1>16 DEF MeanScore, has
  <2> QED BY <1>2, <2>1
<1>18. CASE has = {}
  BY <1>17, <1>18
<1>19. CASE has # {}
  <2>1. PICK a, d : a = I[has] /\ d = Cardinality(has)
    OBVIOUS
  <2>2. a \in Int /\ d \in Nat \ {0}
    BY <1>13, <1>14, <1>19, <2>1
  <2>3. MeanScore(card) = (60 * a) \div d
    BY <1>17, <1>19, <2>1
  <2> QED BY <1>15, <2>2, <2>3
<1> QED BY <1>18, <1>19

(* What a benchmark says of a model when every score is a number.          *)
Scorecard == [error : BOOLEAN, scores : [Metrics -> Int \cup {Missing}], name : Int]

(* The champion of scorecards of numbers is the best of them.              *)
LEMMA BestOfNumbers ==
  ASSUME NEW cards \in Seq(Scorecard), NEW primary \in Metrics
  PROVE  ChampionIsBest(cards, primary)
<1> DEFINE n == Len(cards)
           ids == [i \in DOMAIN cards |-> i]
           S == {i \in DOMAIN cards : ~ cards[i].error}
           ok == Kept(ids, S)
           Prim(i) == IF cards[i].scores[primary] = Missing THEN -1 ELSE cards[i].scores[primary]
           Mean(i) == MeanScore(cards[i].scores)
           KeyOf(i) == [primary |-> Prim(i), mean |-> Mean(i), name |-> cards[i].name, index |-> i]
           keys == RankKeys(cards, primary)
           rev == Reverse(keys)
<1>1. /\ n \in Nat /\ DOMAIN cards = 1 .. n
      /\ \A i \in 1 .. n : cards[i] \in Scorecard
  OBVIOUS
<1>2. \A c \in Scorecard : c.error \in BOOLEAN /\ c.name \in Int
                           /\ c.scores \in [Metrics -> Int \cup {Missing}]
  BY DEF Scorecard
<1>3. ASSUME NEW i \in 1 .. n
      PROVE  cards[i].name \in Int /\ Mean(i) \in Int /\ Prim(i) \in Int
             /\ cards[i].scores[primary] # NaN
  <2>1. cards[i].name \in Int /\ cards[i].scores \in [Metrics -> Int \cup {Missing}]
    BY <1>1, <1>2
  <2>2. Mean(i) \in Int
    BY <2>1, MeanIsNumber, AlgorithmConstants
  <2>3. cards[i].scores[primary] \in Int \cup {Missing}
    BY <2>1
  <2> QED BY <2>1, <2>2, <2>3, NoScores
<1>4. S \subseteq 1 .. n /\ \A i \in 1 .. n : i \in S <=> ~ cards[i].error
  BY <1>1
<1>5. ok \in Seq(1 .. n) /\ ToSet(ok) = S
  <2>1. ids \in Seq(1 .. n) /\ ToSet(ids) = 1 .. n
    BY <1>1 DEF ToSet
  <2> HIDE DEF ids
  <2>2. ok \in Seq(1 .. n) /\ ToSet(ok) = ToSet(ids) \cap S
    BY <2>1, KeptIs
  <2> QED BY <1>4, <2>1, <2>2
<1>6. keys = [k \in DOMAIN ok |-> KeyOf(ok[k])]
  BY DEF RankKeys
<1>7. \A i \in 1 .. n : KeyOf(i) \in Key /\ KeyOf(i).primary = Prim(i)
                        /\ KeyOf(i).mean = Mean(i) /\ KeyOf(i).index = i
  BY <1>1, <1>3 DEF Key
<1> HIDE DEF ids, S, ok, KeyOf, keys
<1>8. /\ Len(ok) \in Nat /\ DOMAIN ok = 1 .. Len(ok) /\ \A k \in 1 .. Len(ok) : ok[k] \in 1 .. n
      /\ S = {ok[k] : k \in 1 .. Len(ok)}
  BY <1>5 DEF ToSet
<1>9. keys \in Seq(Key) /\ Len(keys) = Len(ok) /\ \A k \in 1 .. Len(ok) : keys[k] = KeyOf(ok[k])
  BY <1>6, <1>7, <1>8
<1>10. /\ rev \in Seq(Key) /\ Len(rev) = Len(ok)
       /\ \A k \in 1 .. Len(ok) : rev[k] = KeyOf(ok[Len(ok) - k + 1])
  <2>1. rev = [k \in 1 .. Len(keys) |-> keys[(Len(keys) - k) + 1]]
    BY DEF Reverse
  <2>2. \A k \in 1 .. Len(ok) : (Len(ok) - k) + 1 \in 1 .. Len(ok)
    BY <1>8
  <2> HIDE DEF rev
  <2>3. \A k \in 1 .. Len(ok) : rev[k] = KeyOf(ok[Len(ok) - k + 1]) /\ rev[k] \in Key
    BY <1>7, <1>8, <1>9, <2>1, <2>2
  <2> QED BY <1>8, <1>9, <2>1, <2>3
<1> HIDE DEF rev
<1>11. CASE \A i \in DOMAIN cards : cards[i].error
  <2>1. S = {}
    BY <1>4, <1>11
  <2>2. Len(ok) = 0
    <3>1. ASSUME Len(ok) # 0 PROVE FALSE
      <4>1. 1 \in 1 .. Len(ok)
        BY <1>8, <3>1
      <4> QED BY <1>8, <2>1, <4>1
    <3> QED BY <3>1
  <2>3. keys = <<>>
    BY <1>9, <2>2
  <2>4. SelectChampion(cards, primary) = 0
    BY <2>3 DEF SelectChampion, keys
  <2> QED BY <1>11, <2>4 DEF ChampionIsBest
<1>12. CASE \E i \in DOMAIN cards : ~ cards[i].error
  <2>1. Len(ok) # 0
    BY <1>1, <1>4, <1>8, <1>12
  <2>2. rev # <<>> /\ keys # <<>> /\ DOMAIN rev = 1 .. Len(ok)
    BY <1>9, <1>10, <2>1
  <2>3. PICK b : b = Last(PythonSort(rev))
    OBVIOUS
  <2>4. PICK i \in 1 .. Len(ok) : b = rev[i]
    BY <1>10, <2>2, <2>3, SortEndsBest
  <2>5. \A j \in 1 .. Len(ok) : ~ KeyLess(b, rev[j])
    BY <1>10, <2>2, <2>3, SortEndsBest
  <2>6. PICK c \in S : b = KeyOf(c)
    <3>1. Len(ok) - i + 1 \in 1 .. Len(ok)
      BY <1>8
    <3> QED BY <1>8, <1>10, <2>4, <3>1
  <2>7. c \in 1 .. n /\ ~ cards[c].error
    BY <1>4
  <2>8. SelectChampion(cards, primary) = c
    <3>1. SelectChampion(cards, primary) = b.index
      BY <2>2, <2>3 DEF SelectChampion, keys, rev
    <3> QED BY <1>7, <2>6, <2>7, <3>1
  <2>9. ASSUME NEW j \in S
        PROVE  \/ Prim(j) < Prim(c)
               \/ Prim(j) = Prim(c) /\ Mean(j) <= Mean(c)
    <3>1. PICK k \in 1 .. Len(ok) : ok[k] = j
      BY <1>8
    <3>2. Len(ok) - k + 1 \in 1 .. Len(ok) /\ Len(ok) - (Len(ok) - k + 1) + 1 = k
      BY <1>8
    <3>3. ~ KeyLess(KeyOf(c), KeyOf(j))
      BY <1>10, <2>5, <2>6, <3>1, <3>2
    <3>4. j \in 1 .. n
      BY <1>4
    <3>5. PICK x, y : x = KeyOf(c) /\ y = KeyOf(j)
      OBVIOUS
    <3>6. x \in Key /\ y \in Key /\ ~ KeyLess(x, y)
      BY <1>7, <2>7, <3>3, <3>4, <3>5
    <3>7. y.primary < x.primary \/ (y.primary = x.primary /\ y.mean <= x.mean)
      BY <3>6, NoScores DEF Key, KeyLess
    <3>8. /\ x.primary = Prim(c) /\ x.mean = Mean(c)
          /\ y.primary = Prim(j) /\ y.mean = Mean(j)
      BY <1>7, <2>7, <3>4, <3>5
    <3> QED BY <3>7, <3>8
  <2>10. \A j \in 1 .. n : cards[j].scores[primary] \in {Missing, NaN} <=> cards[j].scores[primary] = Missing
    BY <1>3
  <2>11. c # 0
    BY <1>1, <2>7
  <2>12. ASSUME NEW j \in DOMAIN cards, ~ cards[j].error
         PROVE  LET Primary(i_1) == IF cards[i_1].scores[primary] \in {Missing, NaN} THEN -1
                                  ELSE cards[i_1].scores[primary] IN
                \/ Primary(j) < Primary(c)
                \/ Primary(j) = Primary(c) /\ (Mean(j) = NaN \/ Mean(c) = NaN \/ Mean(j) <= Mean(c))
    <3>1. j \in S /\ j \in 1 .. n
      BY <1>1, <1>4, <2>12
    <3> QED BY <2>7, <2>9, <2>10, <3>1
  <2> QED BY <1>12, <2>7, <2>8, <2>11, <2>12 DEF ChampionIsBest
<1> QED BY <1>11, <1>12

(* Whatever scorecards of numbers a benchmark ends with, select_champion   *)
(* picks the best by the primary metric, and of equals by the mean.        *)
THEOREM ChampionAlwaysBest == CallsSpec => []PicksBestOfNumbers
<1>1. CallsInit => PicksBestOfNumbers
  BY DEF CallsInit, NoCall, PicksBestOfNumbers, PicksBest
<1>2. ASSUME PicksBestOfNumbers, [CallsNext]_call PROVE PicksBestOfNumbers'
  <2>1. CASE UNCHANGED call
    BY <1>2, <2>1 DEF PicksBestOfNumbers, PicksBest
  <2>2. CASE CallsNext /\ call'.of # "champion"
    BY <2>2 DEF PicksBestOfNumbers, PicksBest
  <2>3. CASE CallsNext /\ call'.of = "champion"
    <3> DEFINE Card == [error : BOOLEAN, scores : [Metrics -> Int \cup {Missing, NaN}], name : Int]
    <3>1. PICK cards \in Seq(Card) : call' = [of |-> "champion", cards |-> cards]
      <4>1. CASE Compare
        <5>1. PICK cards \in SeqOf(Cards(Marks \cup {Missing, NaN}), 2) :
                 call' = [of |-> "champion", cards |-> cards]
          BY <4>1 DEF Compare
        <5>2. Cards(Marks \cup {Missing, NaN}) \subseteq Card
          <6>1. [Metrics -> Marks \cup {Missing, NaN}] \subseteq [Metrics -> Int \cup {Missing, NaN}]
            BY AlgorithmConstants
          <6>2. 1 .. 2 \subseteq Int
            OBVIOUS
          <6> QED BY ONLY <6>1, <6>2 DEF Cards
        <5>3. cards \in Seq(Card)
          <6> HIDE DEF Card
          <6> QED BY <5>1, <5>2, SeqOfTyped
        <5> QED BY <5>1, <5>3
      <4>2. CASE CompareFinite
        <5> DEFINE Named(cards) == [i \in DOMAIN cards |->
                                      [cards[i] EXCEPT !.name = (i % 3) + cards[1].name]]
        <5>1. PICK cards \in SeqOf(Cards(Marks), 3) :
                 call' = [of |-> "champion", cards |-> Named(cards)]
          BY <4>2 DEF CompareFinite
        <5>2. Cards(Marks) \subseteq Card /\ \A c \in Card : c.name \in Int
              /\ \A d \in Card : \A k \in Int : [d EXCEPT !.name = k] \in Card
          BY AlgorithmConstants DEF Cards
        <5> HIDE DEF Card
        <5>3. cards \in Seq(Card)
          BY <5>1, <5>2, SeqOfTyped
        <5>4. ASSUME NEW i \in 1 .. Len(cards) PROVE Named(cards)[i] \in Card
          <6>1. cards[i] \in Card /\ cards[1] \in Card /\ i \in Int /\ i % 3 \in Int
                /\ i \in DOMAIN cards
            BY <5>3
          <6>2. PICK c, k : c = cards[i] /\ k = (i % 3) + cards[1].name
            OBVIOUS
          <6>3. k \in Int
            BY <5>2, <6>1, <6>2
          <6>4. Named(cards)[i] = [c EXCEPT !.name = k]
            BY <6>1, <6>2
          <6> QED BY <5>2, <6>1, <6>2, <6>3, <6>4
        <5>5. Named(cards) \in Seq(Card)
          <6>1. Len(cards) \in Nat /\ DOMAIN cards = 1 .. Len(cards)
            BY <5>3
          <6>2. PICK named : named = Named(cards)
            OBVIOUS
          <6>3. named = [i \in 1 .. Len(cards) |-> named[i]] /\ \A i \in 1 .. Len(cards) : named[i] \in Card
            BY <5>4, <6>1, <6>2
          <6>4. named \in Seq(Card)
            BY <6>1, <6>3
          <6> QED BY <6>2, <6>4
        <5> QED BY <5>1, <5>5
      <4> QED BY <2>3, <4>1, <4>2, CallsMade
    <3>2. call'.cards = cards
      BY <3>1
    <3>3. ASSUME \A i \in DOMAIN cards : \A m \in Metrics : cards[i].scores[m] # NaN
          PROVE  ChampionIsBest(cards, "answer_correctness")
      <4>1. ASSUME NEW i \in 1 .. Len(cards) PROVE cards[i] \in Scorecard
        <5>1. PICK c \in Card : c = cards[i]
          <6> HIDE DEF Card
          <6> QED OBVIOUS
        <5>2. \A m \in Metrics : c.scores[m] # NaN
          <6> HIDE DEF Card
          <6> QED BY <3>3, <5>1
        <5>3. c.scores \in [Metrics -> Int \cup {Missing}]
          BY <5>2
        <5>4. c = [error |-> c.error, scores |-> c.scores, name |-> c.name]
              /\ c.error \in BOOLEAN /\ c.name \in Int
          OBVIOUS
        <5> QED BY <5>1, <5>3, <5>4 DEF Scorecard
      <4> HIDE DEF Card
      <4>2. cards \in Seq(Scorecard)
        BY <4>1
      <4> QED BY <4>2, BestOfNumbers, AlgorithmConstants
    <3> HIDE DEF Card
    <3> QED BY <3>2, <3>3 DEF PicksBestOfNumbers, PicksBest
  <2> QED BY <1>2, <2>1, <2>2, <2>3
<1> QED BY <1>1, <1>2, PTL DEF CallsSpec
-----------------------------------------------------------------------------
(* h[k]: what a list is when the first k elements of another one were      *)
(* appended to it, those it had already not again.                         *)
NewOf(h, r, s, E) ==
  /\ h \in [0 .. Len(s) -> Seq(E)]
  /\ h[0] = r /\ h[Len(s)] = AppendNew(r, s)
  /\ \A k \in 1 .. Len(s) :
       h[k] = IF Contains(h[k - 1], s[k]) THEN h[k - 1] ELSE Append(h[k - 1], s[k])

(* AppendNew goes through such lists.                                      *)
LEMMA AppendNewSteps ==
  ASSUME NEW E, NEW first \in Seq(E), NEW s \in Seq(E)
  PROVE  \E h : NewOf(h, first, s, E)
<1> DEFINE n == Len(s)
           V == Seq(E)
           Op(r, x) == IF Contains(r, x) THEN r ELSE Append(r, x)
           step == [p \in (1 .. n) \X V |-> Op(p[2], s[p[1]])]
           Pass(i) == [T \in SUBSET DOMAIN s |->
                         IF T = {} THEN first ELSE Op(i[T \ {Max(T)}], s[Max(T)])]
           I == CHOOSE i : i = Pass(i)
           pick == [T \in SUBSET (1 .. n) |-> Max(T)]
<1>1. n \in Nat /\ DOMAIN s = 1 .. n /\ first \in V /\ \A k \in 1 .. n : s[k] \in E
  OBVIOUS
<1>2. \A r \in V : \A x \in E : Op(r, x) \in V
  OBVIOUS
<1>3. AppendNew(first, s) = I[1 .. n]
  BY <1>1 DEF AppendNew, FoldLeft, MapThenFoldSet
<1> HIDE DEF V, n, Op
<1>4. step \in [(1 .. n) \X V -> V] /\ \A k \in 1 .. n : \A r \in V : step[<<k, r>>] = Op(r, s[k])
  BY <1>1, <1>2
<1>5. \A T \in SUBSET (1 .. n) : T # {} => Max(T) \in T /\ pick[T] = Max(T)
  BY <1>1, MaxOfPositions
<1> HIDE DEF step, pick
<1>6. IsFiniteSet(1 .. n)
  <2>1. 1 \in Int /\ n \in Int
    BY <1>1
  <2> QED BY <2>1, FS_Interval
<1>7. PICK g : FoldsSets(g, 1 .. n, V, first, step, pick)
  BY <1>1, <1>4, <1>5, <1>6, FoldExists
<1>8. g = Pass(g)
  <2>1. ASSUME NEW T \in SUBSET DOMAIN s
        PROVE  g[T] = IF T = {} THEN first ELSE Op(g[T \ {Max(T)}], s[Max(T)])
    <3>1. CASE T = {}
      BY <1>1, <1>7, <3>1 DEF FoldsSets
    <3>2. CASE T # {}
      <4>1. Max(T) \in 1 .. n /\ T \ {Max(T)} \in SUBSET (1 .. n)
        BY <1>1, <1>5, <3>2
      <4>2. g[T] = step[<<Max(T), g[T \ {Max(T)}]>>] /\ g[T \ {Max(T)}] \in V
        BY <1>1, <1>5, <1>7, <3>2, <4>1 DEF FoldsSets
      <4> QED BY <1>4, <3>2, <4>1, <4>2
    <3> QED BY <3>1, <3>2
  <2>2. g \in [SUBSET DOMAIN s -> V]
    BY <1>1, <1>7 DEF FoldsSets
  <2> QED BY <2>1, <2>2
<1>9. I = Pass(I)
  BY <1>8
<1> HIDE DEF I
<1>10. I[{}] = first
  BY <1>9
<1>11. \A T \in SUBSET (1 .. n) :
          T # {} /\ I[T \ {Max(T)}] \in V => I[T] = step[<<Max(T), I[T \ {Max(T)}]>>]
  <2> TAKE T \in SUBSET (1 .. n)
  <2> HAVE T # {} /\ I[T \ {Max(T)}] \in V
  <2>1. I[T] = Op(I[T \ {Max(T)}], s[Max(T)])
    BY <1>1, <1>9
  <2>2. Max(T) \in 1 .. n
    BY <1>5
  <2> QED BY <1>4, <2>1, <2>2
<1>12. PICK h : FoldsSeq(h, n, V, first, step, I[1 .. n])
  BY <1>1, <1>4, <1>10, <1>11, FoldSteps
<1>13. h \in [0 .. n -> V] /\ h[0] = first /\ h[n] = AppendNew(first, s)
  BY <1>3, <1>12 DEF FoldsSeq
<1>14. ASSUME NEW k \in 1 .. n PROVE h[k] = Op(h[k - 1], s[k])
  <2>1. k - 1 \in 0 .. n
    BY <1>1
  <2> QED BY <1>4, <1>12, <1>13, <2>1 DEF FoldsSeq
<1> QED BY <1>13, <1>14 DEF n, V, Op, NewOf

(* One element more.                                                       *)
LEMMA AppendOne ==
  ASSUME NEW E, NEW r \in Seq(E), NEW x \in E
  PROVE  LET q == IF Contains(r, x) THEN r ELSE Append(r, x) IN
         /\ q \in Seq(E) /\ ToSet(q) = ToSet(r) \cup {x}
         /\ IsInjective(r) => IsInjective(q)
         /\ Len(r) <= Len(q) /\ \A k \in 1 .. Len(r) : q[k] = r[k]
         /\ \A k \in 1 .. Len(q) : k > Len(r) => \A j \in 1 .. k - 1 : q[k] # q[j]
<1>1. Len(r) \in Nat /\ DOMAIN r = 1 .. Len(r) /\ \A k \in 1 .. Len(r) : r[k] \in E
  OBVIOUS
<1>2. CASE Contains(r, x)
  <2>1. x \in ToSet(r)
    BY <1>1, <1>2 DEF Contains, ToSet
  <2> QED BY <1>1, <1>2, <2>1
<1>3. CASE ~ Contains(r, x)
  <2>1. PICK q : q = Append(r, x)
    OBVIOUS
  <2>2. /\ q \in Seq(E) /\ Len(q) = Len(r) + 1 /\ DOMAIN q = 1 .. Len(r) + 1
        /\ \A k \in 1 .. Len(r) : q[k] = r[k]
        /\ q[Len(r) + 1] = x
    BY <1>1, <2>1
  <2>3. 1 .. Len(r) + 1 = (1 .. Len(r)) \cup {Len(r) + 1}
    BY <1>1
  <2>4. ToSet(q) = ToSet(r) \cup {x}
    BY <1>1, <2>2, <2>3 DEF ToSet
  <2>5. \A k \in 1 .. Len(r) : r[k] # x
    BY <1>3 DEF Contains
  <2>6. IsInjective(r) => IsInjective(q)
    <3> SUFFICES ASSUME IsInjective(r), NEW i \in DOMAIN q, NEW j \in DOMAIN q, q[i] = q[j] PROVE i = j
      BY DEF IsInjective
    <3>1. i \in 1 .. Len(r) \/ i = Len(r) + 1
      BY <2>2, <2>3
    <3>2. j \in 1 .. Len(r) \/ j = Len(r) + 1
      BY <2>2, <2>3
    <3>3. \A k, l \in 1 .. Len(r) : r[k] = r[l] => k = l
      BY <1>1 DEF IsInjective
    <3> QED BY <2>2, <2>5, <3>1, <3>2, <3>3
  <2>7. Len(r) <= Len(q)
    BY <1>1, <2>2
  <2>8. ASSUME NEW k \in 1 .. Len(q), k > Len(r), NEW j \in 1 .. k - 1 PROVE q[k] # q[j]
    <3>1. k = Len(r) + 1 /\ j \in 1 .. Len(r)
      BY <1>1, <2>2, <2>8
    <3> QED BY <2>2, <2>5, <3>1
  <2> QED BY <1>3, <2>1, <2>2, <2>4, <2>6, <2>7, <2>8
<1> QED BY <1>2, <1>3

(* A list with the new elements of another appended has those of both, in  *)
(* front what it had, behind that only elements that were not yet there.   *)
LEMMA AppendNewIs ==
  ASSUME NEW E, NEW r \in Seq(E), NEW s \in Seq(E)
  PROVE  /\ AppendNew(r, s) \in Seq(E)
         /\ ToSet(AppendNew(r, s)) = ToSet(r) \cup ToSet(s)
         /\ IsInjective(r) => IsInjective(AppendNew(r, s))
         /\ Len(r) <= Len(AppendNew(r, s))
         /\ \A k \in 1 .. Len(r) : AppendNew(r, s)[k] = r[k]
         /\ \A k \in 1 .. Len(AppendNew(r, s)) :
              k > Len(r) => \A j \in 1 .. k - 1 : AppendNew(r, s)[k] # AppendNew(r, s)[j]
<1>1. PICK h : NewOf(h, r, s, E)
  BY AppendNewSteps
<1>2. /\ h \in [0 .. Len(s) -> Seq(E)]
      /\ h[0] = r /\ h[Len(s)] = AppendNew(r, s)
      /\ \A k \in 1 .. Len(s) :
           h[k] = IF Contains(h[k - 1], s[k]) THEN h[k - 1] ELSE Append(h[k - 1], s[k])
  BY <1>1 DEF NewOf
<1>3. Len(s) \in Nat /\ Len(r) \in Nat /\ DOMAIN s = 1 .. Len(s) /\ \A k \in 1 .. Len(s) : s[k] \in E
  OBVIOUS
<1> DEFINE Good(q, k) == /\ q \in Seq(E)
                         /\ ToSet(q) = ToSet(r) \cup {s[i] : i \in 1 .. k}
                         /\ IsInjective(r) => IsInjective(q)
                         /\ Len(r) <= Len(q)
                         /\ \A i \in 1 .. Len(r) : q[i] = r[i]
                         /\ \A i \in 1 .. Len(q) : i > Len(r) => \A j \in 1 .. i - 1 : q[i] # q[j]
           N == {k \in Nat : k <= Len(s) => Good(h[k], k)}
<1>4. 0 \in N
  <2>1. {s[i] : i \in 1 .. 0} = {}
    OBVIOUS
  <2>2. Good(r, 0)
    BY <1>3, <2>1
  <2> HIDE DEF Good
  <2> QED BY <1>2, <2>2
<1>5. ASSUME NEW k \in N PROVE k + 1 \in N
  <2> SUFFICES ASSUME k + 1 <= Len(s) PROVE Good(h[k + 1], k + 1)
    OBVIOUS
  <2>1. k <= Len(s) /\ k \in 0 .. Len(s) /\ k + 1 \in 1 .. Len(s) /\ (k + 1) - 1 = k
    BY <1>3
  <2>2. PICK p, x : p = h[k] /\ x = s[k + 1]
    OBVIOUS
  <2>3. x \in E
    BY <1>3, <2>1, <2>2
  <2>4. Good(p, k)
    <3> HIDE DEF Good
    <3> QED BY <2>1, <2>2
  <2>5. h[k + 1] = IF Contains(p, x) THEN p ELSE Append(p, x)
    BY <1>2, <2>1, <2>2
  <2>6. {s[i] : i \in 1 .. k + 1} = {s[i] : i \in 1 .. k} \cup {x}
    BY <2>1, <2>2
  <2>7. PICK q : q = IF Contains(p, x) THEN p ELSE Append(p, x)
    OBVIOUS
  <2>8. /\ q \in Seq(E) /\ ToSet(q) = ToSet(p) \cup {x}
        /\ IsInjective(p) => IsInjective(q)
        /\ Len(p) <= Len(q) /\ \A i \in 1 .. Len(p) : q[i] = p[i]
        /\ \A i \in 1 .. Len(q) : i > Len(p) => \A j \in 1 .. i - 1 : q[i] # q[j]
    BY <2>3, <2>4, <2>7, AppendOne
  <2>9. Len(r) <= Len(q) /\ \A i \in 1 .. Len(r) : q[i] = r[i]
    <3>1. Len(p) \in Nat /\ Len(q) \in Nat /\ Len(r) <= Len(p) /\ \A i \in 1 .. Len(r) : p[i] = r[i]
      BY <2>4, <2>8
    <3> QED BY <1>3, <2>8, <3>1
  <2>10. ASSUME NEW i \in 1 .. Len(q), i > Len(r), NEW j \in 1 .. i - 1 PROVE q[i] # q[j]
    <3>1. Len(p) \in Nat /\ \A l \in 1 .. Len(p) : l > Len(r) => \A m \in 1 .. l - 1 : p[l] # p[m]
      BY <2>4
    <3>2. CASE i > Len(p)
      BY <2>8, <3>2
    <3>3. CASE ~ (i > Len(p))
      <4>1. i \in 1 .. Len(p) /\ j \in 1 .. Len(p)
        BY <3>1, <3>3
      <4>2. q[i] = p[i] /\ q[j] = p[j]
        BY <2>8, <4>1
      <4> QED BY <2>10, <3>1, <4>1, <4>2
    <3> QED BY <3>2, <3>3
  <2>11. Good(q, k + 1)
    BY <2>4, <2>6, <2>8, <2>9, <2>10
  <2> QED BY <2>5, <2>7, <2>11
<1> HIDE DEF N
<1>6. Nat \subseteq N
  BY <1>4, <1>5, AllNumbers
<1>7. Len(s) \in N
  BY <1>3, <1>6
<1>8. Good(h[Len(s)], Len(s))
  BY <1>3, <1>7 DEF N
<1>9. ToSet(s) = {s[i] : i \in 1 .. Len(s)}
  BY <1>3 DEF ToSet
<1> QED BY <1>2, <1>8, <1>9

(* A list has no more elements than places, and as many if it repeats none.*)
LEMMA ElementsOfList ==
  ASSUME NEW E, NEW s \in Seq(E)
  PROVE  /\ IsFiniteSet(ToSet(s)) /\ Cardinality(ToSet(s)) \in Nat
         /\ Cardinality(ToSet(s)) <= Len(s)
         /\ IsInjective(s) => Cardinality(ToSet(s)) = Len(s)
<1>1. Len(s) \in Nat /\ DOMAIN s = 1 .. Len(s)
  OBVIOUS
<1>2. IsFiniteSet(1 .. Len(s)) /\ Cardinality(1 .. Len(s)) = Len(s)
  <2>1. 1 \in Int /\ Len(s) \in Int
    BY <1>1
  <2> QED BY <1>1, <2>1, FS_Interval
<1>3. s \in [1 .. Len(s) -> ToSet(s)] /\ \A x \in ToSet(s) : \E i \in 1 .. Len(s) : s[i] = x
  BY <1>1 DEF ToSet
<1>4. s \in Surjection(1 .. Len(s), ToSet(s))
  BY <1>3 DEF Surjection
<1>5. /\ IsFiniteSet(ToSet(s)) /\ Cardinality(ToSet(s)) <= Len(s)
      /\ Cardinality(ToSet(s)) = Len(s) <=> s \in Injection(1 .. Len(s), ToSet(s))
  BY <1>2, <1>4, FS_Surjection
<1>6. IsInjective(s) => s \in Injection(1 .. Len(s), ToSet(s))
  BY <1>3 DEF Injection, IsInjective
<1> QED BY <1>5, <1>6, FS_CardinalityType
-----------------------------------------------------------------------------
(* f[i]: the first i of some lists, one behind another.                    *)
FlatOf(f, ss, E) ==
  /\ f \in [1 .. Len(ss) -> Seq(E)]
  /\ f[Len(ss)] = FlattenSeq(ss)
  /\ \A i \in 1 .. Len(ss) : f[i] = IF i = 1 THEN ss[i] ELSE f[i - 1] \o ss[i]

(* FlattenSeq goes through such lists.                                     *)
LEMMA FlattenSteps ==
  ASSUME NEW E, NEW ss \in Seq(Seq(E)), ss # <<>>
  PROVE  \E f : FlatOf(f, ss, E)
<1> DEFINE n == Len(ss)
           V == Seq(E)
           step == [p \in Nat \X V |-> IF p[1] + 1 \in 1 .. n THEN p[2] \o ss[p[1] + 1] ELSE p[2]]
           Pass(f) == [i \in 1 .. n |-> IF i = 1 THEN ss[i] ELSE f[i - 1] \o ss[i]]
           I == CHOOSE f : f = Pass(f)
<1>1. n \in Nat \ {0} /\ DOMAIN ss = 1 .. n /\ \A i \in 1 .. n : ss[i] \in V
  OBVIOUS
<1>2. \A p \in V : \A q \in V : p \o q \in V
  OBVIOUS
<1>3. <<>> \in V /\ \A q \in V : <<>> \o q = q
  OBVIOUS
<1>4. FlattenSeq(ss) = I[n]
  BY <1>1 DEF FlattenSeq
<1> HIDE DEF n, V
<1>5. step \in [Nat \X V -> V]
      /\ \A k \in Nat : \A q \in V : k + 1 \in 1 .. n => step[<<k, q>>] = q \o ss[k + 1]
  BY <1>1, <1>2
<1> HIDE DEF step
<1>6. PICK c : Iterates(c, V, <<>>, step)
  BY <1>3, <1>5, Recursion
<1>7. c \in [Nat -> V] /\ c[0] = <<>> /\ \A k \in Nat : c[k + 1] = step[<<k, c[k]>>]
  BY <1>6 DEF Iterates
<1>8. ASSUME NEW i \in 1 .. n PROVE c[i] = c[i - 1] \o ss[i]
  <2>1. i - 1 \in Nat /\ (i - 1) + 1 = i /\ c[i - 1] \in V
    BY <1>1, <1>7
  <2> QED BY <1>5, <1>7, <2>1
<1> DEFINE f == [i \in 1 .. n |-> c[i]]
<1>9. f = Pass(f)
  <2>1. ASSUME NEW i \in 1 .. n PROVE f[i] = IF i = 1 THEN ss[i] ELSE f[i - 1] \o ss[i]
    <3>1. CASE i = 1
      <4>1. 1 \in 1 .. n /\ 1 - 1 = 0 /\ ss[1] \in V
        BY <1>1
      <4>2. c[1] = c[0] \o ss[1]
        BY <1>8, <4>1
      <4>3. c[1] = ss[1]
        BY <1>3, <1>7, <4>1, <4>2
      <4> QED BY <3>1, <4>3
    <3>2. CASE i # 1
      <4>1. i - 1 \in 1 .. n
        BY <1>1, <3>2
      <4> QED BY <1>8, <3>2, <4>1
    <3> QED BY <3>1, <3>2
  <2> QED BY <2>1
<1>10. I = Pass(I)
  BY <1>9
<1> HIDE DEF I
<1> DEFINE S == {k \in Nat : k + 1 \in 1 .. n => I[k + 1] \in V}
<1>11. 0 \in S
  BY <1>1, <1>10
<1>12. ASSUME NEW k \in S PROVE k + 1 \in S
  <2> SUFFICES ASSUME (k + 1) + 1 \in 1 .. n PROVE I[(k + 1) + 1] \in V
    OBVIOUS
  <2>1. k + 1 \in 1 .. n /\ (k + 1) + 1 # 1 /\ ((k + 1) + 1) - 1 = k + 1
    BY <1>1
  <2>2. I[k + 1] \in V
    BY <2>1
  <2>3. I[(k + 1) + 1] = I[k + 1] \o ss[(k + 1) + 1]
    BY <1>10, <2>1
  <2> QED BY <1>1, <1>2, <2>2, <2>3
<1> HIDE DEF S
<1>13. Nat \subseteq S
  BY <1>11, <1>12, AllNumbers
<1>14. ASSUME NEW i \in 1 .. n PROVE I[i] \in V
  <2>1. i - 1 \in Nat /\ (i - 1) + 1 = i
    BY <1>1
  <2>2. i - 1 \in S
    BY <1>13, <2>1
  <2> QED BY <2>1, <2>2 DEF S
<1>15. I \in [1 .. n -> V] /\ \A i \in 1 .. n : I[i] = IF i = 1 THEN ss[i] ELSE I[i - 1] \o ss[i]
  BY <1>10, <1>14
<1> QED BY <1>4, <1>15 DEF FlatOf, n, V

(* Two lists, one behind the other.                                        *)
LEMMA TwoLists ==
  ASSUME NEW E, NEW p \in Seq(E), NEW q \in Seq(E)
  PROVE  /\ p \o q \in Seq(E) /\ Len(p \o q) = Len(p) + Len(q)
         /\ \A k \in 1 .. Len(p) : (p \o q)[k] = p[k]
         /\ \A k \in 1 .. Len(q) : (p \o q)[Len(p) + k] = q[k]
OBVIOUS

(* Where the places of a flattened list come from: the k-th place is the   *)
(* column col[k] of the row row[k], and each column of each row has one.   *)
Places(row, col, flat, ss, rows) ==
  /\ row \in [1 .. Len(flat) -> Nat] /\ col \in [1 .. Len(flat) -> Nat]
  /\ \A k \in 1 .. Len(flat) : /\ row[k] \in 1 .. rows
                               /\ col[k] \in 1 .. Len(ss[row[k]])
                               /\ flat[k] = ss[row[k]][col[k]]
  /\ \A i \in 1 .. rows : \A c \in 1 .. Len(ss[i]) :
        \E k \in 1 .. Len(flat) : row[k] = i /\ col[k] = c
  /\ \A k, l \in 1 .. Len(flat) : row[k] = row[l] /\ col[k] = col[l] => k = l

(* One row more.                                                           *)
LEMMA PlacesOfNext ==
  ASSUME NEW E, NEW ss \in Seq(Seq(E)), NEW n \in Nat, n + 1 \in 1 .. Len(ss),
         NEW flat \in Seq(E), NEW row, NEW col, Places(row, col, flat, ss, n)
  PROVE  \E r, c : Places(r, c, flat \o ss[n + 1], ss, n + 1)
<1> DEFINE m == Len(flat)
           q == ss[n + 1]
           more == flat \o q
           r == [k \in 1 .. m + Len(q) |-> IF k <= m THEN row[k] ELSE n + 1]
           c == [k \in 1 .. m + Len(q) |-> IF k <= m THEN col[k] ELSE k - m]
<1>1. m \in Nat /\ q \in Seq(E) /\ Len(q) \in Nat
  OBVIOUS
<1>2. /\ row \in [1 .. m -> Nat] /\ col \in [1 .. m -> Nat]
      /\ \A k \in 1 .. m : row[k] \in 1 .. n /\ col[k] \in 1 .. Len(ss[row[k]])
                           /\ flat[k] = ss[row[k]][col[k]]
      /\ \A i \in 1 .. n : \A x \in 1 .. Len(ss[i]) : \E k \in 1 .. m : row[k] = i /\ col[k] = x
      /\ \A k, l \in 1 .. m : row[k] = row[l] /\ col[k] = col[l] => k = l
  BY DEF Places
<1>3. /\ Len(more) = m + Len(q) /\ \A k \in 1 .. m : more[k] = flat[k]
      /\ \A k \in 1 .. Len(q) : more[m + k] = q[k]
  <2>1. flat \in Seq(E) /\ q \in Seq(E)
    BY <1>1
  <2> HIDE DEF q, r, c
  <2>2. Len(flat \o q) = Len(flat) + Len(q) /\ \A k \in 1 .. Len(flat) : (flat \o q)[k] = flat[k]
    BY <2>1, TwoLists
  <2>3. \A k \in 1 .. Len(q) : (flat \o q)[Len(flat) + k] = q[k]
    BY <2>1, TwoLists
  <2> QED BY <2>2, <2>3
<1>4. \A k \in 1 .. m + Len(q) : k \in 1 .. m \/ (k - m \in 1 .. Len(q) /\ ~ (k <= m) /\ m + (k - m) = k)
  BY <1>1
<1>5. \A k \in 1 .. m : k \in 1 .. m + Len(q) /\ r[k] = row[k] /\ c[k] = col[k]
  BY <1>1
<1>6. \A k \in 1 .. Len(q) : m + k \in 1 .. m + Len(q) /\ r[m + k] = n + 1 /\ c[m + k] = k
  BY <1>1
<1>7. r \in [1 .. m + Len(q) -> Nat] /\ c \in [1 .. m + Len(q) -> Nat]
  BY <1>1, <1>2, <1>4
<1> HIDE DEF r, c, more, m
<1>8. ASSUME NEW k \in 1 .. m + Len(q)
      PROVE  r[k] \in 1 .. n + 1 /\ c[k] \in 1 .. Len(ss[r[k]]) /\ more[k] = ss[r[k]][c[k]]
  <2>1. CASE k \in 1 .. m
    <3>1. row[k] \in 1 .. n + 1
      BY <1>2, <2>1
    <3> QED BY <1>2, <1>3, <1>5, <2>1, <3>1
  <2>2. CASE k - m \in 1 .. Len(q) /\ m + (k - m) = k
    <3>1. r[k] = n + 1 /\ c[k] = k - m /\ more[k] = q[k - m]
      BY <1>3, <1>6, <2>2
    <3>2. n + 1 \in 1 .. n + 1
      OBVIOUS
    <3> QED BY <2>2, <3>1, <3>2
  <2> QED BY <1>4, <2>1, <2>2
<1>9. ASSUME NEW i \in 1 .. n + 1, NEW x \in 1 .. Len(ss[i])
      PROVE  \E k \in 1 .. m + Len(q) : r[k] = i /\ c[k] = x
  <2>1. CASE i = n + 1
    BY <1>6, <2>1
  <2>2. CASE i # n + 1
    <3>1. i \in 1 .. n
      BY <2>2
    <3>2. PICK k \in 1 .. m : row[k] = i /\ col[k] = x
      BY <1>2, <3>1
    <3> QED BY <1>5, <3>2
  <2> QED BY <2>1, <2>2
<1>10. ASSUME NEW k \in 1 .. m + Len(q), NEW l \in 1 .. m + Len(q), r[k] = r[l], c[k] = c[l]
       PROVE  k = l
  <2>1. \A x \in 1 .. m : r[x] # n + 1
    BY <1>2, <1>5
  <2>2. \A x \in 1 .. m + Len(q) : x \notin 1 .. m => r[x] = n + 1 /\ c[x] = x - m
    BY <1>4, <1>6
  <2>3. CASE k \in 1 .. m
    <3>1. l \in 1 .. m
      BY <1>10, <2>1, <2>2, <2>3
    <3>2. row[k] = row[l] /\ col[k] = col[l]
      BY <1>5, <1>10, <2>3, <3>1
    <3>3. \A i, j \in 1 .. m : row[i] = row[j] /\ col[i] = col[j] => i = j
      BY <1>2
    <3> QED BY <2>3, <3>1, <3>2, <3>3
  <2>4. CASE k \notin 1 .. m
    <3>1. l \notin 1 .. m
      BY <1>10, <2>1, <2>2, <2>4
    <3>2. k - m = l - m
      BY <1>10, <2>2, <2>4, <3>1
    <3> QED BY <1>1, <3>2 DEF m
  <2> QED BY <2>3, <2>4
<1>11. Places(r, c, more, ss, n + 1)
  BY <1>3, <1>7, <1>8, <1>9, <1>10 DEF Places
<1> QED BY <1>11 DEF more

(* A flattened list has a place for each column of each row.               *)
LEMMA FlattenPlaces ==
  ASSUME NEW E, NEW ss \in Seq(Seq(E))
  PROVE  /\ FlattenSeq(ss) \in Seq(E)
         /\ \E row, col : Places(row, col, FlattenSeq(ss), ss, Len(ss))
<1>1. Len(ss) \in Nat
  OBVIOUS
<1>0. Places(<<>>, <<>>, <<>>, ss, 0)
  <2>1. Len(<<>>) = 0 /\ 1 .. 0 = {} /\ <<>> \in [1 .. 0 -> Nat]
    OBVIOUS
  <2> QED BY <2>1 DEF Places
<1>2. CASE ss = <<>>
  <2>1. FlattenSeq(ss) = <<>> /\ Len(ss) = 0
    BY <1>2 DEF FlattenSeq
  <2> QED BY <1>0, <2>1
<1>3. CASE ss # <<>>
  <2>1. PICK f : FlatOf(f, ss, E)
    BY <1>3, FlattenSteps
  <2>2. /\ \A i \in 1 .. Len(ss) : f[i] \in Seq(E)
        /\ f[Len(ss)] = FlattenSeq(ss)
        /\ \A i \in 1 .. Len(ss) : f[i] = IF i = 1 THEN ss[i] ELSE f[i - 1] \o ss[i]
    BY <2>1 DEF FlatOf
  <2>3. Len(ss) \in 1 .. Len(ss) /\ \A i \in 1 .. Len(ss) : ss[i] \in Seq(E)
    BY <1>1, <1>3
  <2> DEFINE N == {k \in Nat : k + 1 \in 1 .. Len(ss) =>
                                 \E row, col : Places(row, col, f[k + 1], ss, k + 1)}
  <2>4. 0 \in N
    <3>1. 0 + 1 = 1 /\ 1 \in 1 .. Len(ss) /\ <<>> \in Seq(E)
      BY <1>1, <2>3
    <3>2. \E r, c : Places(r, c, <<>> \o ss[0 + 1], ss, 0 + 1)
      BY <1>0, <3>1, PlacesOfNext
    <3>3. <<>> \o ss[1] = ss[1] /\ f[1] = ss[1]
      BY <2>2, <2>3, <3>1
    <3> QED BY <3>1, <3>2, <3>3
  <2>5. ASSUME NEW k \in N PROVE k + 1 \in N
    <3> SUFFICES ASSUME (k + 1) + 1 \in 1 .. Len(ss)
                 PROVE  \E row, col : Places(row, col, f[(k + 1) + 1], ss, (k + 1) + 1)
      OBVIOUS
    <3>1. k + 1 \in 1 .. Len(ss) /\ k + 1 \in Nat /\ (k + 1) + 1 # 1 /\ ((k + 1) + 1) - 1 = k + 1
      BY <1>1
    <3>2. PICK row, col : Places(row, col, f[k + 1], ss, k + 1)
      BY <3>1
    <3>3. f[k + 1] \in Seq(E)
      BY <2>2, <3>1
    <3>4. \E r, c : Places(r, c, f[k + 1] \o ss[(k + 1) + 1], ss, (k + 1) + 1)
      BY <3>1, <3>2, <3>3, PlacesOfNext
    <3>5. f[(k + 1) + 1] = f[k + 1] \o ss[(k + 1) + 1]
      BY <2>2, <3>1
    <3> QED BY <3>4, <3>5
  <2> HIDE DEF N
  <2>6. Nat \subseteq N
    BY <2>4, <2>5, AllNumbers
  <2>7. Len(ss) - 1 \in N /\ (Len(ss) - 1) + 1 = Len(ss)
    BY <1>1, <2>3, <2>6
  <2> USE DEF N
  <2>8. \E row, col : Places(row, col, f[Len(ss)], ss, Len(ss))
    BY <2>3, <2>7
  <2> QED BY <2>2, <2>3, <2>8
<1> QED BY <1>2, <1>3
-----------------------------------------------------------------------------
(* The first elements of a list are some of its elements, and repeat none  *)
(* if the list does not.                                                   *)
LEMMA TopElements ==
  ASSUME NEW E, NEW s \in Seq(E), NEW limit \in Nat
  PROVE  /\ ToSet(Top(s, limit)) \subseteq ToSet(s)
         /\ IsInjective(s) => IsInjective(Top(s, limit))
<1>1. PICK t : t = Top(s, limit)
  OBVIOUS
<1>2. /\ t \in Seq(E) /\ DOMAIN t = 1 .. Len(t) /\ DOMAIN s = 1 .. Len(s)
      /\ \A k \in 1 .. Len(t) : k \in 1 .. Len(s) /\ t[k] = s[k]
  <2>1. t \in Seq(E) /\ \A k \in 1 .. Len(t) : k \in 1 .. Len(s) /\ t[k] = s[k]
    BY <1>1, TopIsPrefix
  <2> QED BY <2>1
<1>3. ToSet(t) \subseteq ToSet(s)
  BY <1>2 DEF ToSet
<1>4. IsInjective(s) => IsInjective(t)
  BY <1>2 DEF IsInjective
<1> QED BY <1>1, <1>3, <1>4

(* merge_unique shows each chunk once, and as many as there are.           *)
LEMMA MergesOnce ==
  ASSUME NEW E, NEW results \in Seq(Seq(E)), NEW limit \in Nat
  PROVE  MergedOnce(results, limit, MergeUnique(results, limit))
<1>1. PICK flat : flat = FlattenSeq(results)
  OBVIOUS
<1>2. flat \in Seq(E)
  BY <1>1, FlattenPlaces
<1>a. PICK none : none = <<>>
  OBVIOUS
<1>3. PICK all : all = AppendNew(none, flat)
  OBVIOUS
<1>4. none \in Seq(E) /\ ToSet(none) = {} /\ IsInjective(none)
  BY <1>a DEF ToSet, IsInjective
<1>5. all \in Seq(E) /\ ToSet(all) = ToSet(flat) /\ IsInjective(all)
  <2>1. none \in Seq(E)
    BY <1>4
  <2>2. /\ AppendNew(none, flat) \in Seq(E)
        /\ ToSet(AppendNew(none, flat)) = ToSet(none) \cup ToSet(flat)
        /\ IsInjective(none) => IsInjective(AppendNew(none, flat))
    BY <1>2, <2>1, AppendNewIs
  <2> QED BY <1>3, <1>4, <2>2
<1>6. Cardinality(ToSet(flat)) = Len(all)
  BY <1>5, ElementsOfList
<1>7. MergeUnique(results, limit) = Top(all, limit)
  BY <1>1, <1>a, <1>3 DEF MergeUnique
<1>8. IsInjective(Top(all, limit)) /\ Len(Top(all, limit)) = Min({limit, Len(all)})
  BY <1>5, TopElements, TopIsPrefix
<1> QED BY <1>1, <1>6, <1>7, <1>8 DEF MergedOnce

(* expand_query keeps the question, first, and repeats no wording.         *)
LEMMA ExpandsQuestion ==
  ASSUME NEW E, NEW query \in E, NEW variants \in Seq(E), NEW n \in Nat, NEW same, query \in same
  PROVE  QuestionKept(query, n, same, ExpandQuery(query, variants, n, same))
<1>1. PICK others : others = Kept(variants, ToSet(variants) \ same)
  OBVIOUS
<1>2. others \in Seq(E) /\ ToSet(others) \cap same = {}
  BY <1>1, KeptIs
<1>3. PICK one : one = <<query>>
  OBVIOUS
<1>4. one \in Seq(E) /\ Len(one) = 1 /\ one[1] = query /\ ToSet(one) = {query} /\ IsInjective(one)
  BY <1>3 DEF ToSet, IsInjective
<1>5. PICK all : all = AppendNew(one, others)
  OBVIOUS
<1>6. /\ all \in Seq(E) /\ ToSet(all) = {query} \cup ToSet(others)
      /\ IsInjective(all) /\ 1 <= Len(all)
      /\ all[1] = query
  <2>1. one \in Seq(E) /\ others \in Seq(E)
    BY <1>2, <1>4
  <2>2. /\ AppendNew(one, others) \in Seq(E)
        /\ ToSet(AppendNew(one, others)) = ToSet(one) \cup ToSet(others)
        /\ IsInjective(one) => IsInjective(AppendNew(one, others))
        /\ Len(one) <= Len(AppendNew(one, others))
        /\ \A k \in 1 .. Len(one) : AppendNew(one, others)[k] = one[k]
    BY <2>1, AppendNewIs
  <2> QED BY <1>4, <1>5, <2>2
<1>7. PICK q : q = Top(all, n + 1)
  OBVIOUS
<1>8. n + 1 \in Nat
  OBVIOUS
<1>9. /\ q \in Seq(E) /\ Len(q) = IF n + 1 <= Len(all) THEN n + 1 ELSE Len(all)
      /\ \A k \in 1 .. Len(q) : k \in 1 .. Len(all) /\ q[k] = all[k]
  BY <1>6, <1>7, <1>8, TopIsPrefix
<1>10. IsInjective(q) /\ ToSet(q) \subseteq ToSet(all)
  BY <1>6, <1>7, <1>8, TopElements
<1>11. Len(q) \in Nat /\ Len(all) \in Nat /\ 1 <= Len(q) /\ Len(q) <= n + 1 /\ q # <<>>
  BY <1>6, <1>9
<1>12. q[1] = query
  BY <1>6, <1>9, <1>11
<1>13. Head(q) = query
  BY <1>9, <1>11, <1>12
<1>14. ASSUME NEW x \in ToSet(Tail(q)) \cap same PROVE FALSE
  <2>1. /\ Tail(q) \in Seq(E) /\ Len(Tail(q)) = Len(q) - 1
        /\ \A k \in 1 .. Len(Tail(q)) : Tail(q)[k] = q[k + 1]
    BY <1>9, <1>11
  <2>2. PICK k \in 1 .. Len(Tail(q)) : Tail(q)[k] = x
    BY <2>1 DEF ToSet
  <2>3. k + 1 \in 1 .. Len(q) /\ k + 1 # 1 /\ q[k + 1] = x /\ DOMAIN q = 1 .. Len(q)
    BY <1>9, <1>11, <2>1, <2>2
  <2>4. x # query
    <3>1. 1 \in DOMAIN q
      BY <1>11, <2>3
    <3> QED BY <1>10, <1>12, <2>3, <3>1 DEF IsInjective
  <2>5. x \in ToSet(q)
    BY <2>3 DEF ToSet
  <2> QED BY <1>2, <1>6, <1>10, <2>4, <2>5
<1>15. ExpandQuery(query, variants, n, same) = q
  BY <1>1, <1>3, <1>5, <1>7 DEF ExpandQuery
<1> QED BY <1>10, <1>11, <1>13, <1>14, <1>15 DEF QuestionKept

(* llm_rerank follows the model, and gives up no text for what it forgets, *)
(* repeats or makes up.                                                    *)
LEMMA RerankFollowsModel ==
  ASSUME NEW E, NEW cands \in Seq(E), NEW numbers \in Seq(Int), NEW limit \in Nat
  PROVE  FollowsModel(cands, numbers, limit, LLMRerank(cands, numbers, limit))
<1>1. Len(cands) \in Nat /\ DOMAIN cands = 1 .. Len(cands)
  OBVIOUS
<1>2. CASE Len(cands) <= limit
  BY <1>2 DEF LLMRerank, FollowsModel
<1>3. CASE ~ (Len(cands) <= limit)
  <2>1. PICK listed : listed = Kept(numbers, DOMAIN cands)
    OBVIOUS
  <2>2. listed \in Seq(Int) /\ ToSet(listed) \subseteq DOMAIN cands
    BY <2>1, KeptIs
  <2>3. /\ Len(listed) \in Nat /\ DOMAIN listed = 1 .. Len(listed)
        /\ \A k \in 1 .. Len(listed) : listed[k] \in DOMAIN cands
    BY <2>2 DEF ToSet
  <2>4. PICK chosen : chosen = [k \in DOMAIN listed |-> cands[listed[k]]]
    OBVIOUS
  <2>5. \A k \in 1 .. Len(listed) : cands[listed[k]] \in E /\ cands[listed[k]] \in ToSet(cands)
    BY <1>1, <2>3 DEF ToSet
  <2>6. /\ chosen \in Seq(E) /\ Len(chosen) = Len(listed)
        /\ \A k \in 1 .. Len(listed) : chosen[k] = cands[listed[k]]
    BY <2>3, <2>4, <2>5
  <2>7. ToSet(chosen) \subseteq ToSet(cands)
    BY <2>3, <2>4, <2>5 DEF ToSet
  <2>8. PICK all : all = AppendNew(chosen, cands)
    OBVIOUS
  <2>a. chosen \in Seq(E) /\ cands \in Seq(E)
    BY <2>6
  <2>b. /\ all \in Seq(E) /\ ToSet(all) = ToSet(chosen) \cup ToSet(cands)
        /\ Len(chosen) <= Len(all)
        /\ \A k \in 1 .. Len(chosen) : all[k] = chosen[k]
        /\ \A k \in 1 .. Len(all) : k > Len(chosen) => \A j \in 1 .. k - 1 : all[k] # all[j]
    BY <2>8, <2>a, AppendNewIs
  <2>9. all \in Seq(E) /\ ToSet(all) = ToSet(cands) /\ Len(all) \in Nat /\ DOMAIN all = 1 .. Len(all)
    BY <2>7, <2>b
  <2>10. PICK result : result = Top(all, limit)
    OBVIOUS
  <2>11. LLMRerank(cands, numbers, limit) = result
    BY <1>3, <2>1, <2>4, <2>8, <2>10 DEF LLMRerank
  <2>12. /\ result \in Seq(E)
         /\ Len(result) = IF limit <= Len(all) THEN limit ELSE Len(all)
         /\ \A k \in 1 .. Len(result) : k \in 1 .. Len(all) /\ result[k] = all[k]
    BY <2>9, <2>10, TopIsPrefix
  <2>13. Len(result) \in Nat /\ DOMAIN result = 1 .. Len(result) /\ Len(result) <= limit
    BY <2>9, <2>12
  <2>14. ToSet(result) \subseteq ToSet(cands)
    BY <2>9, <2>10, TopElements
  <2>15. ASSUME NEW k \in DOMAIN result
         PROVE  IF k <= Len(listed) THEN result[k] = cands[listed[k]]
                ELSE \A j \in 1 .. k - 1 : result[k] # result[j]
    <3>1. k \in 1 .. Len(result) /\ k \in 1 .. Len(all) /\ result[k] = all[k]
      BY <2>12, <2>13
    <3>2. CASE k <= Len(listed)
      BY <2>3, <2>6, <2>b, <3>1, <3>2
    <3>3. CASE ~ (k <= Len(listed))
      <4>1. \A j \in 1 .. k - 1 : j \in 1 .. Len(result)
        BY <2>13, <3>1
      <4>2. \A j \in 1 .. k - 1 : result[j] = all[j]
        BY <2>12, <4>1
      <4>3. k > Len(chosen)
        BY <2>3, <2>6, <3>1, <3>3
      <4>4. \A j \in 1 .. k - 1 : all[k] # all[j]
        BY <2>b, <3>1, <4>3
      <4> QED BY <3>1, <3>3, <4>2, <4>4
    <3> QED BY <3>2, <3>3
  <2>16. ASSUME Len(result) < limit PROVE ToSet(cands) \subseteq ToSet(result)
    <3>1. Len(result) = Len(all)
      <4>1. Len(result) = IF limit <= Len(all) THEN limit ELSE Len(all)
        BY <2>12
      <4>2. Len(all) \in Nat
        BY <2>9
      <4> QED BY <2>16, <4>1, <4>2
    <3>2. \A k \in 1 .. Len(all) : result[k] = all[k]
      BY <2>12, <3>1
    <3>3. ASSUME NEW k \in 1 .. Len(all) PROVE all[k] \in ToSet(result)
      <4>1. k \in DOMAIN result /\ result[k] = all[k]
        BY <2>13, <3>1, <3>2
      <4> QED BY <4>1 DEF ToSet
    <3>4. ToSet(all) = {all[k] : k \in 1 .. Len(all)}
      BY <2>9 DEF ToSet
    <3> QED BY <2>9, <3>3, <3>4
  <2> QED BY <1>3, <2>1, <2>11, <2>13, <2>14, <2>15, <2>16 DEF FollowsModel
<1> QED BY <1>2, <1>3
-----------------------------------------------------------------------------
(* Who comes before whom in a stable sort by descending score, and how     *)
(* many do.                                                                *)
Before(scores, j, i) == scores[j] > scores[i] \/ (scores[j] = scores[i] /\ j < i)

RankOf(scores, n, i) == Cardinality({j \in 1 .. n : Before(scores, j, i)})

(* The counts are the ranks: each number below n is one's, and who comes   *)
(* before another has the smaller one.                                     *)
LEMMA RanksCount ==
  ASSUME NEW scores \in Seq(Int), NEW n \in Nat, n <= Len(scores)
  PROVE  /\ \A i \in 1 .. n : RankOf(scores, n, i) \in 0 .. n - 1
         /\ \A i, j \in 1 .. n : Before(scores, j, i) => RankOf(scores, n, j) < RankOf(scores, n, i)
         /\ \A i, j \in 1 .. n : i = j \/ Before(scores, j, i) \/ Before(scores, i, j)
         /\ \A k \in 0 .. n - 1 : \E i \in 1 .. n : RankOf(scores, n, i) = k
<1> DEFINE B(i) == {j \in 1 .. n : Before(scores, j, i)}
<1>1. \A i \in 1 .. n : i \in 1 .. Len(scores) /\ scores[i] \in Int
  OBVIOUS
<1>2. /\ \A i \in 1 .. n : ~ Before(scores, i, i)
      /\ \A i, j \in 1 .. n : i = j \/ Before(scores, j, i) \/ Before(scores, i, j)
  BY <1>1 DEF Before
<1>3. \A i, j, k \in 1 .. n : Before(scores, k, j) /\ Before(scores, j, i) => Before(scores, k, i)
  BY <1>1 DEF Before
<1>4. IsFiniteSet(1 .. n) /\ Cardinality(1 .. n) = n
  <2>1. 1 \in Int /\ n \in Int
    OBVIOUS
  <2> QED BY <2>1, FS_Interval
<1>5. \A i \in 1 .. n : B(i) \in SUBSET (1 .. n) /\ i \notin B(i)
  BY <1>2
<1>6. \A i, j \in 1 .. n : Before(scores, j, i) => B(j) \cup {j} \in SUBSET B(i) /\ j \notin B(j)
  BY <1>2, <1>3
<1>7. \A i \in 1 .. n : RankOf(scores, n, i) = Cardinality(B(i))
  BY DEF RankOf
<1> HIDE DEF B
<1>8. \A i \in 1 .. n : IsFiniteSet(B(i)) /\ Cardinality(B(i)) \in Nat
  BY <1>4, <1>5, FS_Subset, FS_CardinalityType
<1>9. ASSUME NEW i \in 1 .. n PROVE RankOf(scores, n, i) \in 0 .. n - 1
  <2>1. IsFiniteSet((1 .. n) \ {i}) /\ Cardinality((1 .. n) \ {i}) = n - 1
    BY <1>4, FS_RemoveElement
  <2>2. B(i) \in SUBSET ((1 .. n) \ {i})
    BY <1>5
  <2>3. Cardinality(B(i)) <= n - 1
    BY <2>1, <2>2, FS_Subset
  <2> QED BY <1>7, <1>8, <2>3
<1>10. ASSUME NEW i \in 1 .. n, NEW j \in 1 .. n, Before(scores, j, i)
       PROVE  RankOf(scores, n, j) < RankOf(scores, n, i)
  <2>1. Cardinality(B(j) \cup {j}) = Cardinality(B(j)) + 1
    BY <1>6, <1>8, <1>10, FS_AddElement
  <2>2. Cardinality(B(j) \cup {j}) <= Cardinality(B(i))
    BY <1>6, <1>8, <1>10, FS_Subset
  <2> QED BY <1>7, <1>8, <2>1, <2>2
<1> DEFINE r == [i \in 1 .. n |-> RankOf(scores, n, i)]
<1>11. r \in Injection(1 .. n, 0 .. n - 1)
  <2>1. r \in [1 .. n -> 0 .. n - 1]
    BY <1>9
  <2>2. ASSUME NEW i \in 1 .. n, NEW j \in 1 .. n, r[i] = r[j] PROVE i = j
    <3>1. RankOf(scores, n, i) = RankOf(scores, n, j) /\ RankOf(scores, n, i) \in Int
      BY <1>9, <2>2
    <3>2. ~ Before(scores, j, i) /\ ~ Before(scores, i, j)
      BY <1>9, <1>10, <3>1
    <3> QED BY <1>2, <3>2
  <2> HIDE DEF r
  <2> QED BY <2>1, <2>2 DEF Injection, IsInjective
<1>12. IsFiniteSet(0 .. n - 1) /\ Cardinality(0 .. n - 1) = n
  <2>1. 0 \in Int /\ n - 1 \in Int
    OBVIOUS
  <2>2. IsFiniteSet(0 .. n - 1)
        /\ Cardinality(0 .. n - 1) = IF 0 > n - 1 THEN 0 ELSE (n - 1) - 0 + 1
    BY <2>1, FS_Interval
  <2>3. (IF 0 > n - 1 THEN 0 ELSE (n - 1) - 0 + 1) = n
    OBVIOUS
  <2> QED BY <2>2, <2>3
<1>13. r \in Surjection(1 .. n, 0 .. n - 1)
  <2> HIDE DEF r
  <2> QED BY <1>4, <1>11, <1>12, FS_Injection
<1>14. \A k \in 0 .. n - 1 : \E i \in 1 .. n : r[i] = k
  <2> HIDE DEF r
  <2> QED BY <1>13 DEF Surjection
<1> QED BY <1>2, <1>9, <1>10, <1>14

(* The rerankers that score put nobody behind one it beats.                *)
LEMMA RankedByScore ==
  ASSUME NEW E, NEW cands \in Seq(E), NEW scores \in Seq(Int), NEW limit \in Nat
  PROVE  /\ RanksBest(cands, scores, limit, RankByScores(cands, scores, limit))
         /\ Len(RankByScores(cands, scores, limit)) = Min({limit, Min({Len(cands), Len(scores)})})
         /\ ToSet(RankByScores(cands, scores, limit)) \subseteq ToSet(cands)
<1>1. PICK n \in Nat : n = Min({Len(cands), Len(scores)}) /\ n <= Len(cands) /\ n <= Len(scores)
  <2>1. Len(cands) \in Nat /\ Len(scores) \in Nat
    OBVIOUS
  <2> QED BY <2>1 DEF Min
<1> DEFINE order == [k \in 1 .. n |->
                       CHOOSE i \in 1 .. n : Cardinality({j \in 1 .. n : Before(scores, j, i)}) = k - 1]
<1>2. ASSUME NEW k \in 1 .. n
      PROVE  order[k] \in 1 .. n /\ RankOf(scores, n, order[k]) = k - 1
  <2>1. order[k] = CHOOSE i \in 1 .. n : RankOf(scores, n, i) = k - 1
    BY DEF RankOf
  <2>2. k - 1 \in 0 .. n - 1
    OBVIOUS
  <2>3. \E i \in 1 .. n : RankOf(scores, n, i) = k - 1
    BY <1>1, <2>2, RanksCount
  <2> HIDE DEF order
  <2> QED BY <2>1, <2>3
<1>r. /\ \A i \in 1 .. n : RankOf(scores, n, i) \in 0 .. n - 1
      /\ \A i, j \in 1 .. n : Before(scores, j, i) => RankOf(scores, n, j) < RankOf(scores, n, i)
      /\ \A i, j \in 1 .. n : i = j \/ Before(scores, j, i) \/ Before(scores, i, j)
  BY <1>1, RanksCount
<1>3. RankByScores(cands, scores, limit) = Top([k \in 1 .. n |-> cands[order[k]]], limit)
  BY <1>1 DEF RankByScores, Before
<1> HIDE DEF order
<1>4. PICK sorted : sorted = [k \in 1 .. n |-> cands[order[k]]]
  OBVIOUS
<1>5. ASSUME NEW k \in 1 .. n PROVE cands[order[k]] \in E /\ order[k] \in DOMAIN cands
  <2>1. PICK i : i = order[k]
    OBVIOUS
  <2>2. i \in 1 .. n
    BY <1>2, <2>1
  <2>3. i \in DOMAIN cands /\ cands[i] \in E
    BY <1>1, <2>2
  <2> QED BY <2>1, <2>3
<1>6. sorted \in Seq(E) /\ Len(sorted) = n /\ \A k \in 1 .. n : sorted[k] = cands[order[k]]
  BY <1>4, <1>5
<1>7. PICK ranked : ranked = Top(sorted, limit)
  OBVIOUS
<1>a. sorted \in Seq(E) /\ Len(sorted) = n
  BY <1>6
<1>b. /\ ranked \in Seq(E)
      /\ Min({limit, Len(sorted)}) = Len(ranked)
      /\ \A k \in 1 .. Len(ranked) : k \in 1 .. Len(sorted) /\ ranked[k] = sorted[k]
  <2>0. sorted \in Seq(E)
    BY <1>a
  <2>1. limit \in Nat
    OBVIOUS
  <2>2. /\ Top(sorted, limit) \in Seq(E)
        /\ Len(Top(sorted, limit)) = IF limit <= Len(sorted) THEN limit ELSE Len(sorted)
        /\ Min({limit, Len(sorted)}) = Len(Top(sorted, limit))
        /\ \A k \in 1 .. Len(Top(sorted, limit)) :
             k \in 1 .. Len(sorted) /\ Top(sorted, limit)[k] = sorted[k]
    BY <2>0, <2>1, TopIsPrefix, SMTT(40)
  <2> QED BY <1>7, <2>2
<1>8. ranked \in Seq(E) /\ \A k \in 1 .. Len(ranked) : k \in 1 .. n /\ ranked[k] = sorted[k]
  BY <1>a, <1>b
<1>9. Len(ranked) = Min({limit, n}) /\ DOMAIN ranked = 1 .. Len(ranked) /\ Len(ranked) \in Nat
  BY <1>a, <1>b
<1> DEFINE at == [k \in DOMAIN ranked |-> order[k]]
<1>10. at \in [DOMAIN ranked -> 1 .. n] /\ \A k \in DOMAIN ranked : at[k] = order[k] /\ ranked[k] = cands[at[k]]
  BY <1>2, <1>6, <1>8, <1>9
<1>11. ASSUME NEW k \in DOMAIN ranked, NEW i \in 1 .. n, i \notin {at[j] : j \in 1 .. k}
       PROVE  scores[at[k]] > scores[i] \/ (scores[at[k]] = scores[i] /\ at[k] < i)
  <2>1. PICK r : r = RankOf(scores, n, i)
    OBVIOUS
  <2>2. r \in 0 .. n - 1 /\ r + 1 \in 1 .. n
    BY <1>r, <2>1
  <2>3. order[r + 1] \in 1 .. n /\ RankOf(scores, n, order[r + 1]) = r
    BY <1>2, <2>2
  <2>4. order[r + 1] = i
    <3>1. PICK o : o = order[r + 1]
      OBVIOUS
    <3>2. o \in 1 .. n /\ RankOf(scores, n, o) = RankOf(scores, n, i) /\ RankOf(scores, n, i) \in Int
      BY <2>1, <2>2, <2>3, <3>1
    <3>3. ~ Before(scores, i, o) /\ ~ Before(scores, o, i)
      BY <1>r, <3>2
    <3> QED BY <1>r, <3>1, <3>2, <3>3
  <2>5. k \in 1 .. n /\ k \in 1 .. Len(ranked)
    BY <1>8, <1>9
  <2>6. ~ (r + 1 <= k)
    <3>1. ASSUME r + 1 <= k PROVE FALSE
      <4>1. r + 1 \in 1 .. k /\ r + 1 \in DOMAIN ranked
        BY <1>9, <2>2, <2>5, <3>1
      <4>2. at[r + 1] = i
        BY <1>10, <2>4, <4>1
      <4> QED BY <1>11, <4>1, <4>2
    <3> QED BY <3>1
  <2>7. order[k] \in 1 .. n /\ RankOf(scores, n, order[k]) = k - 1
    BY <1>2, <2>5
  <2>8. k - 1 < r
    BY <2>2, <2>5, <2>6
  <2>9. order[k] # i
    BY <2>1, <2>2, <2>5, <2>7, <2>8
  <2>10. ~ Before(scores, i, order[k])
    <3>1. Before(scores, i, order[k]) => RankOf(scores, n, i) < RankOf(scores, n, order[k])
      BY <1>r, <2>7
    <3> QED BY <2>1, <2>2, <2>5, <2>7, <2>8, <3>1
  <2>11. Before(scores, order[k], i)
    BY <1>r, <2>7, <2>9, <2>10
  <2> QED BY <1>10, <2>11 DEF Before
<1> HIDE DEF at
<1>12. IsInjective(at)
  <2> SUFFICES ASSUME NEW j \in DOMAIN at, NEW k \in DOMAIN at, at[j] = at[k] PROVE j = k
    BY DEF IsInjective
  <2>1. j \in 1 .. n /\ k \in 1 .. n /\ order[j] = order[k]
    BY <1>8, <1>9, <1>10
  <2>2. j - 1 = k - 1
    BY <1>2, <2>1
  <2> QED BY <1>1, <2>1, <2>2
<1>13. RanksBest(cands, scores, limit, ranked)
  <2>1. at \in [DOMAIN ranked -> 1 .. n] /\ IsInjective(at)
        /\ \A k \in DOMAIN ranked : ranked[k] = cands[at[k]]
    BY <1>10, <1>12
  <2>2. \A k \in DOMAIN ranked, i \in 1 .. n :
           i \notin {at[j] : j \in 1 .. k} =>
             scores[at[k]] > scores[i] \/ (scores[at[k]] = scores[i] /\ at[k] < i)
    BY <1>11
  <2>3. Len(ranked) = Min({limit, n})
    BY <1>9
  <2> QED BY <1>1, <2>1, <2>2, <2>3, Zenon DEF RanksBest
<1>14. ToSet(ranked) \subseteq ToSet(cands)
  <2> SUFFICES ASSUME NEW k \in 1 .. Len(ranked) PROVE ranked[k] \in ToSet(cands)
    BY <1>9 DEF ToSet
  <2>1. k \in 1 .. n /\ ranked[k] = cands[order[k]]
    BY <1>6, <1>8
  <2>2. PICK i : i = order[k]
    OBVIOUS
  <2>3. i \in DOMAIN cands
    BY <1>5, <2>1, <2>2
  <2> QED BY <2>1, <2>2, <2>3 DEF ToSet
<1>15. Len(ranked) = Min({limit, Min({Len(cands), Len(scores)})})
  BY <1>1, <1>9
<1> QED BY <1>3, <1>4, <1>7, <1>13, <1>14, <1>15

(* ... and keep as many as asked for.                                      *)
LEMMA CrossEncoderKeepsEnough ==
  ASSUME NEW E, NEW cands \in Seq(E), NEW scores \in Seq(Int), NEW limit \in Nat,
         Len(scores) \in {0, Len(cands)}
  PROVE  KeepsEnough(cands, limit, CrossEncoderRerank(cands, scores, limit))
<1>1. Len(cands) \in Nat /\ Len(scores) \in Nat
  OBVIOUS
<1>2. Min({limit, Len(cands)}) = IF limit <= Len(cands) THEN limit ELSE Len(cands)
  BY TopIsPrefix
<1>3. CASE Len(cands) <= limit
  BY <1>1, <1>2, <1>3 DEF KeepsEnough, CrossEncoderRerank
<1>4. CASE ~ (Len(cands) <= limit) /\ scores = <<>>
  <2>1. CrossEncoderRerank(cands, scores, limit) = Top(cands, limit)
    BY <1>4 DEF CrossEncoderRerank
  <2>2. Len(Top(cands, limit)) = Min({limit, Len(cands)}) /\ ToSet(Top(cands, limit)) \subseteq ToSet(cands)
    BY TopIsPrefix, TopElements
  <2> QED BY <2>1, <2>2 DEF KeepsEnough
<1>5. CASE ~ (Len(cands) <= limit) /\ scores # <<>>
  <2>1. CrossEncoderRerank(cands, scores, limit) = RankByScores(cands, scores, limit)
    BY <1>5 DEF CrossEncoderRerank
  <2>2. Len(scores) = Len(cands)
    BY <1>5
  <2>3. Min({Len(cands), Len(scores)}) = Len(cands)
    BY <1>1, <2>2 DEF Min
  <2>4. Len(RankByScores(cands, scores, limit)) = Min({limit, Len(cands)})
    BY <2>3, RankedByScore
  <2> QED BY <2>1, <2>4, RankedByScore DEF KeepsEnough
<1> QED BY <1>3, <1>4, <1>5
-----------------------------------------------------------------------------
(* f[k]: what mmr_select has after it chose k times.                       *)
ChosenOf(f, n, rel, sim, lambda, K) ==
  /\ f \in [0 .. K -> Seq(1 .. n)]
  /\ f[0] = <<>> /\ f[K] = MMRSelect(n, rel, sim, lambda, K)
  /\ \A k \in 1 .. K :
       /\ Len(f[k - 1]) = k - 1
       /\ (1 .. n) \ ToSet(f[k - 1]) # {}
       /\ f[k] = Append(f[k - 1], MMRBest(rel, sim, lambda, f[k - 1], (1 .. n) \ ToSet(f[k - 1])))

(* Similarities are numbers, and at most one.                              *)
Similarities(n) ==
  {sim \in [1 .. n -> [1 .. n -> Int]] : \A i, j \in 1 .. n : sim[i][j] <= 100}

(* What one of them says of two candidates.                                *)
LEMMA SimilarityTyped ==
  ASSUME NEW n, NEW sim \in Similarities(n), NEW i \in 1 .. n, NEW j \in 1 .. n
  PROVE  sim[i][j] \in Int /\ sim[i][j] <= 100
<1>1. sim \in [1 .. n -> [1 .. n -> Int]] /\ sim[i][j] <= 100
  BY DEF Similarities
<1> QED BY <1>1

(* How similar a candidate is to what was chosen: as much as to the most   *)
(* similar of it.                                                          *)
Greatest(m, sim, c, S) ==
  /\ m \in Int /\ m \in {sim[c][s] : s \in S}
  /\ \A s \in S : sim[c][s] <= m

(* The maximum in MMRScore is that.                                        *)
LEMMA MostSimilar ==
  ASSUME NEW n \in Nat, NEW sim \in Similarities(n),
         NEW chosen \in Seq(1 .. n), chosen # <<>>, NEW c \in 1 .. n
  PROVE  Greatest(Max({sim[c][s] : s \in ToSet(chosen)}), sim, c, ToSet(chosen))
<1>1. ToSet(chosen) \in SUBSET (1 .. n) /\ IsFiniteSet(ToSet(chosen))
  <2>1. ToSet(chosen) \in SUBSET (1 .. n)
    <3>1. \A i \in DOMAIN chosen : chosen[i] \in 1 .. n
      OBVIOUS
    <3> QED BY <3>1 DEF ToSet
  <2>2. IsFiniteSet(ToSet(chosen))
    BY ElementsOfList
  <2> QED BY <2>1, <2>2
<1> DEFINE S == {sim[c][s] : s \in ToSet(chosen)}
<1>2. S \in SUBSET Int
  BY <1>1, SimilarityTyped
<1>3. IsFiniteSet(S)
  <2> DEFINE f == [s \in ToSet(chosen) |-> sim[c][s]]
  <2>1. f \in Surjection(ToSet(chosen), S)
    BY DEF Surjection
  <2> HIDE DEF f, S
  <2> QED BY <1>1, <2>1, FS_Surjection
<1>4. Max(S) \in S /\ \A s \in S : Max(S) >= s
  <2>1. 1 \in DOMAIN chosen
    OBVIOUS
  <2>2. chosen[1] \in ToSet(chosen)
    BY <2>1 DEF ToSet
  <2>3. S # {}
    BY <2>2
  <2> HIDE DEF S
  <2> QED BY <1>2, <1>3, <2>3, MaxOfFinite
<1>5. Max(S) \in Int
  BY <1>2, <1>4
<1>6. ASSUME NEW s \in ToSet(chosen) PROVE sim[c][s] <= Max(S)
  <2>1. sim[c][s] \in S
    OBVIOUS
  <2>2. sim[c][s] \in Int
    BY <1>2, <2>1
  <2> HIDE DEF S
  <2> QED BY <1>4, <1>5, <2>1, <2>2
<1> QED BY <1>4, <1>5, <1>6 DEF Greatest

(* Scores of candidates are numbers.                                       *)
LEMMA MMRScoreTyped ==
  ASSUME NEW n \in Nat, NEW rel \in [1 .. n -> Int], NEW sim \in Similarities(n),
         NEW lambda \in Int, NEW chosen \in Seq(1 .. n), NEW c \in 1 .. n
  PROVE  MMRScore(rel, sim, lambda, chosen, c) \in Int
<1>1. PICK m : m = IF chosen = <<>> THEN 0 ELSE Max({sim[c][s] : s \in ToSet(chosen)})
  OBVIOUS
<1>2. m \in Int
  BY <1>1, MostSimilar DEF Greatest
<1>3. MMRScore(rel, sim, lambda, chosen, c) = lambda * rel[c] - (100 - lambda) * m
  BY <1>1 DEF MMRScore
<1>4. rel[c] \in Int /\ \A a, b \in Int : lambda * a - (100 - lambda) * b \in Int
  OBVIOUS
<1> QED BY <1>2, <1>3, <1>4

(* Among the candidates left there is a best one.                          *)
LEMMA MMRBestIs ==
  ASSUME NEW n \in Nat, NEW rel \in [1 .. n -> Int], NEW sim \in Similarities(n),
         NEW lambda \in Int, NEW chosen \in Seq(1 .. n),
         NEW left \in SUBSET (1 .. n), left # {}
  PROVE  /\ MMRBest(rel, sim, lambda, chosen, left) \in left
         /\ \A c \in left : MMRScore(rel, sim, lambda, chosen, MMRBest(rel, sim, lambda, chosen, left))
                              >= MMRScore(rel, sim, lambda, chosen, c)
<1> DEFINE score(c) == MMRScore(rel, sim, lambda, chosen, c)
           S == {score(c) : c \in left}
           B == {i \in left : \A j \in left : score(i) >= score(j)}
<1>1. \A c \in left : score(c) \in Int
  BY MMRScoreTyped
<1> HIDE DEF score
<1>2. IsFiniteSet(left)
  <2>1. 1 \in Int /\ n \in Int
    OBVIOUS
  <2>2. IsFiniteSet(1 .. n)
    BY <2>1, FS_Interval
  <2> QED BY <2>2, FS_Subset
<1>3. S \in SUBSET Int /\ S # {}
  BY <1>1
<1>4. IsFiniteSet(S)
  <2> DEFINE f == [c \in left |-> score(c)]
  <2>1. f \in Surjection(left, S)
    BY DEF Surjection
  <2> HIDE DEF f, S
  <2> QED BY <1>2, <2>1, FS_Surjection
<1>5. Max(S) \in S /\ \A y \in S : Max(S) >= y
  <2> HIDE DEF S
  <2> QED BY <1>3, <1>4, MaxOfFinite
<1>6. PICK c \in left : score(c) = Max(S)
  BY <1>5
<1>7. c \in B
  BY <1>5, <1>6
<1>8. B \in SUBSET left /\ B \in SUBSET Int /\ B # {}
  <2>1. B \in SUBSET left
    OBVIOUS
  <2>2. left \in SUBSET Int
    OBVIOUS
  <2> HIDE DEF B
  <2> QED BY <1>7, <2>1, <2>2
<1>9. IsFiniteSet(B)
  BY <1>2, <1>8, FS_Subset
<1>10. Min(B) \in B
  <2> HIDE DEF B
  <2> QED BY <1>8, <1>9, MinOfFinite
<1>11. MMRBest(rel, sim, lambda, chosen, left) = Min(B)
  BY DEF MMRBest, score
<1> QED BY <1>10, <1>11 DEF score

(* The candidates left are fewer by one after each choice.                 *)
LEMMA SomeLeft ==
  ASSUME NEW n \in Nat, NEW chosen \in Seq(1 .. n), Len(chosen) < n
  PROVE  (1 .. n) \ ToSet(chosen) # {}
<1>1. IsFiniteSet(1 .. n) /\ Cardinality(1 .. n) = n
  <2>1. 1 \in Int /\ n \in Int
    OBVIOUS
  <2> QED BY <2>1, FS_Interval
<1>2. Cardinality(ToSet(chosen)) <= Len(chosen) /\ Cardinality(ToSet(chosen)) \in Nat /\ Len(chosen) \in Nat
  BY ElementsOfList
<1>3. ASSUME (1 .. n) \ ToSet(chosen) = {} PROVE FALSE
  <2>1. 1 .. n \in SUBSET ToSet(chosen) /\ IsFiniteSet(ToSet(chosen))
    BY <1>3, ElementsOfList
  <2>2. Cardinality(1 .. n) <= Cardinality(ToSet(chosen))
    BY <2>1, FS_Subset
  <2> QED BY <1>1, <1>2, <2>2
<1> QED BY <1>3

(* mmr_select chooses the best of what is left, step by step.              *)
LEMMA MMRSteps ==
  ASSUME NEW n \in Nat, NEW rel \in [1 .. n -> Int], NEW sim \in Similarities(n),
         NEW lambda \in Int, NEW K \in Nat, K <= n
  PROVE  \E f : ChosenOf(f, n, rel, sim, lambda, K)
<1> DEFINE V == Seq(1 .. n)
           Best(q) == MMRBest(rel, sim, lambda, q, (1 .. n) \ ToSet(q))
           More(q) == IF (1 .. n) \ ToSet(q) # {} THEN Append(q, Best(q)) ELSE q
           step == [p \in Nat \X V |-> More(p[2])]
           Pass(f) == [k \in 0 .. K |-> IF k = 0 THEN <<>> ELSE Append(f[k - 1], Best(f[k - 1]))]
           I == CHOOSE f : f = Pass(f)
<1>1. \A q \in V : (1 .. n) \ ToSet(q) # {} => Best(q) \in 1 .. n
  <2> TAKE q \in V
  <2> HAVE (1 .. n) \ ToSet(q) # {}
  <2>1. (1 .. n) \ ToSet(q) \in SUBSET (1 .. n)
    OBVIOUS
  <2>2. Best(q) \in (1 .. n) \ ToSet(q)
    BY <2>1, MMRBestIs
  <2> QED BY <2>2
<1>2. Min({n, K}) = K
  BY DEF Min
<1>3. MMRSelect(n, rel, sim, lambda, K) = I[K]
  <2>1. MMRSelect(n, rel, sim, lambda, K) =
          LET selected[k \in 0 .. Min({n, K})] ==
                IF k = 0 THEN <<>> ELSE Append(selected[k - 1], Best(selected[k - 1])) IN
          selected[Min({n, K})]
    BY DEF MMRSelect
  <2> QED BY <1>2, <2>1
<1> HIDE DEF Best
<1>4. ASSUME NEW q \in V PROVE More(q) \in V
  <2>1. CASE (1 .. n) \ ToSet(q) # {}
    <3>1. PICK x : x = Best(q)
      OBVIOUS
    <3>2. x \in 1 .. n /\ More(q) = Append(q, x)
      BY <1>1, <2>1, <3>1
    <3>3. \A p \in V : \A y \in 1 .. n : Append(p, y) \in V
      OBVIOUS
    <3> QED BY <3>2, <3>3
  <2>2. CASE (1 .. n) \ ToSet(q) = {}
    BY <2>2
  <2> QED BY <2>1, <2>2
<1>5. <<>> \in V /\ Len(<<>>) = 0
  OBVIOUS
<1> HIDE DEF V, More
<1>6. step \in [Nat \X V -> V] /\ \A k \in Nat : \A q \in V : step[<<k, q>>] = More(q)
  BY <1>4
<1> HIDE DEF step
<1>7. PICK c : Iterates(c, V, <<>>, step)
  BY <1>5, <1>6, Recursion
<1>8. c \in [Nat -> V] /\ c[0] = <<>> /\ \A k \in Nat : c[k + 1] = More(c[k])
  BY <1>6, <1>7 DEF Iterates
<1> DEFINE S == {k \in Nat : k <= K => Len(c[k]) = k}
<1>9. 0 \in S
  BY <1>5, <1>8
<1>10. ASSUME NEW k \in Nat, k + 1 <= K, Len(c[k]) = k
       PROVE  /\ (1 .. n) \ ToSet(c[k]) # {}
              /\ c[k + 1] = Append(c[k], Best(c[k])) /\ Len(c[k + 1]) = k + 1
  <2>1. PICK q : q = c[k]
    OBVIOUS
  <2>2. q \in Seq(1 .. n) /\ Len(q) < n
    BY <1>8, <1>10, <2>1 DEF V
  <2>3. (1 .. n) \ ToSet(q) # {}
    BY <2>2, SomeLeft
  <2>4. More(q) = Append(q, Best(q)) /\ Len(Append(q, Best(q))) = k + 1
    BY <1>10, <2>1, <2>2, <2>3 DEF More
  <2> QED BY <1>8, <2>1, <2>3, <2>4
<1>11. ASSUME NEW k \in S PROVE k + 1 \in S
  <2> SUFFICES ASSUME k + 1 <= K PROVE Len(c[k + 1]) = k + 1
    OBVIOUS
  <2>1. k \in Nat /\ Len(c[k]) = k
    OBVIOUS
  <2> QED BY <1>10, <2>1
<1> HIDE DEF S
<1>12. Nat \subseteq S
  BY <1>9, <1>11, AllNumbers
<1>13. \A k \in 0 .. K : Len(c[k]) = k
  BY <1>12 DEF S
<1> DEFINE f == [k \in 0 .. K |-> c[k]]
<1>14. ASSUME NEW k \in 1 .. K
       PROVE  /\ k - 1 \in 0 .. K /\ Len(c[k - 1]) = k - 1
              /\ (1 .. n) \ ToSet(c[k - 1]) # {}
              /\ c[k] = Append(c[k - 1], Best(c[k - 1]))
  <2>1. k - 1 \in Nat /\ (k - 1) + 1 <= K /\ (k - 1) + 1 = k /\ k - 1 \in 0 .. K
    OBVIOUS
  <2> QED BY <1>10, <1>13, <2>1
<1>15. f = Pass(f)
  <2>1. ASSUME NEW k \in 0 .. K
        PROVE  f[k] = IF k = 0 THEN <<>> ELSE Append(f[k - 1], Best(f[k - 1]))
    <3>1. CASE k = 0
      BY <1>8, <3>1
    <3>2. CASE k # 0
      <4>1. k \in 1 .. K
        BY <3>2
      <4> QED BY <1>14, <3>2, <4>1
    <3> QED BY <3>1, <3>2
  <2> QED BY <2>1
<1>16. I = Pass(I)
  BY <1>15
<1> HIDE DEF I
<1> DEFINE T == {k \in Nat : k <= K => I[k] = c[k]}
<1>17. 0 \in T
  BY <1>8, <1>16
<1>18. ASSUME NEW k \in T PROVE k + 1 \in T
  <2> SUFFICES ASSUME k + 1 <= K PROVE I[k + 1] = c[k + 1]
    OBVIOUS
  <2>1. k + 1 \in 1 .. K /\ k + 1 \in 0 .. K /\ k + 1 # 0 /\ (k + 1) - 1 = k /\ I[k] = c[k]
    OBVIOUS
  <2>2. I[k + 1] = Append(I[k], Best(I[k]))
    BY <1>16, <2>1
  <2>3. c[k + 1] = Append(c[k], Best(c[k]))
    BY <1>14, <2>1
  <2> QED BY <2>1, <2>2, <2>3
<1> HIDE DEF T
<1>19. Nat \subseteq T
  BY <1>17, <1>18, AllNumbers
<1>20. I[K] = c[K]
  BY <1>19 DEF T
<1>21. f \in [0 .. K -> V] /\ f[0] = <<>> /\ f[K] = MMRSelect(n, rel, sim, lambda, K)
  <2>1. 0 \in 0 .. K /\ K \in 0 .. K /\ 0 .. K \subseteq Nat
    OBVIOUS
  <2>2. f \in [0 .. K -> V]
    BY <1>8, <2>1
  <2> QED BY <1>3, <1>8, <1>20, <2>1, <2>2
<1>22. ASSUME NEW k \in 1 .. K
       PROVE  /\ Len(f[k - 1]) = k - 1
              /\ (1 .. n) \ ToSet(f[k - 1]) # {}
              /\ f[k] = Append(f[k - 1], Best(f[k - 1]))
  <2>1. f[k] = c[k] /\ f[k - 1] = c[k - 1]
    BY <1>14
  <2> QED BY <1>14, <2>1
<1> HIDE DEF f
<1> QED BY <1>21, <1>22 DEF ChosenOf, V, Best

(* What was chosen stays chosen, in the order it was.                      *)
MMRChoices(picked, f, n, rel, sim, lambda, K) ==
  /\ Len(picked) = K
  /\ \A k \in 1 .. K : picked[k] = MMRBest(rel, sim, lambda, f[k - 1], (1 .. n) \ ToSet(f[k - 1]))
  /\ \A k \in 1 .. K : ToSet(f[k - 1]) = {picked[j] : j \in 1 .. k - 1}

(* So is the result of mmr_select.                                         *)
LEMMA ChoicesStay ==
  ASSUME NEW n \in Nat, NEW rel, NEW sim, NEW lambda, NEW K \in Nat, NEW f,
         ChosenOf(f, n, rel, sim, lambda, K)
  PROVE  \A picked : picked = f[K] => MMRChoices(picked, f, n, rel, sim, lambda, K)
<1> SUFFICES ASSUME NEW picked, picked = f[K]
             PROVE  MMRChoices(picked, f, n, rel, sim, lambda, K)
  OBVIOUS
<1> DEFINE Best(q) == MMRBest(rel, sim, lambda, q, (1 .. n) \ ToSet(q))
<1>1. /\ \A k \in 0 .. K : f[k] \in Seq(1 .. n)
      /\ f[0] = <<>>
      /\ \A k \in 1 .. K : Len(f[k - 1]) = k - 1 /\ f[k] = Append(f[k - 1], Best(f[k - 1]))
  BY DEF ChosenOf
<1> HIDE DEF Best
<1>2. ASSUME NEW k \in 1 .. K
      PROVE  /\ k - 1 \in 0 .. K /\ f[k - 1] \in Seq(1 .. n) /\ Len(f[k]) = k
             /\ f[k][k] = Best(f[k - 1]) /\ \A j \in 1 .. k - 1 : f[k][j] = f[k - 1][j]
  <2>1. k - 1 \in 0 .. K
    OBVIOUS
  <2>2. PICK q, x : q = f[k - 1] /\ x = Best(f[k - 1])
    OBVIOUS
  <2>3. q \in Seq(1 .. n) /\ Len(q) = k - 1 /\ f[k] = Append(q, x)
    BY <1>1, <2>1, <2>2
  <2>4. Len(Append(q, x)) = k /\ Append(q, x)[k] = x /\ \A j \in 1 .. k - 1 : Append(q, x)[j] = q[j]
    BY <2>3
  <2> QED BY <2>1, <2>2, <2>3, <2>4
<1>3. \A k \in 0 .. K : Len(f[k]) = k
  BY <1>1, <1>2
<1> DEFINE N == {m \in Nat : m <= K => \A k \in 1 .. m : f[m][k] = f[k][k]}
<1>4. 0 \in N
  OBVIOUS
<1>5. ASSUME NEW m \in N PROVE m + 1 \in N
  <2> SUFFICES ASSUME m + 1 <= K, NEW k \in 1 .. m + 1 PROVE f[m + 1][k] = f[k][k]
    OBVIOUS
  <2>1. m + 1 \in 1 .. K /\ (m + 1) - 1 = m /\ m <= K
    OBVIOUS
  <2>2. CASE k = m + 1
    BY <2>2
  <2>3. CASE k # m + 1
    <3>1. k \in 1 .. m
      BY <2>3
    <3>2. f[m + 1][k] = f[m][k]
      BY <1>2, <2>1, <3>1
    <3> QED BY <2>1, <3>1, <3>2
  <2> QED BY <2>2, <2>3
<1> HIDE DEF N
<1>6. Nat \subseteq N
  BY <1>4, <1>5, AllNumbers
<1>7. \A m \in 0 .. K : \A k \in 1 .. m : f[m][k] = f[k][k]
  BY <1>6 DEF N
<1>8. K \in 0 .. K /\ \A k \in 1 .. K : picked[k] = f[k][k]
  BY <1>7
<1>9. \A k \in 1 .. K : picked[k] = Best(f[k - 1])
  BY <1>2, <1>8
<1>10. ASSUME NEW k \in 1 .. K PROVE ToSet(f[k - 1]) = {picked[j] : j \in 1 .. k - 1}
  <2>1. k - 1 \in 0 .. K /\ f[k - 1] \in Seq(1 .. n) /\ Len(f[k - 1]) = k - 1
    BY <1>1, <1>2
  <2>2. PICK q : q = f[k - 1]
    OBVIOUS
  <2>3. DOMAIN q = 1 .. k - 1
    BY <2>1, <2>2
  <2>4. \A j \in 1 .. k - 1 : q[j] = picked[j]
    <3> TAKE j \in 1 .. k - 1
    <3>1. j \in 1 .. K
      OBVIOUS
    <3> QED BY <1>7, <1>8, <2>1, <2>2, <3>1
  <2> QED BY <2>2, <2>3, <2>4 DEF ToSet
<1> QED BY <1>3, <1>8, <1>9, <1>10 DEF Best, MMRChoices

(* mmr_select takes near-duplicates last: similarities are at most one,    *)
(* and a copy's is one.                                                    *)
LEMMA CopiesLast ==
  ASSUME NEW n \in Nat, NEW rel \in [1 .. n -> Int], NEW sim \in Similarities(n),
         NEW lambda \in 0 .. 100, NEW limit \in Nat
  PROVE  DuplicatesLast(n, rel, sim, lambda, MMRSelect(n, rel, sim, lambda, limit))
<1>1. PICK K \in Nat : K = Min({n, limit}) /\ K <= n
  BY DEF Min
<1>2. MMRSelect(n, rel, sim, lambda, limit) = MMRSelect(n, rel, sim, lambda, K)
  <2>1. Min({n, K}) = Min({n, limit})
    BY <1>1 DEF Min
  <2> QED BY <2>1 DEF MMRSelect
<1>3. lambda \in Int
  OBVIOUS
<1>4. PICK f : ChosenOf(f, n, rel, sim, lambda, K)
  BY <1>1, <1>3, MMRSteps
<1>5. /\ \A k \in 0 .. K : f[k] \in Seq(1 .. n)
      /\ f[K] = MMRSelect(n, rel, sim, lambda, K)
      /\ \A k \in 1 .. K : (1 .. n) \ ToSet(f[k - 1]) # {}
  BY <1>4 DEF ChosenOf
<1>6. PICK picked : picked = f[K]
  OBVIOUS
<1>c. /\ Len(picked) = K
      /\ \A k \in 1 .. K : picked[k] = MMRBest(rel, sim, lambda, f[k - 1], (1 .. n) \ ToSet(f[k - 1]))
      /\ \A k \in 1 .. K : ToSet(f[k - 1]) = {picked[j] : j \in 1 .. k - 1}
  <2>1. MMRChoices(picked, f, n, rel, sim, lambda, K)
    BY <1>1, <1>4, <1>6, ChoicesStay
  <2> QED BY <2>1 DEF MMRChoices
<1>7. picked \in Seq(1 .. n) /\ Len(picked) = K /\ DOMAIN picked = 1 .. K
  <2>1. K \in 0 .. K
    OBVIOUS
  <2>2. picked \in Seq(1 .. n) /\ Len(picked) = K
    BY <1>5, <1>6, <1>c, <2>1
  <2> QED BY <2>2
<1>8. ASSUME NEW k \in 1 .. K, NEW p, p = picked[k],
             NEW before, before = {picked[j] : j \in 1 .. k - 1},
             NEW s \in before, sim[p][s] = 100,
             NEW c \in (1 .. n) \ (before \cup {p})
      PROVE  lambda * (rel[p] - rel[c]) >= (100 - lambda) * (100 - Max({sim[c][t] : t \in before}))
  <2>1. PICK q : q = f[k - 1]
    OBVIOUS
  <2>2. q \in Seq(1 .. n) /\ (1 .. n) \ ToSet(q) # {}
    <3>1. k - 1 \in 0 .. K
      OBVIOUS
    <3> QED BY <1>5, <2>1, <3>1
  <2>3. ToSet(q) = before /\ p = MMRBest(rel, sim, lambda, q, (1 .. n) \ ToSet(q))
    <3>1. ToSet(q) = before
      BY <1>8, <1>c, <2>1
    <3>2. p = MMRBest(rel, sim, lambda, q, (1 .. n) \ ToSet(q))
      BY <1>8, <1>c, <2>1
    <3> QED BY <3>1, <3>2
  <2>4. PICK left \in SUBSET (1 .. n) : left = (1 .. n) \ before
    OBVIOUS
  <2>5. p \in left /\ c \in left
        /\ MMRScore(rel, sim, lambda, q, p) >= MMRScore(rel, sim, lambda, q, c)
    <3>1. c \in left /\ left # {}
      BY <2>4
    <3> QED BY <1>3, <2>2, <2>3, <2>4, <3>1, MMRBestIs
  <2>6. q # <<>>
    BY <2>3 DEF ToSet
  <2>7. PICK mp, mc : mp = Max({sim[p][t] : t \in before}) /\ mc = Max({sim[c][t] : t \in before})
    OBVIOUS
  <2>a. ASSUME NEW x \in 1 .. n
        PROVE  /\ Max({sim[x][t] : t \in before}) \in Int
               /\ \A t \in before : sim[x][t] <= Max({sim[x][u] : u \in before})
               /\ Max({sim[x][t] : t \in before}) \in {sim[x][t] : t \in before}
    <3>1. q \in Seq(1 .. n)
      BY <2>2
    <3>2. q # <<>> /\ ToSet(q) = before
      BY <2>3, <2>6
    <3>3. Greatest(Max({sim[x][t] : t \in ToSet(q)}), sim, x, ToSet(q))
      BY <3>1, <3>2, MostSimilar, Zenon
    <3>4. PICK g : g = Max({sim[x][t] : t \in before})
      OBVIOUS
    <3>5. Greatest(g, sim, x, before)
      BY <3>2, <3>3, <3>4
    <3>6. g \in Int /\ g \in {sim[x][t] : t \in before} /\ \A t \in before : sim[x][t] <= g
      BY <3>5 DEF Greatest
    <3> QED BY <3>4, <3>6
  <2>b. p \in 1 .. n /\ c \in 1 .. n
    BY <2>5
  <2>8. mp \in Int /\ mp >= 100 /\ mp \in {sim[p][t] : t \in before}
    <3>1. mp \in Int /\ mp \in {sim[p][t] : t \in before} /\ sim[p][s] <= mp
      BY <2>7, <2>a, <2>b
    <3> QED BY <1>8, <3>1
  <2>9. mp = 100
    <3>1. before \in SUBSET (1 .. n)
      <4>1. \A i \in DOMAIN q : q[i] \in 1 .. n
        BY <2>2
      <4> QED BY <2>3, <4>1 DEF ToSet
    <3>2. \A t \in before : sim[p][t] <= 100
      BY <2>b, <3>1, SimilarityTyped
    <3>3. mp <= 100
      BY <2>8, <3>2
    <3> QED BY <2>8, <3>3
  <2>10. mc \in Int
    BY <2>7, <2>a, <2>b
  <2>11. /\ MMRScore(rel, sim, lambda, q, p) = lambda * rel[p] - (100 - lambda) * mp
         /\ MMRScore(rel, sim, lambda, q, c) = lambda * rel[c] - (100 - lambda) * mc
    BY <2>3, <2>6, <2>7 DEF MMRScore
  <2>12. rel[p] \in Int /\ rel[c] \in Int
    BY <2>5
  <2>13. \A a, b, m \in Int :
           lambda * a - (100 - lambda) * 100 >= lambda * b - (100 - lambda) * m
             => lambda * (a - b) >= (100 - lambda) * (100 - m)
    <3> TAKE a, b, m \in Int
    <3>1. lambda * (a - b) = lambda * a - lambda * b
      OBVIOUS
    <3>2. (100 - lambda) * (100 - m) = (100 - lambda) * 100 - (100 - lambda) * m
      OBVIOUS
    <3>3. lambda * a \in Int /\ lambda * b \in Int /\ (100 - lambda) * 100 \in Int
          /\ (100 - lambda) * m \in Int
      OBVIOUS
    <3> QED BY <3>1, <3>2, <3>3
  <2>14. PICK a, b : a = rel[p] /\ b = rel[c]
    OBVIOUS
  <2>15. lambda * a - (100 - lambda) * 100 >= lambda * b - (100 - lambda) * mc
    BY <2>5, <2>9, <2>11, <2>14
  <2>16. a \in Int /\ b \in Int
    BY <2>12, <2>14
  <2>17. lambda * (a - b) >= (100 - lambda) * (100 - mc)
    BY <2>10, <2>13, <2>15, <2>16
  <2> QED BY <2>7, <2>14, <2>17
<1>9. DuplicatesLast(n, rel, sim, lambda, picked)
  <2> DEFINE Bef(k) == {picked[j] : j \in 1 .. k - 1}
             Copy(k, c) == \E s \in Bef(k) : sim[c][s] = 100
  <2>1. ASSUME NEW k \in 1 .. K, Copy(k, picked[k]), NEW c \in (1 .. n) \ (Bef(k) \cup {picked[k]})
        PROVE  Copy(k, c) \/ lambda * (rel[picked[k]] - rel[c]) >=
                              (100 - lambda) * (100 - Max({sim[c][s] : s \in Bef(k)}))
    <3>1. PICK p, before : p = picked[k] /\ before = Bef(k)
      OBVIOUS
    <3>2. PICK s \in before : sim[p][s] = 100
      BY <2>1, <3>1
    <3>3. c \in (1 .. n) \ (before \cup {p})
      BY <3>1
    <3>4. lambda * (rel[p] - rel[c]) >= (100 - lambda) * (100 - Max({sim[c][t] : t \in before}))
      BY <1>8, <3>1, <3>2, <3>3
    <3> HIDE DEF Bef, Copy
    <3> QED BY <3>1, <3>4
  <2>2. DuplicatesLast(n, rel, sim, lambda, picked) <=>
          \A k \in DOMAIN picked :
             Copy(k, picked[k]) =>
               \A c \in (1 .. n) \ (Bef(k) \cup {picked[k]}) :
                 Copy(k, c) \/ lambda * (rel[picked[k]] - rel[c]) >=
                              (100 - lambda) * (100 - Max({sim[c][s] : s \in Bef(k)}))
    BY DEF DuplicatesLast
  <2> HIDE DEF Bef, Copy
  <2> QED BY <1>7, <2>1, <2>2
<1> QED BY <1>2, <1>5, <1>6, <1>9

(* A set of two different elements has two of them.                        *)
LEMMA PairHasTwo ==
  ASSUME NEW a, NEW b, a # b PROVE Cardinality({a, b}) = 2
<1>1. IsFiniteSet({a}) /\ Cardinality({a}) = 1 /\ b \notin {a}
  BY FS_Singleton
<1>2. PICK both, one : both = {a} \cup {b} /\ one = Cardinality({a})
  OBVIOUS
<1>3. Cardinality(both) = one + 1
  BY <1>1, <1>2, FS_AddElement
<1>4. Cardinality(both) = 2
  BY <1>1, <1>2, <1>3
<1>5. both = {a, b}
  BY <1>2
<1> QED BY <1>4, <1>5

(* The angles between the candidates of a call are similarities.           *)
LEMMA AnglesTyped ==
  ASSUME NEW pair \in [Pairs -> {20, 60, 100}], NEW n \in Nat, Candidates = 1 .. n
  PROVE  Angles(pair) \in Similarities(n)
<1>1. ASSUME NEW i \in 1 .. n, NEW j \in 1 .. n
      PROVE  /\ Angles(pair)[i][j] \in Int /\ Angles(pair)[i][j] <= 100
             /\ Angles(pair)[i][j] = IF i = j THEN 100 ELSE pair[{i, j}]
  <2>1. Angles(pair)[i][j] = IF i = j THEN 100 ELSE pair[{i, j}]
    BY DEF Angles
  <2>2. ASSUME i # j PROVE pair[{i, j}] \in {20, 60, 100}
    <3>2. Cardinality({i, j}) = 2
      BY <2>2, PairHasTwo
    <3>3. {i, j} \in Pairs
      BY <3>2 DEF Pairs
    <3>4. \A both \in Pairs : pair[both] \in {20, 60, 100}
      OBVIOUS
    <3>5. PICK both : both = {i, j}
      OBVIOUS
    <3>6. both \in Pairs
      BY <3>3, <3>5
    <3>7. pair[both] \in {20, 60, 100}
      BY <3>4, <3>6
    <3> QED BY <3>5, <3>7
  <2> QED BY <2>1, <2>2
<1>2. Angles(pair) = [i \in 1 .. n |-> [j \in 1 .. n |-> IF i = j THEN 100 ELSE pair[{i, j}]]]
  BY DEF Angles
<1>3. PICK sim : sim = Angles(pair)
  OBVIOUS
<1>4. sim = [i \in 1 .. n |-> sim[i]] /\ \A i \in 1 .. n : sim[i] = [j \in 1 .. n |-> sim[i][j]]
  <2>1. sim = [i \in 1 .. n |-> sim[i]]
    BY <1>2, <1>3
  <2>2. \A i \in 1 .. n : sim[i] = [j \in 1 .. n |-> IF i = j THEN 100 ELSE pair[{i, j}]]
    BY <1>2, <1>3
  <2> QED BY <2>1, <2>2
<1>5. \A i \in 1 .. n : sim[i] \in [1 .. n -> Int]
  BY <1>1, <1>3, <1>4
<1>6. sim \in [1 .. n -> [1 .. n -> Int]]
  BY <1>4, <1>5
<1> QED BY <1>1, <1>3, <1>6 DEF Similarities

(* Each selection by itself.                                               *)
LEMMA DiversityOfCall ==
  ASSUME Diversify PROVE DiversitySound'
<1>1. PICK rel \in [Candidates -> {20, 100}], pair \in [Pairs -> {20, 60, 100}], lambda \in Weights :
         call' = [of |-> "mmr", rel |-> rel, lambda |-> lambda, limit |-> Cardinality(Chunks),
                  sim |-> Angles(pair)]
  BY DEF Diversify
<1>2. PICK n, limit : limit = Cardinality(Chunks) /\ n = limit + 1
  OBVIOUS
<1>3. n \in Nat /\ limit \in Nat /\ Candidates = 1 .. n
  BY <1>2, AlgorithmConstants, FS_CardinalityType DEF Candidates
<1>4. PICK sim : sim = Angles(pair)
  OBVIOUS
<1>5. sim \in Similarities(n)
  BY <1>3, <1>4, AnglesTyped
<1>6. rel \in [1 .. n -> Int] /\ Len(rel) = n /\ lambda \in 0 .. 100
  <2>1. rel = [i \in 1 .. n |-> rel[i]] /\ \A i \in 1 .. n : rel[i] \in Int
    BY <1>3
  <2>2. rel \in Seq(Int) /\ DOMAIN rel = 1 .. n
    BY <1>3, <2>1
  <2> QED BY <1>3, <2>1, <2>2, AlgorithmConstants
<1>7. DuplicatesLast(n, rel, sim, lambda, MMRSelect(n, rel, sim, lambda, limit))
  BY <1>3, <1>5, <1>6, CopiesLast
<1>8. /\ call'.rel = rel /\ call'.sim = sim /\ call'.lambda = lambda /\ call'.limit = limit
  BY <1>1, <1>2, <1>4
<1> QED BY <1>6, <1>7, <1>8 DEF DiversitySound

(* What the search found is a list of chunks, some of them several times.  *)
LEMMA HitsTyped == Hits \subseteq Seq(Chunks)
<1>1. Cardinality(Chunks) \in Nat /\ Chunks \in SUBSET Chunks
  BY AlgorithmConstants, FS_CardinalityType
<1> QED BY <1>1, SeqOfTyped DEF Hits

(* One reranking by score, one by the model.                               *)
LEMMA RerankOfCall ==
  ASSUME Rerank \/ RerankByModel PROVE RerankSound'
<1>0. Cardinality(Chunks) \in Nat /\ 3 \in Nat
  BY AlgorithmConstants, FS_CardinalityType
<1>1. CASE Rerank
  <2>1. PICK cands \in Hits, scores \in SeqOf(Points, Cardinality(Chunks)),
             limit \in 1 .. Cardinality(Chunks) :
           call' = [of |-> "rank", cands |-> cands, scores |-> scores, limit |-> limit]
    BY <1>1 DEF Rerank
  <2>2. cands \in Seq(Chunks) /\ scores \in Seq(Int) /\ limit \in Nat
    <3>1. cands \in Seq(Chunks)
      BY HitsTyped
    <3>2. scores \in Seq(Int)
      BY <1>0, AlgorithmConstants, SeqOfTyped
    <3> QED BY <1>0, <3>1, <3>2
  <2>3. RanksBest(cands, scores, limit, RankByScores(cands, scores, limit))
    BY <2>2, RankedByScore
  <2>4. Len(scores) \in {0, Len(cands)} =>
          KeepsEnough(cands, limit, CrossEncoderRerank(cands, scores, limit))
    BY <2>2, CrossEncoderKeepsEnough
  <2>5. call'.of = "rank" /\ call'.cands = cands /\ call'.scores = scores /\ call'.limit = limit
    BY <2>1
  <2> QED BY <2>3, <2>4, <2>5 DEF RerankSound
<1>2. CASE RerankByModel
  <2>1. PICK cands \in Hits, numbers \in SeqOf(0 .. Cardinality(Chunks) + 1, 3),
             limit \in 1 .. Cardinality(Chunks) :
           call' = [of |-> "llm", cands |-> cands, numbers |-> numbers, limit |-> limit]
    BY <1>2 DEF RerankByModel
  <2>3. cands \in Seq(Chunks)
    BY HitsTyped
  <2>4. numbers \in Seq(Int) /\ limit \in Nat
    <3>1. 0 .. Cardinality(Chunks) + 1 \in SUBSET Int
      BY <1>0
    <3>2. numbers \in Seq(Int)
      BY <1>0, <3>1, SeqOfTyped
    <3> QED BY <1>0, <3>2
  <2>5. FollowsModel(cands, numbers, limit, LLMRerank(cands, numbers, limit))
    BY <2>3, <2>4, RerankFollowsModel
  <2>6. call'.of = "llm" /\ call'.cands = cands /\ call'.numbers = numbers /\ call'.limit = limit
    BY <2>1
  <2> QED BY <2>5, <2>6 DEF RerankSound
<1> QED BY <1>1, <1>2

(* One merge, one expansion.                                               *)
LEMMA MergeOfCall ==
  ASSUME Merge \/ Expand PROVE MergeSound'
<1>0. Cardinality(Chunks) \in Nat /\ 2 \in Nat /\ 3 \in Nat
  BY AlgorithmConstants, FS_CardinalityType
<1>1. CASE Merge
  <2>1. PICK results \in SeqOf(SeqOf(Chunks, 2), 2), limit \in 1 .. Cardinality(Chunks) :
           call' = [of |-> "merge", results |-> results, limit |-> limit]
    BY <1>1 DEF Merge
  <2>2. SeqOf(Chunks, 2) \in SUBSET Seq(Chunks)
    BY <1>0, SeqOfTyped
  <2>3. results \in Seq(Seq(Chunks)) /\ limit \in Nat
    BY <1>0, <2>2, SeqOfTyped
  <2>4. MergedOnce(results, limit, MergeUnique(results, limit))
    BY <2>3, MergesOnce
  <2>5. call'.of = "merge" /\ call'.results = results /\ call'.limit = limit
    BY <2>1
  <2> QED BY <2>4, <2>5 DEF MergeSound
<1>2. CASE Expand
  <2>1. PICK variants \in SeqOf(Chunks, 3), query \in Chunks, n \in 1 .. 2, same \in SUBSET Chunks :
           /\ query \in same
           /\ call' = [of |-> "expand", query |-> query, variants |-> variants, n |-> n, same |-> same]
    BY <1>2 DEF Expand
  <2>2. variants \in Seq(Chunks) /\ n \in Nat
    BY <1>0, SeqOfTyped
  <2>3. QuestionKept(query, n, same, ExpandQuery(query, variants, n, same))
    BY <2>1, <2>2, ExpandsQuestion
  <2>4. /\ call'.of = "expand" /\ call'.query = query /\ call'.variants = variants
        /\ call'.n = n /\ call'.same = same
    BY <2>1
  <2> QED BY <2>3, <2>4 DEF MergeSound
<1> QED BY <1>1, <1>2

(* Whatever is selected from, copies included: MMR takes them last, the    *)
(* reranker that scores keeps the best and as many as asked for, the one   *)
(* that asks the model follows it and loses no text, merging shows each    *)
(* passage once, and the question itself is searched.                      *)
THEOREM SelectionAlwaysSound == CallsSpec => []SelectionSound
<1>1. CallsInit => SelectionSound
  BY DEF CallsInit, NoCall, SelectionSound, DiversitySound, RerankSound, MergeSound
<1>2. ASSUME SelectionSound, [CallsNext]_call PROVE SelectionSound'
  <2>1. CASE UNCHANGED call
    BY <1>2, <2>1 DEF SelectionSound, DiversitySound, RerankSound, MergeSound
  <2>2. CASE CallsNext
    <3>1. DiversitySound'
      <4>1. CASE call'.of # "mmr"
        BY <4>1 DEF DiversitySound
      <4>2. CASE call'.of = "mmr"
        <5>1. Diversify
          BY <2>2, <4>2, CallsMade
        <5> QED BY <5>1, DiversityOfCall
      <4> QED BY <4>1, <4>2
    <3>2. RerankSound'
      <4>1. CASE call'.of # "rank" /\ call'.of # "llm"
        BY <4>1 DEF RerankSound
      <4>2. CASE call'.of = "rank" \/ call'.of = "llm"
        <5>1. Rerank \/ RerankByModel
          BY <2>2, <4>2, CallsMade
        <5> QED BY <5>1, RerankOfCall
      <4> QED BY <4>1, <4>2
    <3>3. MergeSound'
      <4>1. CASE call'.of # "merge" /\ call'.of # "expand"
        BY <4>1 DEF MergeSound
      <4>2. CASE call'.of = "merge" \/ call'.of = "expand"
        <5>1. Merge \/ Expand
          BY <2>2, <4>2, CallsMade
        <5> QED BY <5>1, MergeOfCall
      <4> QED BY <4>1, <4>2
    <3> QED BY <3>1, <3>2, <3>3 DEF SelectionSound
  <2> QED BY <1>2, <2>1, <2>2
<1> QED BY <1>1, <1>2, PTL DEF CallsSpec
-----------------------------------------------------------------------------
(* Windows move on, but never by more than a chunk.                        *)
LEMMA StepIs ==
  ASSUME NEW size \in Nat \ {0}, NEW overlap \in Nat
  PROVE  /\ Step(size, overlap) \in Nat \ {0} /\ Step(size, overlap) <= size
         /\ overlap < size => Step(size, overlap) = size - overlap
<1>1. Step(size, overlap) = IF size - overlap >= 1 THEN size - overlap ELSE 1
  BY DEF Step, Max
<1> QED BY <1>1

(* Multiplication is monotone.                                             *)
LEMMA TimesGrows ==
  ASSUME NEW a \in Int, NEW b \in Int, NEW s \in Nat, a <= b
  PROVE  a * s <= b * s /\ a * s \in Int /\ b * s \in Int
<1>1. PICK d \in Nat : b = a + d
  <2>1. b - a \in Nat /\ b = a + (b - a)
    OBVIOUS
  <2> QED BY <2>1
<1>2. b * s = a * s + d * s /\ d * s \in Nat /\ a * s \in Int
  BY <1>1
<1> QED BY <1>2

(* The windows over n words: where they begin and end.  They move on, none *)
(* is longer than a chunk, and words closer than the overlap share one.    *)
Slices(K, from, to, n, size, overlap) ==
  /\ K \in Nat /\ Windows(n, size, overlap) = 1 .. K
  /\ \A k \in 1 .. K : /\ from[k] = (k - 1) * Step(size, overlap)
                       /\ to[k] = Min({from[k] + size, n})
                       /\ from[k] \in Nat /\ to[k] \in Nat
                       /\ from[k] < to[k] /\ to[k] <= n /\ to[k] <= from[k] + size
  /\ \A j, k \in 1 .. K : j < k => from[j] < from[k] /\ to[j] < to[k]
  /\ \A a \in 1 .. n : \E k \in 1 .. K : from[k] < a /\ a <= to[k]
  /\ overlap < size => \A a \in 1 .. n : \A b \in a .. n : b <= a + overlap =>
                          \E k \in 1 .. K : from[k] < a /\ b <= to[k]

(* The windows of _word_chunk are such, for every size and overlap.        *)
LEMMA WindowsSlice ==
  ASSUME NEW n \in Nat, NEW size \in Nat \ {0}, NEW overlap \in Nat
  PROVE  \E K, from, to : Slices(K, from, to, n, size, overlap)
<1>1. PICK s \in Nat \ {0} : s = Step(size, overlap) /\ s <= size /\ (overlap < size => s = size - overlap)
  BY StepIs
<1>2. PICK W : W = Windows(n, size, overlap)
  OBVIOUS
<1>3. \A k : k \in W <=> /\ k \in 1 .. n /\ (k - 1) * s < n
                         /\ k = 1 \/ (k - 2) * s + size < n
  BY <1>1, <1>2 DEF Windows
<1>4. IsFiniteSet(1 .. n)
  <2>1. 1 \in Int /\ n \in Int
    OBVIOUS
  <2> QED BY <2>1, FS_Interval
<1>5. W \in SUBSET (1 .. n) /\ W \in SUBSET Int
  BY <1>3
<1>6. IsFiniteSet(W)
  BY <1>4, <1>5, FS_Subset
<1>7. PICK K \in Nat : /\ W = {} => K = 0
                       /\ W # {} => K \in W /\ \A k \in W : k <= K
  <2>1. CASE W = {}
    BY <2>1
  <2>2. CASE W # {}
    <3>1. Max(W) \in W /\ \A k \in W : Max(W) >= k
      BY <1>5, <1>6, <2>2, MaxOfFinite
    <3>2. PICK m : m = Max(W)
      OBVIOUS
    <3>3. m \in W /\ \A k \in W : m >= k
      BY <3>1, <3>2
    <3>4. m \in 1 .. n
      BY <1>5, <3>3
    <3>5. \A k \in W : k <= m
      <4>1. \A k \in W : k \in Int /\ m >= k
        BY <1>5, <3>3
      <4> QED BY <3>4, <4>1
    <3> QED BY <2>2, <3>3, <3>4, <3>5
  <2> QED BY <2>1, <2>2
<1>8. \A k \in Int : (k - 1) * s \in Int /\ (k - 2) * s \in Int
  OBVIOUS
<1>9. \A j, k \in Int : j <= k => (j - 1) * s <= (k - 1) * s /\ (j - 2) * s <= (k - 2) * s
  <2> TAKE j, k \in Int
  <2> HAVE j <= k
  <2>1. j - 1 \in Int /\ k - 1 \in Int /\ j - 1 <= k - 1 /\ j - 2 \in Int /\ k - 2 \in Int /\ j - 2 <= k - 2
    OBVIOUS
  <2>2. s \in Nat
    OBVIOUS
  <2>3. (j - 1) * s <= (k - 1) * s
    BY <2>1, <2>2, TimesGrows
  <2>4. (j - 2) * s <= (k - 2) * s
    BY <2>1, <2>2, TimesGrows
  <2> QED BY <2>3, <2>4
<1>10. \A k \in Int : /\ (k - 1) * s = (k - 2) * s + s /\ ((k + 1) - 1) * s = (k - 1) * s + s
                      /\ (k + 1) - 2 = k - 1
  OBVIOUS
<1>11. W = 1 .. K
  <2>1. CASE W = {}
    BY <1>7, <2>1
  <2>2. CASE W # {}
    <3>1. K \in W /\ K \in 1 .. n /\ \A k \in W : k <= K
      BY <1>5, <1>7, <2>2
    <3>2. ASSUME NEW k \in 1 .. K PROVE k \in W
      <4>1. k \in Int /\ K \in Int /\ k <= K /\ k \in 1 .. n
        BY <3>1
      <4>2. (k - 1) * s < n
        <5>1. (K - 1) * s < n
          BY <1>3, <3>1
        <5>2. (k - 1) * s <= (K - 1) * s
          BY <1>9, <4>1
        <5> QED BY <1>8, <4>1, <5>1, <5>2
      <4>3. k = 1 \/ (k - 2) * s + size < n
        <5>1. K = 1 \/ (K - 2) * s + size < n
          BY <1>3, <3>1
        <5>2. (k - 2) * s <= (K - 2) * s
          BY <1>9, <4>1
        <5>3. K = 1 => k = 1
          BY <4>1
        <5> QED BY <1>8, <4>1, <5>1, <5>2, <5>3
      <4> QED BY <1>3, <4>1, <4>2, <4>3
    <3>3. \A k \in W : k \in 1 .. K
      BY <1>5, <3>1
    <3> QED BY <3>2, <3>3
  <2> QED BY <2>1, <2>2
<1>12. n # 0 => 1 \in 1 .. K
  <2>1. (1 - 1) * s = 0
    OBVIOUS
  <2>2. n # 0 => 1 \in W
    BY <1>3, <2>1
  <2> QED BY <1>11, <2>2
<1>13. n # 0 => (K - 1) * s + size >= n
  <2> SUFFICES ASSUME n # 0, (K - 1) * s + size < n PROVE FALSE
    BY <1>8
  <2>1. ((K + 1) - 1) * s < n
    <3>1. (K - 1) * s \in Int /\ ((K + 1) - 1) * s = (K - 1) * s + s
      BY <1>8, <1>10
    <3> QED BY <1>1, <3>1
  <2>2. K + 1 <= n
    <3>1. K * 1 <= K * s
      <4>1. \A x, y \in Nat : y >= 1 => x <= x * y
        OBVIOUS
      <4> QED BY <4>1
    <3>2. (K + 1) - 1 = K /\ K * s \in Int
      OBVIOUS
    <3> QED BY <2>1, <3>1, <3>2
  <2>3. K + 1 \in W
    BY <1>3, <1>10, <2>1, <2>2
  <2> QED BY <1>11, <2>3
<1> DEFINE from == [k \in 1 .. K |-> (k - 1) * s]
           to == [k \in 1 .. K |-> Min({(k - 1) * s + size, n})]
<1>14. ASSUME NEW k \in 1 .. K
       PROVE  /\ from[k] = (k - 1) * s /\ from[k] \in Nat /\ from[k] < n
              /\ to[k] = Min({from[k] + size, n})
              /\ to[k] = IF from[k] + size <= n THEN from[k] + size ELSE n
  <2>1. from[k] = (k - 1) * s
    OBVIOUS
  <2>2. (k - 1) * s \in Nat
    <3>1. k - 1 \in Nat
      OBVIOUS
    <3>2. \A x \in Nat : x * s \in Nat
      OBVIOUS
    <3> QED BY <3>1, <3>2
  <2>3. (k - 1) * s < n
    BY <1>3, <1>11
  <2>4. to[k] = Min({from[k] + size, n})
    BY <2>1
  <2>5. PICK f : f = from[k]
    OBVIOUS
  <2>6. Min({f + size, n}) = IF f + size <= n THEN f + size ELSE n
    BY <2>1, <2>2, <2>5 DEF Min
  <2> QED BY <2>1, <2>2, <2>3, <2>4, <2>5, <2>6
<1>15. ASSUME NEW j \in 1 .. K, NEW k \in 1 .. K, j < k
       PROVE  from[j] < from[k] /\ from[j] + size < n
  <2>1. j + 1 \in Int /\ k \in Int /\ j + 1 <= k /\ j \in Int
    BY <1>15
  <2>2. ((j + 1) - 1) * s <= (k - 1) * s /\ ((j + 1) - 2) * s <= (k - 2) * s
    BY <1>9, <2>1
  <2>3. ((j + 1) - 1) * s = (j - 1) * s + s /\ (j + 1) - 2 = j - 1
    BY <1>10, <2>1
  <2>4. (k - 2) * s + size < n
    <3>1. k \in W
      BY <1>11
    <3>2. k # 1
      BY <2>1
    <3> QED BY <1>3, <3>1, <3>2
  <2>5. from[j] = (j - 1) * s /\ from[k] = (k - 1) * s /\ (j - 1) * s \in Int /\ (k - 1) * s \in Int /\ (k - 2) * s \in Int
    BY <1>8, <1>14, <2>1
  <2> QED BY <2>2, <2>3, <2>4, <2>5
<1> HIDE DEF from, to
<1>16. ASSUME NEW a \in 1 .. n
       PROVE  \E k \in 1 .. K : from[k] < a /\ (k = K \/ a <= from[k] + s)
  <2> DEFINE D == {k \in 1 .. K : from[k] < a}
  <2>1. 1 \in D
    <3>1. 1 \in 1 .. K
      BY <1>12
    <3>2. from[1] = (1 - 1) * s
      BY <1>14, <3>1
    <3>3. (1 - 1) * s = 0 /\ a > 0
      OBVIOUS
    <3>4. from[1] < a
      BY <3>2, <3>3
    <3> QED BY <3>1, <3>4
  <2>2. D \in SUBSET W /\ D \in SUBSET Int /\ D # {}
    BY <1>5, <1>11, <2>1
  <2>3. IsFiniteSet(D)
    BY <1>6, <2>2, FS_Subset
  <2>4. Max(D) \in D /\ \A k \in D : Max(D) >= k
    <3> HIDE DEF D
    <3> QED BY <2>2, <2>3, MaxOfFinite
  <2>5. PICK k : k = Max(D)
    OBVIOUS
  <2>6. k \in 1 .. K /\ from[k] < a /\ \A j \in D : j <= k
    BY <2>4, <2>5
  <2>7. ASSUME k # K PROVE a <= from[k] + s
    <3>1. k + 1 \in 1 .. K /\ ~ (k + 1 <= k) /\ k \in Int
      BY <2>6, <2>7
    <3>2. k + 1 \notin D
      BY <2>6, <3>1
    <3>3. ~ (from[k + 1] < a)
      BY <3>1, <3>2
    <3>4. from[k + 1] = from[k] + s /\ from[k + 1] \in Nat
      <4>1. from[k + 1] = ((k + 1) - 1) * s /\ from[k + 1] \in Nat
        BY <1>14, <3>1
      <4>2. from[k] = (k - 1) * s
        BY <1>14, <2>6
      <4> QED BY <1>10, <3>1, <4>1, <4>2
    <3>5. PICK f : f = from[k + 1]
      OBVIOUS
    <3>6. ~ (f < a) /\ f \in Nat
      BY <3>3, <3>4, <3>5
    <3>7. a <= f
      BY <3>6
    <3> QED BY <3>4, <3>5, <3>7
  <2> QED BY <2>6, <2>7
<1>17. ASSUME NEW k \in 1 .. K
       PROVE  from[k] < to[k] /\ to[k] <= n /\ to[k] <= from[k] + size /\ to[k] \in Nat
  <2>1. PICK f, t : f = from[k] /\ t = to[k]
    OBVIOUS
  <2>2. f \in Nat /\ f < n /\ t = IF f + size <= n THEN f + size ELSE n
    BY <1>14, <2>1
  <2>3. f < t /\ t <= n /\ t <= f + size /\ t \in Nat
    BY <2>2
  <2> QED BY <2>1, <2>3
<1>18. ASSUME NEW j \in 1 .. K, NEW k \in 1 .. K, j < k PROVE from[j] < from[k] /\ to[j] < to[k]
  <2>1. PICK f, t, g, u : f = from[j] /\ t = to[j] /\ g = from[k] /\ u = to[k]
    OBVIOUS
  <2>2. f \in Nat /\ t = IF f + size <= n THEN f + size ELSE n
    BY <1>14, <2>1
  <2>3. g \in Nat /\ u = IF g + size <= n THEN g + size ELSE n
    BY <1>14, <2>1
  <2>4. f < g /\ f + size < n
    BY <1>15, <1>18, <2>1
  <2>5. f < g /\ t < u
    BY <2>2, <2>3, <2>4
  <2> QED BY <2>1, <2>5
<1>19. ASSUME NEW a \in 1 .. n, NEW b \in a .. n, b <= a + (size - s)
       PROVE  \E k \in 1 .. K : from[k] < a /\ b <= to[k]
  <2>1. PICK k \in 1 .. K : from[k] < a /\ (k = K \/ a <= from[k] + s)
    BY <1>16
  <2>2. PICK f, t : f = from[k] /\ t = to[k]
    OBVIOUS
  <2>3. f \in Nat /\ t = IF f + size <= n THEN f + size ELSE n
    BY <1>14, <2>2
  <2>4. CASE k = K
    <3>1. f + size >= n
      <4>1. f = (K - 1) * s
        BY <1>14, <2>2, <2>4
      <4>2. n # 0
        OBVIOUS
      <4> QED BY <1>13, <4>1, <4>2
    <3>2. t = n
      <4>1. f \in Int /\ size \in Int /\ n \in Int /\ (f + size <= n => f + size = n)
        BY <2>3, <3>1
      <4> QED BY <2>3, <4>1
    <3>3. b <= n
      OBVIOUS
    <3> QED BY <2>1, <2>2, <3>2, <3>3
  <2>5. CASE a <= f + s
    <3>1. b <= f + size /\ b <= n
      BY <1>19, <2>3, <2>5
    <3>2. b <= t
      BY <2>3, <3>1
    <3> QED BY <2>1, <2>2, <3>2
  <2> QED BY <2>1, <2>2, <2>4, <2>5
<1>20. ASSUME NEW a \in 1 .. n PROVE \E k \in 1 .. K : from[k] < a /\ a <= to[k]
  <2>1. a \in a .. n /\ a <= a + (size - s)
    BY <1>1
  <2> QED BY <1>19, <2>1
<1>21. ASSUME overlap < size, NEW a \in 1 .. n, NEW b \in a .. n, b <= a + overlap
       PROVE  \E k \in 1 .. K : from[k] < a /\ b <= to[k]
  <2>1. size - s = overlap
    BY <1>1, <1>21
  <2> QED BY <1>19, <1>21, <2>1
<1>22. \A k \in 1 .. K : from[k] = (k - 1) * Step(size, overlap)
  BY <1>1, <1>14
<1>23. Slices(K, from, to, n, size, overlap)
  BY <1>2, <1>11, <1>14, <1>17, <1>18, <1>20, <1>21, <1>22 DEF Slices
<1> QED BY <1>23
-----------------------------------------------------------------------------
(* A text cut to pieces: they fit, hold all of its words and keep close    *)
(* ones together, and none is a part of another.                           *)
Pieces(cut, text, size, overlap, E) ==
  /\ cut \in Seq(Seq(E))
  /\ \A k \in 1 .. Len(cut) : Len(cut[k]) \in 1 .. size /\ ToSet(cut[k]) \subseteq ToSet(text)
  /\ \A a \in 1 .. Len(text) : \E k \in 1 .. Len(cut) : text[a] \in ToSet(cut[k])
  /\ overlap < size => \A a \in 1 .. Len(text) : \A b \in a .. Len(text) : b <= a + overlap =>
                          \E k \in 1 .. Len(cut) : {text[a], text[b]} \subseteq ToSet(cut[k])
  /\ \A j, k \in 1 .. Len(cut) : j # k => ~ ToSet(cut[j]) \subseteq ToSet(cut[k])

(* No word twice: what the numbers of the words come to.                   *)
NoneTwice(text) == \A a, b \in 1 .. Len(text) : text[a] = text[b] => a = b

(* _word_chunk cuts a text to pieces.                                      *)
LEMMA WordChunksArePieces ==
  ASSUME NEW E, NEW words \in Seq(E), NEW size \in Nat \ {0}, NEW overlap \in Nat, NoneTwice(words)
  PROVE  Pieces(WordChunks(words, size, overlap), words, size, overlap, E)
<1> DEFINE cut == WordChunks(words, size, overlap)
<1>1. PICK n : n = Len(words)
  OBVIOUS
<1>2. n \in Nat /\ \A x \in 1 .. n : words[x] \in E
  BY <1>1
<1>3. PICK K, from, to : Slices(K, from, to, n, size, overlap)
  BY <1>2, WindowsSlice
<1>4. /\ K \in Nat /\ Windows(n, size, overlap) = 1 .. K
      /\ \A k \in 1 .. K : /\ from[k] = (k - 1) * Step(size, overlap)
                           /\ to[k] = Min({from[k] + size, n})
                           /\ from[k] \in Nat /\ to[k] \in Nat
                           /\ from[k] < to[k] /\ to[k] <= n /\ to[k] <= from[k] + size
      /\ \A j, k \in 1 .. K : j < k => from[j] < from[k] /\ to[j] < to[k]
      /\ \A a \in 1 .. n : \E k \in 1 .. K : from[k] < a /\ a <= to[k]
      /\ overlap < size => \A a \in 1 .. n : \A b \in a .. n : b <= a + overlap =>
                              \E k \in 1 .. K : from[k] < a /\ b <= to[k]
  BY <1>3 DEF Slices
<1>5. cut = [k \in 1 .. K |-> SubSeq(words, from[k] + 1, to[k])]
  BY <1>1, <1>4 DEF WordChunks
<1> HIDE DEF cut
<1>6. ASSUME NEW k \in 1 .. K
      PROVE  /\ cut[k] \in Seq(E) /\ Len(cut[k]) \in 1 .. size
             /\ ToSet(cut[k]) = {words[x] : x \in from[k] + 1 .. to[k]}
  <2>1. PICK f, t : f = from[k] /\ t = to[k]
    OBVIOUS
  <2>2. f \in Nat /\ t \in Nat /\ f < t /\ t <= n /\ t <= f + size
    BY <1>4, <2>1
  <2>3. f + 1 \in Int /\ t \in Int /\ \A i \in f + 1 .. t : words[i] \in E
    BY <1>2, <2>2
  <2>4. PICK s : s = SubSeq(words, f + 1, t)
    OBVIOUS
  <2>5. s \in Seq(E) /\ Len(s) = (IF f + 1 <= t THEN t - (f + 1) + 1 ELSE 0)
        /\ \A i \in 1 .. t - (f + 1) + 1 : s[i] = words[f + 1 + i - 1]
    BY <2>3, <2>4, SubSeqProperties
  <2>6. Len(s) = t - f /\ t - f \in 1 .. size
    BY <2>2, <2>5
  <2>7. \A i \in 1 .. t - f : s[i] = words[f + i] /\ f + i \in f + 1 .. t
    <3>1. \A i \in 1 .. t - f : i \in 1 .. t - (f + 1) + 1 /\ f + 1 + i - 1 = f + i /\ f + i \in f + 1 .. t
      BY <2>2
    <3> QED BY <2>5, <3>1
  <2>8. \A x \in f + 1 .. t : x - f \in 1 .. t - f /\ f + (x - f) = x
    BY <2>2
  <2>9. DOMAIN s = 1 .. t - f
    BY <2>5, <2>6
  <2>10. ToSet(s) = {words[x] : x \in f + 1 .. t}
    <3>1. ToSet(s) = {s[i] : i \in 1 .. t - f}
      BY <2>9 DEF ToSet
    <3>2. \A x \in f + 1 .. t : words[x] = s[x - f]
      BY <2>7, <2>8
    <3> QED BY <2>7, <2>8, <3>1, <3>2
  <2>11. cut[k] = s
    BY <1>5, <2>1, <2>4
  <2> QED BY <2>1, <2>5, <2>6, <2>10, <2>11
<1>7. cut \in Seq(Seq(E)) /\ Len(cut) = K
  <2>1. DOMAIN cut = 1 .. K /\ cut \in [1 .. K -> Seq(E)]
    BY <1>5, <1>6
  <2> QED BY <1>4, <2>1
<1>8. ToSet(words) = {words[x] : x \in 1 .. n}
  BY <1>1 DEF ToSet
<1>9. ASSUME NEW k \in 1 .. K PROVE ToSet(cut[k]) \subseteq ToSet(words)
  <2>1. PICK f, t : f = from[k] /\ t = to[k]
    OBVIOUS
  <2>2. f \in Nat /\ t \in Nat /\ t <= n
    BY <1>4, <2>1
  <2>3. \A x \in f + 1 .. t : x \in 1 .. n
    BY <1>2, <2>2
  <2>4. ToSet(cut[k]) = {words[x] : x \in f + 1 .. t}
    BY <1>6, <2>1
  <2> QED BY <1>8, <2>3, <2>4
<1>10. ASSUME NEW a \in 1 .. n, NEW k \in 1 .. K, from[k] < a, a <= to[k]
       PROVE  words[a] \in ToSet(cut[k])
  <2>1. PICK f, t : f = from[k] /\ t = to[k]
    OBVIOUS
  <2>2. f \in Nat /\ t \in Nat /\ f < a /\ a <= t
    BY <1>4, <1>10, <2>1
  <2>3. a \in f + 1 .. t
    BY <2>2
  <2>4. ToSet(cut[k]) = {words[x] : x \in f + 1 .. t}
    BY <1>6, <2>1
  <2> QED BY <2>3, <2>4
<1>11. ASSUME NEW a \in 1 .. n PROVE \E k \in 1 .. K : words[a] \in ToSet(cut[k])
  BY <1>4, <1>10
<1>12. ASSUME overlap < size, NEW a \in 1 .. n, NEW b \in a .. n, b <= a + overlap
       PROVE  \E k \in 1 .. K : {words[a], words[b]} \subseteq ToSet(cut[k])
  <2>1. PICK k \in 1 .. K : from[k] < a /\ b <= to[k]
    BY <1>4, <1>12
  <2>2. PICK f, t : f = from[k] /\ t = to[k]
    OBVIOUS
  <2>3. f \in Nat /\ t \in Nat /\ f < a /\ b <= t
    BY <1>4, <2>1, <2>2
  <2>4. a <= t /\ f < b /\ b \in 1 .. n
    BY <2>3
  <2>5. words[a] \in ToSet(cut[k])
    BY <1>10, <2>2, <2>3, <2>4
  <2>6. words[b] \in ToSet(cut[k])
    BY <1>10, <2>2, <2>3, <2>4
  <2> QED BY <2>5, <2>6
<1>13. ASSUME NEW x \in 1 .. n, NEW k \in 1 .. K, words[x] \in ToSet(cut[k])
       PROVE  from[k] < x /\ x <= to[k]
  <2>1. PICK f, t : f = from[k] /\ t = to[k]
    OBVIOUS
  <2>2. f \in Nat /\ t \in Nat /\ t <= n
    BY <1>4, <2>1
  <2>3. ToSet(cut[k]) = {words[y] : y \in f + 1 .. t}
    BY <1>6, <2>1
  <2>4. PICK y \in f + 1 .. t : words[x] = words[y]
    BY <1>13, <2>3
  <2>5. y \in 1 .. n /\ f < y /\ y <= t
    BY <1>2, <2>2, <2>4
  <2>6. x = y
    BY <1>1, <2>4, <2>5 DEF NoneTwice
  <2> QED BY <2>1, <2>5, <2>6
<1>14. ASSUME NEW j \in 1 .. K, NEW k \in 1 .. K, j # k
       PROVE  ~ ToSet(cut[j]) \subseteq ToSet(cut[k])
  <2>1. PICK f, t, g, u : f = from[j] /\ t = to[j] /\ g = from[k] /\ u = to[k]
    OBVIOUS
  <2>2. f \in Nat /\ t \in Nat /\ f < t /\ t <= n /\ g \in Nat /\ u \in Nat
    BY <1>4, <2>1
  <2>3. words[f + 1] \in ToSet(cut[j]) /\ words[t] \in ToSet(cut[j])
    <3>1. f + 1 \in 1 .. n /\ t \in 1 .. n /\ f < f + 1 /\ f + 1 <= t
      BY <1>2, <2>2
    <3>2. words[f + 1] \in ToSet(cut[j])
      BY <1>10, <2>1, <3>1
    <3>3. words[t] \in ToSet(cut[j])
      BY <1>10, <2>1, <2>2, <3>1
    <3> QED BY <3>2, <3>3
  <2>4. CASE j < k
    <3>1. f < g
      BY <1>4, <2>1, <2>4
    <3>2. f + 1 \in 1 .. n /\ ~ (g < f + 1)
      BY <1>2, <2>2, <3>1
    <3> QED BY <1>13, <2>1, <2>3, <3>2
  <2>5. CASE k < j
    <3>1. u < t
      BY <1>4, <2>1, <2>5
    <3>2. t \in 1 .. n /\ ~ (t <= u)
      BY <1>2, <2>2, <3>1
    <3> QED BY <1>13, <2>1, <2>3, <3>2
  <2>6. j < k \/ k < j
    BY <1>4, <1>14
  <2> QED BY <2>4, <2>5, <2>6
<1>15. Pieces(cut, words, size, overlap, E)
  BY <1>1, <1>6, <1>7, <1>9, <1>11, <1>12, <1>14 DEF Pieces
<1> QED BY <1>15 DEF cut

(* A text that fits is one piece.                                          *)
LEMMA ShortTextIsOnePiece ==
  ASSUME NEW E, NEW text \in Seq(E), NEW size \in Nat \ {0}, NEW overlap \in Nat, Len(text) \in 1 .. size
  PROVE  Pieces(<<text>>, text, size, overlap, E)
<1> DEFINE cut == <<text>>
<1>1. cut \in Seq(Seq(E)) /\ Len(cut) = 1 /\ cut[1] = text
  OBVIOUS
<1>2. \A a \in 1 .. Len(text) : text[a] \in ToSet(text)
  BY DEF ToSet
<1>3. \A a \in 1 .. Len(text) : \A b \in a .. Len(text) : b \in 1 .. Len(text)
  OBVIOUS
<1> HIDE DEF cut
<1>4. \A k \in 1 .. Len(cut) : k = 1
  BY <1>1
<1>5. 1 \in 1 .. Len(cut)
  BY <1>1
<1>6. Pieces(cut, text, size, overlap, E)
  BY <1>1, <1>2, <1>3, <1>4, <1>5 DEF Pieces
<1> QED BY <1>6 DEF cut
-----------------------------------------------------------------------------
(* What _markdown_chunk makes of each section.                             *)
CutsOf(cuts, doc, size, overlap, E) ==
  /\ cuts \in Seq(Seq(Seq(E))) /\ Len(cuts) = Len(doc)
  /\ MarkdownChunks(doc, size, overlap) =
       LET chunks == FlattenSeq(cuts) IN
       IF chunks # <<>> THEN chunks
       ELSE WordChunks(FlattenSeq([i \in 1 .. Len(doc) |-> Text(doc[i])]), size, overlap)
  /\ \A i \in 1 .. Len(doc) :
       IF Embeddable(doc[i]) THEN cuts[i] # <<>> /\ Pieces(cuts[i], Text(doc[i]), size, overlap, E)
                             ELSE cuts[i] = <<>>

(* The texts of a document's sections, and no word twice in any two.       *)
TextsOf(doc, E) ==
  /\ doc \in Seq([header : Seq(E), body : Seq(E)])
  /\ \A i \in 1 .. Len(doc) : /\ Text(doc[i]) \in Seq(E)
                              /\ Embeddable(doc[i]) => Text(doc[i]) # <<>>
  /\ \A i, j \in 1 .. Len(doc) : \A k \in 1 .. Len(Text(doc[i])), l \in 1 .. Len(Text(doc[j])) :
       Text(doc[i])[k] = Text(doc[j])[l] => i = j /\ k = l

(* The documents of the assumption are such.                               *)
LEMMA DocumentsTyped ==
  ASSUME NEW doc, Numbered(doc)
  PROVE  \E E : TextsOf(doc, E)
<1>1. PICK E : E = Words(doc, DOMAIN doc)
  OBVIOUS
<1> DEFINE S == [header : Seq(E), body : Seq(E)]
<1>2. doc \in Seq(S)
  BY <1>1 DEF Numbered
<1>3. \A s \in S : s.header \in Seq(E) /\ s.body \in Seq(E)
  OBVIOUS
<1> HIDE DEF S
<1>4. DOMAIN doc = 1 .. Len(doc) /\ \A i \in 1 .. Len(doc) : doc[i] \in S
  BY <1>2
<1>5. ASSUME NEW i \in 1 .. Len(doc)
      PROVE  /\ Text(doc[i]) \in Seq(E) /\ DOMAIN Text(doc[i]) = 1 .. Len(Text(doc[i]))
             /\ Embeddable(doc[i]) => Text(doc[i]) # <<>>
  <2>1. PICK p, q : p = doc[i].header /\ q = doc[i].body
    OBVIOUS
  <2>2. p \in Seq(E) /\ q \in Seq(E)
    BY <1>3, <1>4, <2>1
  <2>3. p \o q \in Seq(E) /\ Len(p \o q) = Len(p) + Len(q)
    BY <2>2
  <2>4. q # <<>> => Len(q) # 0
    BY <2>2
  <2>5. Len(p \o q) = 0 => Len(q) = 0
    BY <2>2, <2>3
  <2>6. q # <<>> => p \o q # <<>>
    BY <2>4, <2>5
  <2>7. Text(doc[i]) = p \o q /\ (Embeddable(doc[i]) => q # <<>>)
    BY <2>1 DEF Text, Embeddable
  <2> QED BY <2>3, <2>6, <2>7
<1>6. ASSUME NEW i \in 1 .. Len(doc), NEW j \in 1 .. Len(doc),
             NEW k \in 1 .. Len(Text(doc[i])), NEW l \in 1 .. Len(Text(doc[j])),
             Text(doc[i])[k] = Text(doc[j])[l]
      PROVE  i = j /\ k = l
  <2>1. \A x, y \in DOMAIN doc : \A c \in DOMAIN Text(doc[x]), d \in DOMAIN Text(doc[y]) :
          Text(doc[x])[c] = Text(doc[y])[d] => x = y /\ c = d
    BY DEF Numbered
  <2>2. i \in DOMAIN doc /\ j \in DOMAIN doc
    BY <1>4
  <2>3. k \in DOMAIN Text(doc[i]) /\ l \in DOMAIN Text(doc[j])
    BY <1>5
  <2> QED BY <1>6, <2>1, <2>2, <2>3
<1>7. doc \in Seq([header : Seq(E), body : Seq(E)])
  BY <1>2 DEF S
<1>8. TextsOf(doc, E)
  BY <1>5, <1>6, <1>7 DEF TextsOf
<1> QED BY <1>8

(* ... and are cut section by section.                                     *)
LEMMA SectionsAreCut ==
  ASSUME NEW E, NEW doc, TextsOf(doc, E), NEW size \in Nat \ {0}, NEW overlap \in Nat
  PROVE  \E cuts : CutsOf(cuts, doc, size, overlap, E)
<1> DEFINE Cut(section) == IF ~ Embeddable(section) THEN <<>>
                           ELSE IF Len(Text(section)) <= size THEN <<Text(section)>>
                           ELSE WordChunks(Text(section), size, overlap)
           cuts == [i \in DOMAIN doc |-> Cut(doc[i])]
<1>1. /\ DOMAIN doc = 1 .. Len(doc) /\ Len(doc) \in Nat
      /\ \A i \in 1 .. Len(doc) : Text(doc[i]) \in Seq(E) /\ (Embeddable(doc[i]) => Text(doc[i]) # <<>>)
      /\ \A i, j \in 1 .. Len(doc) : \A k \in 1 .. Len(Text(doc[i])), l \in 1 .. Len(Text(doc[j])) :
           Text(doc[i])[k] = Text(doc[j])[l] => i = j /\ k = l
  <2>1. DOMAIN doc = 1 .. Len(doc) /\ Len(doc) \in Nat
    BY DEF TextsOf
  <2> QED BY <2>1 DEF TextsOf
<1>2. MarkdownChunks(doc, size, overlap) =
        LET chunks == FlattenSeq(cuts) IN
        IF chunks # <<>> THEN chunks
        ELSE WordChunks(FlattenSeq([i \in 1 .. Len(doc) |-> Text(doc[i])]), size, overlap)
  BY <1>1 DEF MarkdownChunks
<1>3. ASSUME NEW i \in 1 .. Len(doc)
      PROVE  IF Embeddable(doc[i])
             THEN Cut(doc[i]) # <<>> /\ Pieces(Cut(doc[i]), Text(doc[i]), size, overlap, E)
             ELSE Cut(doc[i]) = <<>>
  <2>1. PICK text : text = Text(doc[i])
    OBVIOUS
  <2>2. text \in Seq(E) /\ NoneTwice(text) /\ (Embeddable(doc[i]) => text # <<>>)
    BY <1>1, <2>1 DEF NoneTwice
  <2>3. Len(text) \in Nat /\ (text # <<>> => Len(text) # 0)
    BY <2>2
  <2>4. CASE ~ Embeddable(doc[i])
    BY <2>4
  <2>5. CASE Embeddable(doc[i])
    <3>1. Pieces(Cut(doc[i]), text, size, overlap, E)
      <4>1. CASE Len(text) <= size
        <5>1. Len(text) \in 1 .. size
          BY <2>2, <2>3, <2>5, <4>1
        <5>2. Pieces(<<text>>, text, size, overlap, E)
          BY <2>2, <5>1, ShortTextIsOnePiece
        <5> QED BY <2>1, <2>5, <4>1, <5>2
      <4>2. CASE ~ (Len(text) <= size)
        <5>1. Pieces(WordChunks(text, size, overlap), text, size, overlap, E)
          BY <2>2, WordChunksArePieces
        <5> QED BY <2>1, <2>5, <4>2, <5>1
      <4> QED BY <4>1, <4>2
    <3> HIDE DEF Cut
    <3>2. 1 \in 1 .. Len(text)
      BY <2>2, <2>3, <2>5
    <3>3. PICK k \in 1 .. Len(Cut(doc[i])) : text[1] \in ToSet(Cut(doc[i])[k])
      BY <3>1, <3>2 DEF Pieces
    <3>4. Cut(doc[i]) # <<>>
      BY <3>3
    <3> QED BY <2>1, <2>5, <3>1, <3>4
  <2> QED BY <2>4, <2>5
<1>4. cuts \in Seq(Seq(Seq(E))) /\ Len(cuts) = Len(doc)
  <2>1. ASSUME NEW i \in 1 .. Len(doc) PROVE Cut(doc[i]) \in Seq(Seq(E))
    <3> HIDE DEF Cut
    <3>1. CASE Embeddable(doc[i])
      BY <1>3, <3>1 DEF Pieces
    <3>2. CASE ~ Embeddable(doc[i])
      <4>1. <<>> \in Seq(Seq(E))
        OBVIOUS
      <4> QED BY <1>3, <3>2, <4>1
    <3> QED BY <3>1, <3>2
  <2> HIDE DEF Cut
  <2> QED BY <1>1, <2>1
<1>5. \A i \in 1 .. Len(doc) : cuts[i] = Cut(doc[i])
  BY <1>1
<1> HIDE DEF cuts, Cut
<1>6. CutsOf(cuts, doc, size, overlap, E)
  BY <1>2, <1>3, <1>4, <1>5 DEF CutsOf
<1> QED BY <1>6
-----------------------------------------------------------------------------
(* The chunks of a document's sections are sound ...                       *)
LEMMA SectionChunksSound ==
  ASSUME NEW E, NEW doc, TextsOf(doc, E), NEW size \in Nat \ {0}, NEW overlap \in Nat,
         NEW cuts, CutsOf(cuts, doc, size, overlap, E), NEW chunks, chunks = FlattenSeq(cuts),
         chunks # <<>>
  PROVE  /\ NoWordLost(doc, chunks) /\ ChunksFit(doc, chunks, size)
         /\ NeighboursTogether(doc, chunks, size, overlap)
<1>1. PICK n : n = Len(doc)
  OBVIOUS
<1>2. n \in Nat /\ DOMAIN doc = 1 .. n
  BY <1>1 DEF TextsOf
<1>3. \A i \in 1 .. n : Text(doc[i]) \in Seq(E) /\ (Embeddable(doc[i]) => Text(doc[i]) # <<>>)
  BY <1>1 DEF TextsOf
<1>4. \A i, j \in 1 .. n : \A k \in 1 .. Len(Text(doc[i])), l \in 1 .. Len(Text(doc[j])) :
        Text(doc[i])[k] = Text(doc[j])[l] => i = j /\ k = l
  BY <1>1 DEF TextsOf
<1>5. cuts \in Seq(Seq(Seq(E))) /\ Len(cuts) = n
  BY <1>1 DEF CutsOf
<1>6. \A i \in 1 .. n : IF Embeddable(doc[i])
                        THEN cuts[i] # <<>> /\ Pieces(cuts[i], Text(doc[i]), size, overlap, E)
                        ELSE cuts[i] = <<>>
  BY <1>1 DEF CutsOf
<1>7. PICK row, col : Places(row, col, chunks, cuts, n)
  <2> DEFINE T == Seq(E)
  <2>1. cuts \in Seq(Seq(T))
    BY <1>5
  <2> HIDE DEF T
  <2>2. \E row, col : Places(row, col, FlattenSeq(cuts), cuts, Len(cuts))
    BY <2>1, FlattenPlaces
  <2> QED BY <1>5, <2>2
<1>8. chunks \in Seq(Seq(E))
  <2> DEFINE T == Seq(E)
  <2>1. cuts \in Seq(Seq(T))
    BY <1>5
  <2> HIDE DEF T
  <2>2. FlattenSeq(cuts) \in Seq(T)
    BY <2>1, FlattenPlaces
  <2> QED BY <2>2 DEF T
<1>9. PICK m : m = Len(chunks)
  OBVIOUS
<1>10. m \in Nat /\ m # 0 /\ DOMAIN chunks = 1 .. m /\ \A k \in 1 .. m : chunks[k] \in Seq(E)
  BY <1>8, <1>9
<1>11. /\ \A k \in 1 .. m : /\ row[k] \in 1 .. n /\ col[k] \in 1 .. Len(cuts[row[k]])
                            /\ chunks[k] = cuts[row[k]][col[k]]
       /\ \A i \in 1 .. n : \A c \in 1 .. Len(cuts[i]) : \E k \in 1 .. m : row[k] = i /\ col[k] = c
       /\ \A k, l \in 1 .. m : row[k] = row[l] /\ col[k] = col[l] => k = l
  BY <1>7, <1>9 DEF Places
<1>12. ASSUME NEW k \in 1 .. m
       PROVE  /\ Embeddable(doc[row[k]]) /\ Pieces(cuts[row[k]], Text(doc[row[k]]), size, overlap, E)
              /\ Len(chunks[k]) \in 1 .. size
              /\ ToSet(chunks[k]) \subseteq ToSet(Text(doc[row[k]]))
  <2>1. PICK r, c : r = row[k] /\ c = col[k]
    OBVIOUS
  <2>2. r \in 1 .. n /\ c \in 1 .. Len(cuts[r]) /\ chunks[k] = cuts[r][c]
    BY <1>11, <2>1
  <2>3. Embeddable(doc[r])
    <3>1. cuts[r] # <<>>
      BY <2>2
    <3> QED BY <1>6, <2>2, <3>1
  <2>4. Pieces(cuts[r], Text(doc[r]), size, overlap, E)
    BY <1>6, <2>2, <2>3
  <2>5. Len(cuts[r][c]) \in 1 .. size /\ ToSet(cuts[r][c]) \subseteq ToSet(Text(doc[r]))
    BY <2>2, <2>4 DEF Pieces
  <2> QED BY <2>1, <2>2, <2>3, <2>4, <2>5
<1>13. ASSUME NEW i \in 1 .. n, Embeddable(doc[i]), NEW a \in 1 .. Len(Text(doc[i]))
       PROVE  \E k \in 1 .. m : Text(doc[i])[a] \in ToSet(chunks[k])
  <2>1. Pieces(cuts[i], Text(doc[i]), size, overlap, E)
    BY <1>6, <1>13
  <2>2. PICK c \in 1 .. Len(cuts[i]) : Text(doc[i])[a] \in ToSet(cuts[i][c])
    BY <2>1 DEF Pieces
  <2>3. PICK k \in 1 .. m : row[k] = i /\ col[k] = c
    BY <1>11
  <2>4. chunks[k] = cuts[i][c]
    BY <1>11, <2>3
  <2> QED BY <2>2, <2>4
<1>14. ASSUME overlap < size, NEW i \in 1 .. n, Embeddable(doc[i]), NEW a \in 1 .. Len(Text(doc[i])),
              NEW b \in a .. Len(Text(doc[i])), b <= a + overlap
       PROVE  \E k \in 1 .. m : {Text(doc[i])[a], Text(doc[i])[b]} \subseteq ToSet(chunks[k])
  <2>1. Pieces(cuts[i], Text(doc[i]), size, overlap, E)
    BY <1>6, <1>14
  <2>2. PICK c \in 1 .. Len(cuts[i]) : {Text(doc[i])[a], Text(doc[i])[b]} \subseteq ToSet(cuts[i][c])
    BY <1>14, <2>1 DEF Pieces
  <2>3. PICK k \in 1 .. m : row[k] = i /\ col[k] = c
    BY <1>11
  <2>4. chunks[k] = cuts[i][c]
    BY <1>11, <2>3
  <2> QED BY <2>2, <2>4
<1>15. ASSUME NEW j \in 1 .. m, NEW k \in 1 .. m, j # k
       PROVE  ~ ToSet(chunks[j]) \subseteq ToSet(chunks[k])
  <2>1. CASE row[j] = row[k]
    <3>1. PICK r, c, d : r = row[j] /\ c = col[j] /\ d = col[k]
      OBVIOUS
    <3>2. /\ c \in 1 .. Len(cuts[r]) /\ chunks[j] = cuts[r][c]
          /\ d \in 1 .. Len(cuts[r]) /\ chunks[k] = cuts[r][d]
      BY <1>11, <2>1, <3>1
    <3>3. c # d
      BY <1>11, <1>15, <2>1, <3>1
    <3>4. Pieces(cuts[r], Text(doc[r]), size, overlap, E)
      BY <1>12, <3>1
    <3> QED BY <3>2, <3>3, <3>4 DEF Pieces
  <2>2. CASE row[j] # row[k]
    <3> SUFFICES ASSUME ToSet(chunks[j]) \subseteq ToSet(chunks[k]) PROVE FALSE
      OBVIOUS
    <3>1. PICK p, q : p = row[j] /\ q = row[k]
      OBVIOUS
    <3>2. p \in 1 .. n /\ q \in 1 .. n
      BY <1>11, <3>1
    <3>3. chunks[j] \in Seq(E) /\ 1 \in DOMAIN chunks[j]
      BY <1>10, <1>12
    <3>4. PICK w : w = chunks[j][1]
      OBVIOUS
    <3>5. w \in ToSet(chunks[j])
      BY <3>3, <3>4 DEF ToSet
    <3>6. w \in ToSet(Text(doc[p])) /\ w \in ToSet(Text(doc[q]))
      BY <1>12, <3>1, <3>5
    <3>7. PICK x \in 1 .. Len(Text(doc[p])) : w = Text(doc[p])[x]
      BY <1>3, <3>2, <3>6 DEF ToSet
    <3>8. PICK y \in 1 .. Len(Text(doc[q])) : w = Text(doc[q])[y]
      BY <1>3, <3>2, <3>6 DEF ToSet
    <3>9. p = q
      BY <1>4, <3>2, <3>7, <3>8
    <3> QED BY <2>2, <3>1, <3>9
  <2> QED BY <2>1, <2>2
<1>16. NoWordLost(doc, chunks)
  <2> DEFINE kept == {i \in 1 .. n : Embeddable(doc[i])}
             all == UNION {ToSet(chunks[k]) : k \in 1 .. m}
             words == UNION {ToSet(Text(doc[i])) : i \in kept}
  <2>1. kept # {}
    <3>1. 1 \in 1 .. m
      BY <1>10
    <3>2. row[1] \in kept
      BY <1>11, <1>12, <3>1
    <3> QED BY <3>2
  <2>2. ASSUME NEW w \in all PROVE w \in words
    <3>1. PICK k \in 1 .. m : w \in ToSet(chunks[k])
      BY <2>2
    <3>2. row[k] \in kept /\ w \in ToSet(Text(doc[row[k]]))
      BY <1>11, <1>12, <3>1
    <3> QED BY <3>2
  <2>3. ASSUME NEW w \in words PROVE w \in all
    <3>1. PICK i \in kept : w \in ToSet(Text(doc[i]))
      BY <2>3
    <3>2. PICK a \in 1 .. Len(Text(doc[i])) : w = Text(doc[i])[a]
      BY <1>3, <3>1 DEF ToSet
    <3>3. \E k \in 1 .. m : w \in ToSet(chunks[k])
      BY <1>13, <3>2
    <3> QED BY <3>3
  <2>4. all = words
    <3> HIDE DEF all, words
    <3> QED BY <2>2, <2>3
  <2> QED BY <1>2, <1>10, <2>1, <2>4 DEF NoWordLost, Words
<1>17. ChunksFit(doc, chunks, size)
  <2>1. ASSUME NEW k \in 1 .. m
        PROVE  /\ Len(chunks[k]) \in 1 .. size
               /\ \E i \in 1 .. n : ToSet(chunks[k]) \subseteq ToSet(Text(doc[i]))
               /\ \A j \in (1 .. m) \ {k} : ~ ToSet(chunks[j]) \subseteq ToSet(chunks[k])
    BY <1>11, <1>12, <1>15
  <2> QED BY <1>2, <1>10, <2>1 DEF ChunksFit
<1>18. NeighboursTogether(doc, chunks, size, overlap)
  <2> SUFFICES ASSUME NEW i \in {j \in DOMAIN doc : Embeddable(doc[j])},
                      NEW a \in DOMAIN Text(doc[i]),
                      NEW b \in a .. Min({a + overlap, Len(Text(doc[i]))}), overlap < size
               PROVE  \E k \in DOMAIN chunks :
                         {Text(doc[i])[a], Text(doc[i])[b]} \subseteq ToSet(chunks[k])
    BY DEF NeighboursTogether
  <2>1. PICK l : l = Len(Text(doc[i]))
    OBVIOUS
  <2>2. i \in 1 .. n /\ Embeddable(doc[i]) /\ l \in Nat /\ DOMAIN Text(doc[i]) = 1 .. l
    BY <1>2, <1>3, <2>1
  <2>3. a \in 1 .. l
    BY <2>2
  <2>4. Min({a + overlap, l}) = IF a + overlap <= l THEN a + overlap ELSE l
    BY <2>2, <2>3 DEF Min
  <2>5. b \in a .. l /\ b <= a + overlap
    <3>1. PICK t : t = Min({a + overlap, l})
      OBVIOUS
    <3>2. b \in a .. t /\ t <= l /\ t <= a + overlap /\ t \in Int
      BY <2>1, <2>2, <2>3, <2>4, <3>1
    <3> QED BY <2>2, <2>3, <3>2
  <2>6. a \in 1 .. Len(Text(doc[i])) /\ b \in a .. Len(Text(doc[i]))
    BY <2>1, <2>3, <2>5
  <2>7. \E k \in 1 .. m : {Text(doc[i])[a], Text(doc[i])[b]} \subseteq ToSet(chunks[k])
    BY <1>14, <2>2, <2>5, <2>6
  <2> QED BY <1>10, <2>7
<1> QED BY <1>16, <1>17, <1>18

(* ... and so are those of a document of bare headers.                     *)
LEMMA HeaderChunksSound ==
  ASSUME NEW E, NEW doc, TextsOf(doc, E), NEW size \in Nat \ {0}, NEW overlap \in Nat,
         \A i \in 1 .. Len(doc) : ~ Embeddable(doc[i]),
         NEW chunks,
         chunks = WordChunks(FlattenSeq([i \in 1 .. Len(doc) |-> Text(doc[i])]), size, overlap)
  PROVE  /\ NoWordLost(doc, chunks) /\ ChunksFit(doc, chunks, size)
         /\ NeighboursTogether(doc, chunks, size, overlap)
<1>1. PICK n : n = Len(doc)
  OBVIOUS
<1>2. n \in Nat /\ DOMAIN doc = 1 .. n
  BY <1>1 DEF TextsOf
<1>3. \A i \in 1 .. n : Text(doc[i]) \in Seq(E)
  BY <1>1 DEF TextsOf
<1>4. \A i, j \in 1 .. n : \A k \in 1 .. Len(Text(doc[i])), l \in 1 .. Len(Text(doc[j])) :
        Text(doc[i])[k] = Text(doc[j])[l] => i = j /\ k = l
  BY <1>1 DEF TextsOf
<1>5. PICK texts : texts = [i \in 1 .. n |-> Text(doc[i])]
  OBVIOUS
<1>6. texts \in Seq(Seq(E)) /\ Len(texts) = n /\ \A i \in 1 .. n : texts[i] = Text(doc[i])
  BY <1>2, <1>3, <1>5
<1>7. PICK flat : flat = FlattenSeq(texts)
  OBVIOUS
<1>8. flat \in Seq(E) /\ \E row, col : Places(row, col, flat, texts, n)
  BY <1>6, <1>7, FlattenPlaces
<1>9. PICK row, col : Places(row, col, flat, texts, n)
  BY <1>8
<1>10. PICK m : m = Len(flat)
  OBVIOUS
<1>11. m \in Nat /\ DOMAIN flat = 1 .. m
  BY <1>8, <1>10
<1>12. /\ \A k \in 1 .. m : /\ row[k] \in 1 .. n /\ col[k] \in 1 .. Len(texts[row[k]])
                            /\ flat[k] = texts[row[k]][col[k]]
       /\ \A i \in 1 .. n : \A c \in 1 .. Len(texts[i]) : \E k \in 1 .. m : row[k] = i /\ col[k] = c
       /\ \A k, l \in 1 .. m : row[k] = row[l] /\ col[k] = col[l] => k = l
  BY <1>9, <1>10 DEF Places
<1>a. ASSUME NEW a \in 1 .. m
      PROVE  \E p \in 1 .. n : \E x \in 1 .. Len(Text(doc[p])) :
                p = row[a] /\ x = col[a] /\ flat[a] = Text(doc[p])[x]
  <2>1. PICK p, x : p = row[a] /\ x = col[a]
    OBVIOUS
  <2>2. p \in 1 .. n /\ x \in 1 .. Len(texts[p]) /\ flat[a] = texts[p][x]
    BY <1>12, <2>1
  <2>3. texts[p] = Text(doc[p])
    BY <1>6, <2>2
  <2> QED BY <2>1, <2>2, <2>3
<1>13. NoneTwice(flat)
  <2>1. ASSUME NEW a \in 1 .. m, NEW b \in 1 .. m, flat[a] = flat[b] PROVE a = b
    <3>1. PICK p \in 1 .. n : \E x \in 1 .. Len(Text(doc[p])) :
             p = row[a] /\ x = col[a] /\ flat[a] = Text(doc[p])[x]
      BY <1>a
    <3>2. PICK x \in 1 .. Len(Text(doc[p])) : p = row[a] /\ x = col[a] /\ flat[a] = Text(doc[p])[x]
      BY <3>1
    <3>3. PICK q \in 1 .. n : \E y \in 1 .. Len(Text(doc[q])) :
             q = row[b] /\ y = col[b] /\ flat[b] = Text(doc[q])[y]
      BY <1>a
    <3>4. PICK y \in 1 .. Len(Text(doc[q])) : q = row[b] /\ y = col[b] /\ flat[b] = Text(doc[q])[y]
      BY <3>3
    <3>5. Text(doc[p])[x] = Text(doc[q])[y]
      BY <2>1, <3>2, <3>4
    <3>6. p = q /\ x = y
      BY <1>4, <3>5
    <3>7. row[a] = row[b] /\ col[a] = col[b]
      BY <3>2, <3>4, <3>6
    <3>8. \A k, l \in 1 .. m : row[k] = row[l] /\ col[k] = col[l] => k = l
      BY <1>12
    <3> QED BY <3>7, <3>8
  <2> QED BY <1>10, <2>1 DEF NoneTwice
<1>14. Pieces(chunks, flat, size, overlap, E)
  BY <1>1, <1>5, <1>7, <1>8, <1>13, WordChunksArePieces
<1>15. chunks \in Seq(Seq(E))
  BY <1>14 DEF Pieces
<1>16. PICK h : h = Len(chunks)
  OBVIOUS
<1>17. DOMAIN chunks = 1 .. h
  BY <1>15, <1>16
<1>18. /\ \A k \in 1 .. h : Len(chunks[k]) \in 1 .. size /\ ToSet(chunks[k]) \subseteq ToSet(flat)
       /\ \A a \in 1 .. m : \E k \in 1 .. h : flat[a] \in ToSet(chunks[k])
       /\ \A j, k \in 1 .. h : j # k => ~ ToSet(chunks[j]) \subseteq ToSet(chunks[k])
  BY <1>10, <1>14, <1>16 DEF Pieces
<1>19. \A i \in 1 .. n : ~ Embeddable(doc[i])
  BY <1>1
<1>20. NoWordLost(doc, chunks)
  <2> DEFINE all == UNION {ToSet(chunks[k]) : k \in 1 .. h}
             words == UNION {ToSet(Text(doc[i])) : i \in 1 .. n}
  <2>1. ASSUME NEW w \in all PROVE w \in words
    <3>1. PICK k \in 1 .. h : w \in ToSet(chunks[k])
      BY <2>1
    <3>2. PICK a \in 1 .. m : w = flat[a]
      <4>1. ToSet(flat) = {flat[a] : a \in 1 .. m}
        BY <1>11 DEF ToSet
      <4>2. w \in ToSet(flat)
        BY <1>18, <3>1
      <4> QED BY <4>1, <4>2
    <3>3. PICK p \in 1 .. n : \E x \in 1 .. Len(Text(doc[p])) : w = Text(doc[p])[x]
      BY <1>a, <3>2
    <3>4. w \in ToSet(Text(doc[p]))
      BY <1>3, <3>3 DEF ToSet
    <3> QED BY <3>4
  <2>2. ASSUME NEW w \in words PROVE w \in all
    <3>1. PICK i \in 1 .. n : w \in ToSet(Text(doc[i]))
      BY <2>2
    <3>2. PICK a \in 1 .. Len(Text(doc[i])) : w = Text(doc[i])[a]
      BY <1>3, <3>1 DEF ToSet
    <3>3. PICK k \in 1 .. m : row[k] = i /\ col[k] = a
      BY <1>6, <1>12, <3>2
    <3>4. flat[k] = w
      BY <1>6, <1>12, <3>2, <3>3
    <3>5. \E l \in 1 .. h : w \in ToSet(chunks[l])
      BY <1>18, <3>4
    <3> QED BY <3>5
  <2>3. all = words
    <3> HIDE DEF all, words
    <3> QED BY <2>1, <2>2
  <2>4. {i \in DOMAIN doc : Embeddable(doc[i])} = {}
    BY <1>2, <1>19
  <2> QED BY <1>2, <1>17, <2>3, <2>4 DEF NoWordLost, Words
<1>21. ChunksFit(doc, chunks, size)
  BY <1>2, <1>17, <1>18, <1>19 DEF ChunksFit
<1>22. NeighboursTogether(doc, chunks, size, overlap)
  BY <1>2, <1>19 DEF NeighboursTogether
<1> QED BY <1>20, <1>21, <1>22

(* Whatever chunk_text is given.                                           *)
LEMMA MarkdownChunksSound ==
  ASSUME NEW doc, Numbered(doc), NEW size \in Nat \ {0}, NEW overlap \in Nat
  PROVE  LET chunks == MarkdownChunks(doc, size, overlap) IN
         /\ NoWordLost(doc, chunks) /\ ChunksFit(doc, chunks, size)
         /\ NeighboursTogether(doc, chunks, size, overlap)
<1>1. PICK E : TextsOf(doc, E)
  BY DocumentsTyped
<1>2. PICK cuts : CutsOf(cuts, doc, size, overlap, E)
  BY <1>1, SectionsAreCut
<1>3. PICK chunks : chunks = FlattenSeq(cuts)
  OBVIOUS
<1>4. PICK bare : bare = WordChunks(FlattenSeq([i \in 1 .. Len(doc) |-> Text(doc[i])]), size, overlap)
  OBVIOUS
<1>5. MarkdownChunks(doc, size, overlap) = IF chunks # <<>> THEN chunks ELSE bare
  BY <1>2, <1>3, <1>4 DEF CutsOf
<1>6. CASE chunks # <<>>
  <2>1. /\ NoWordLost(doc, chunks) /\ ChunksFit(doc, chunks, size)
        /\ NeighboursTogether(doc, chunks, size, overlap)
    BY <1>1, <1>2, <1>3, <1>6, SectionChunksSound
  <2> QED BY <1>5, <1>6, <2>1
<1>7. CASE chunks = <<>>
  <2>1. \A i \in 1 .. Len(doc) : ~ Embeddable(doc[i])
    <3> SUFFICES ASSUME NEW i \in 1 .. Len(doc), Embeddable(doc[i]) PROVE FALSE
      OBVIOUS
    <3> DEFINE T == Seq(E)
    <3>1. cuts \in Seq(Seq(T)) /\ Len(cuts) = Len(doc) /\ cuts[i] # <<>>
      BY <1>2 DEF CutsOf
    <3> HIDE DEF T
    <3>2. cuts[i] \in Seq(T)
      BY <3>1
    <3>3. 1 \in 1 .. Len(cuts[i])
      BY <3>1, <3>2
    <3>4. PICK row, col : Places(row, col, chunks, cuts, Len(cuts))
      BY <1>3, <3>1, FlattenPlaces
    <3>5. \E k \in 1 .. Len(chunks) : row[k] = i /\ col[k] = 1
      BY <3>1, <3>3, <3>4 DEF Places
    <3>6. Len(chunks) = 0
      BY <1>7
    <3> QED BY <3>5, <3>6
  <2>2. /\ NoWordLost(doc, bare) /\ ChunksFit(doc, bare, size)
        /\ NeighboursTogether(doc, bare, size, overlap)
    BY <1>1, <1>4, <2>1, HeaderChunksSound
  <2> QED BY <1>5, <1>7, <2>2
<1> QED BY <1>6, <1>7

(* chunk_text loses no word that can be asked about, cuts pieces that fit  *)
(* and repeat nothing, and keeps words within the overlap together.        *)
THEOREM ChunksAlwaysSound == CallsSpec => []ChunksSound
<1>1. CallsInit => ChunksSound
  BY DEF CallsInit, NoCall, ChunksSound
<1>2. ASSUME ChunksSound, [CallsNext]_call PROVE ChunksSound'
  <2>1. CASE UNCHANGED call
    BY <1>2, <2>1 DEF ChunksSound
  <2>2. CASE CallsNext /\ call'.of # "chunk"
    BY <2>2 DEF ChunksSound
  <2>3. CASE CallsNext /\ call'.of = "chunk"
    <3>1. Chunk
      BY <2>3, CallsMade
    <3>2. PICK doc \in Documents, size \in Sizes, overlap \in Sizes \cup {0} :
             call' = [of |-> "chunk", doc |-> doc, size |-> size, overlap |-> overlap]
      BY <3>1 DEF Chunk
    <3>3. call'.doc = doc /\ call'.size = size /\ call'.overlap = overlap
      BY <3>2
    <3>4. Numbered(doc) /\ size \in Nat \ {0} /\ overlap \in Nat
      BY AlgorithmConstants
    <3>5. PICK chunks : chunks = MarkdownChunks(doc, size, overlap)
      OBVIOUS
    <3>6. /\ NoWordLost(doc, chunks) /\ ChunksFit(doc, chunks, size)
          /\ NeighboursTogether(doc, chunks, size, overlap)
      BY <3>4, <3>5, MarkdownChunksSound
    <3> QED BY <3>3, <3>5, <3>6 DEF ChunksSound
  <2> QED BY <1>2, <2>1, <2>2, <2>3
<1> QED BY <1>1, <1>2, PTL DEF CallsSpec
=============================================================================

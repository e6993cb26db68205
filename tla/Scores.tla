------------------------------- MODULE Scores -------------------------------
(***************************************************************************)
(* The arithmetic of the quality loop: which scores count, when a run has  *)
(* drifted from the baseline, and which model of a benchmark is the        *)
(* champion.  Scores are integers, per mille; NaN is the value a judge     *)
(* that could not score returns.                                           *)
(***************************************************************************)
EXTENDS Lists

CONSTANTS NaN, Missing   \* not a number, and no entry in a dictionary

ASSUME NoScores == NaN # Missing /\ NaN \notin Int /\ Missing \notin Int

(* finite_only and _finite_scores: NaN and infinity are dropped.           *)
FiniteOnly(scores) ==
  [m \in DOMAIN scores |-> IF scores[m] = NaN THEN Missing ELSE scores[m]]

(* check_drift: the metrics that fell by more than the threshold ...       *)
Regressed(current, baseline, threshold) ==
  {m \in DOMAIN current : current[m] # Missing /\ baseline[m] # Missing
      /\ baseline[m] - current[m] > threshold}

(* ... and the floor of faithfulness, the one metric that has one.         *)
PassesGate(scores, baseline, threshold, floor) ==
  LET current == FiniteOnly(scores) IN
  /\ current["faithfulness"] = Missing \/ current["faithfulness"] >= floor
  /\ Regressed(current, baseline, threshold) = {}
-----------------------------------------------------------------------------
(* How Python compares the key tuples of select_champion: the first places *)
(* that differ decide, and a NaN is neither equal to anything nor less.    *)
KeyLess(a, b) ==
  IF a.primary # b.primary \/ a.primary = NaN
  THEN a.primary # NaN /\ b.primary # NaN /\ a.primary < b.primary
  ELSE IF a.mean # b.mean \/ a.mean = NaN
  THEN a.mean # NaN /\ b.mean # NaN /\ a.mean < b.mean
  ELSE a.name < b.name

(* list.sort of a short list begins with the run the list begins with,     *)
(* turned round if it descends ...                                         *)
Falls(s) == Len(s) >= 2 /\ KeyLess(s[2], s[1])

Run(s) == Max({m \in 0 .. Len(s) : \A i \in 1 .. m - 1 : KeyLess(s[i + 1], s[i]) <=> Falls(s)})

FirstRun(s) ==
  IF Falls(s) THEN Reverse(SubSeq(s, 1, Run(s))) ELSE SubSeq(s, 1, Run(s))

(* ... and puts each of the rest where binary search finds its place.      *)
Place(sorted, x) ==
  LET n == Len(sorted) + 1
      slot[half \in (1 .. n) \X (1 .. n)] ==
        LET l == half[1]
            r == half[2]
            mid == (l + r) \div 2 IN
        IF l >= r THEN l
        ELSE IF KeyLess(x, sorted[mid]) THEN slot[<<l, mid>>] ELSE slot[<<mid + 1, r>>] IN
  InsertAt(sorted, slot[<<1, n>>], x)

PythonSort(s) == FoldLeft(Place, FirstRun(s), SubSeq(s, Run(s) + 1, Len(s)))

(* The mean of the metrics a model has, times 60; one NaN spoils it.       *)
MeanScore(card) ==
  LET has == {m \in DOMAIN card : card[m] # Missing} IN
  IF \E m \in has : card[m] = NaN THEN NaN
  ELSE IF has = {} THEN 0
  ELSE (60 * FoldSet(LAMBDA m, acc : acc + card[m], 0, has)) \div Cardinality(has)

(* Slip: a model whose benchmark failed is ranked like one without scores. *)
RankKeysOfAll(cards, primary) ==
  [i \in DOMAIN cards |->
     [primary |-> IF cards[i].scores[primary] = Missing THEN -1 ELSE cards[i].scores[primary],
      mean |-> MeanScore(cards[i].scores), name |-> i, index |-> i]]

(* The keys select_champion ranks by; models that errored are ignored.     *)
(* Names are numbers in alphabetical order.                                *)
RankKeys(cards, primary) ==
  LET ok == Kept([i \in DOMAIN cards |-> i], {i \in DOMAIN cards : ~ cards[i].error}) IN
  [k \in DOMAIN ok |->
     [primary |-> IF cards[ok[k]].scores[primary] = Missing THEN -1
                  ELSE cards[ok[k]].scores[primary],
      mean |-> MeanScore(cards[ok[k]].scores), name |-> cards[ok[k]].name, index |-> ok[k]]]

(* select_champion: sort(reverse=True) turns the list, sorts it and turns  *)
(* it again; 0 when nothing succeeded.                                     *)
SelectChampion(cards, primary) ==
  LET keys == RankKeys(cards, primary) IN
  IF keys = <<>> THEN 0 ELSE Last(PythonSort(Reverse(keys))).index
-----------------------------------------------------------------------------
(* "Ranks by primary_metric": nobody who succeeded has a better primary    *)
(* score than the champion, nor an equal one and a better mean.            *)
ChampionIsBest(cards, primary) ==
  LET best == SelectChampion(cards, primary)
      Primary(i) == IF cards[i].scores[primary] \in {Missing, NaN} THEN -1 ELSE cards[i].scores[primary] IN
  IF \A i \in DOMAIN cards : cards[i].error THEN best = 0
  ELSE /\ best # 0 /\ ~ cards[best].error
       /\ \A i \in DOMAIN cards : ~ cards[i].error =>
            \/ Primary(i) < Primary(best)
            \/ Primary(i) = Primary(best) /\ (MeanScore(cards[i].scores) = NaN
                 \/ MeanScore(cards[best].scores) = NaN
                 \/ MeanScore(cards[i].scores) <= MeanScore(cards[best].scores))

=============================================================================

------------------------------ MODULE Ranking ------------------------------
(***************************************************************************)
(* The retrieval algorithms on top of the vector search: fusion with the   *)
(* keyword ranking, MMR, the two rerankers, and the merge of the results   *)
(* of several paraphrases.  A ranking is a sequence of chunks with their   *)
(* integer scores; the weights alpha and lambda are percentages.           *)
(***************************************************************************)
EXTENDS Lists

Top(s, limit) == SubSeq(s, 1, Min({limit, Len(s)}))

(* _rank_by_scores, and the ranking of bm25_search: a stable sort by       *)
(* descending score.  The k-th has k - 1 before it.                        *)
RankByScores(cands, scores, limit) ==
  LET n == Min({Len(cands), Len(scores)})
      Before(j, i) == scores[j] > scores[i] \/ (scores[j] = scores[i] /\ j < i)
      order == [k \in 1 .. n |->
                  CHOOSE i \in 1 .. n : Cardinality({j \in 1 .. n : Before(j, i)}) = k - 1] IN
  Top([k \in 1 .. n |-> cands[order[k]]], limit)

(* cross_encoder_rerank: only what must be cut is scored; without a model  *)
(* (no scores) the order stays.                                            *)
CrossEncoderRerank(cands, scores, limit) ==
  IF Len(cands) <= limit THEN cands
  ELSE IF scores = <<>> THEN Top(cands, limit)
  ELSE RankByScores(cands, scores, limit)

Texts(ranking) == {ranking[i].text : i \in DOMAIN ranking}
Scores(ranking) == {ranking[i].score : i \in DOMAIN ranking}

(* The score a dictionary built from the ranking keeps: the last one.      *)
ScoreOf(ranking, text) ==
  ranking[Max({i \in DOMAIN ranking : ranking[i].text = text})].score

Span(ranking) ==
  IF ranking = <<>> \/ Max(Scores(ranking)) = Min(Scores(ranking)) THEN 1
  ELSE Max(Scores(ranking)) - Min(Scores(ranking))

(* _normalize, before the division by the span; 0 for a text not ranked.   *)
Above(ranking, text) ==
  IF text \in Texts(ranking) THEN ScoreOf(ranking, text) - Min(Scores(ranking)) ELSE 0

(* Slip: the raw scores of the two rankings are added.                     *)
FusedScoreRaw(dense, sparse, alpha, text) ==
  alpha * Above(dense, text) + (100 - alpha) * Above(sparse, text)

(* The weighted sum hybrid_fuse sorts by, as a multiple of both spans.     *)
FusedScore(dense, sparse, alpha, text) ==
  alpha * Above(dense, text) * Span(sparse) + (100 - alpha) * Above(sparse, text) * Span(dense)

(* hybrid_fuse goes through a set of strings: the order of texts of equal  *)
(* scores is anyone's guess, so it has a set of possible results.          *)
HybridFuse(dense, sparse, alpha, limit) ==
  LET all == Texts(dense) \cup Texts(sparse) IN
  {Top(r, limit) : r \in {s \in SetToSeqs(all) : \A i, j \in DOMAIN s : i < j =>
     FusedScore(dense, sparse, alpha, s[i]) >= FusedScore(dense, sparse, alpha, s[j])}}

(* Slip: redundancy is that with the chunk selected last only.             *)
MMRScoreLast(rel, sim, lambda, selected, c) ==
  lambda * rel[c] - (100 - lambda) * (IF selected = <<>> THEN 0 ELSE sim[c][Last(selected)])

(* mmr_select's score of a chunk: relevance against redundancy.            *)
MMRScore(rel, sim, lambda, selected, c) ==
  lambda * rel[c] -
  (100 - lambda) * (IF selected = <<>> THEN 0 ELSE Max({sim[c][s] : s \in ToSet(selected)}))

(* The first of the remaining candidates with the best score; candidates   *)
(* are their positions in the order they came.                             *)
MMRBest(rel, sim, lambda, selected, remaining) ==
  Min({i \in remaining : \A j \in remaining :
         MMRScore(rel, sim, lambda, selected, i) >= MMRScore(rel, sim, lambda, selected, j)})

(* mmr_select.                                                             *)
MMRSelect(n, rel, sim, lambda, limit) ==
  LET selected[k \in 0 .. Min({n, limit})] ==
        IF k = 0 THEN <<>>
        ELSE LET before == selected[k - 1] IN
             Append(before, MMRBest(rel, sim, lambda, before, (1 .. n) \ ToSet(before))) IN
  selected[Min({n, limit})]

(* llm_rerank: the chunks whose numbers the model lists, those it forgot   *)
(* behind them; the number of a chunk that does not exist is skipped.      *)
LLMRerank(cands, numbers, limit) ==
  LET listed == Kept(numbers, DOMAIN cands)
      chosen == [k \in DOMAIN listed |-> cands[listed[k]]] IN
  IF Len(cands) <= limit THEN cands ELSE Top(AppendNew(chosen, cands), limit)

(* merge_unique.                                                           *)
MergeUnique(results, limit) == Top(AppendNew(<<>>, FlattenSeq(results)), limit)

(* expand_query: the question, then at most n other wordings of it; `same` *)
(* are those that differ from the question by case only.                   *)
ExpandQuery(query, variants, n, same) ==
  Top(AppendNew(<<query>>, Kept(variants, ToSet(variants) \ same)), n + 1)
-----------------------------------------------------------------------------
(* A stable ranking, said without sorting: nobody who is kept is beaten by *)
(* one who comes later or is left out, equals keep their order, and no     *)
(* candidate is kept twice (copies among them are candidates of their own).*)
RanksBest(cands, scores, limit, ranked) ==
  LET n == Min({Len(cands), Len(scores)}) IN
  /\ Len(ranked) = Min({limit, n})
  /\ \E at \in [DOMAIN ranked -> 1 .. n] :
       /\ IsInjective(at)
       /\ \A k \in DOMAIN ranked : ranked[k] = cands[at[k]]
       /\ \A k \in DOMAIN ranked, i \in 1 .. n :
            i \notin {at[j] : j \in 1 .. k} =>
               scores[at[k]] > scores[i] \/ (scores[at[k]] = scores[i] /\ at[k] < i)

(* Fusion respects agreement, whatever the scales of the two scores: a     *)
(* chunk both searches put behind another never comes before it, unless    *)
(* neither of them tells the two apart.                                    *)
AgreementKept(dense, sparse, alpha, fused) ==
  LET Behind(r, a, b) == Above(r, a) <= Above(r, b)
      All == Texts(dense) \cup Texts(sparse) IN
  \A k \in DOMAIN fused : \A b \in All \ {fused[j] : j \in 1 .. k} :
     (Behind(dense, fused[k], b) /\ Behind(sparse, fused[k], b) /\ alpha \in 1 .. 99) =>
        (Above(dense, fused[k]) = Above(dense, b) /\ Above(sparse, fused[k]) = Above(sparse, b))

(* The two scores are on scales of their own (cosine, BM25): measured on   *)
(* another scale the keyword scores fuse to the same ranking.              *)
ScalesDoNotMatter(dense, sparse, alpha, limit) ==
  HybridFuse(dense, [i \in DOMAIN sparse |-> [sparse[i] EXCEPT !.score = 10 * @ + 3]], alpha, limit)
    = HybridFuse(dense, sparse, alpha, limit)

(* MMR drops near-duplicates: a copy of a chunk that was selected is only  *)
(* taken when every candidate left over is a copy of a selected one, or so *)
(* much less relevant that the copy's penalty does not make up for it.     *)
DuplicatesLast(n, rel, sim, lambda, picked) ==
  \A k \in DOMAIN picked :
     LET before == {picked[j] : j \in 1 .. k - 1}
         Copy(c) == \E s \in before : sim[c][s] = 100 IN
     Copy(picked[k]) =>
        \A c \in (1 .. n) \ (before \cup {picked[k]}) :
           Copy(c) \/ lambda * (rel[picked[k]] - rel[c]) >=
                      (100 - lambda) * (100 - Max({sim[c][s] : s \in before}))

(* A chunk found by several paraphrases is shown to the model once, and    *)
(* copies crowd nothing out.                                               *)
MergedOnce(results, limit, merged) ==
  /\ IsInjective(merged)
  /\ Len(merged) = Min({limit, Cardinality(ToSet(FlattenSeq(results)))})

(* The question itself is always searched, and first, whatever the model   *)
(* answers; no wording is searched twice, and no more than n others.       *)
QuestionKept(query, n, same, queries) ==
  /\ Head(queries) = query /\ IsInjective(queries) /\ Len(queries) <= n + 1
  /\ ToSet(Tail(queries)) \cap same = {}

(* Reranking by score loses nothing: as many passages come out as asked    *)
(* for and available, copies counted, all of them candidates.              *)
KeepsEnough(cands, limit, result) ==
  /\ ToSet(result) \subseteq ToSet(cands)
  /\ Len(result) = Min({limit, Len(cands)})

(* The model's order is followed as far as it goes, copies and repetitions *)
(* included; the passages it forgot stand behind, each text once; and      *)
(* fewer come out than asked for only when no other text is left.  Without *)
(* copies and repetitions that is: as many as asked for, and each once.    *)
FollowsModel(cands, numbers, limit, result) ==
  LET listed == Kept(numbers, DOMAIN cands) IN
  IF Len(cands) <= limit THEN result = cands
  ELSE /\ ToSet(result) \subseteq ToSet(cands) /\ Len(result) <= limit
       /\ \A k \in DOMAIN result :
            IF k <= Len(listed) THEN result[k] = cands[listed[k]]
            ELSE \A j \in 1 .. k - 1 : result[k] # result[j]
       /\ Len(result) < limit => ToSet(cands) \subseteq ToSet(result)
=============================================================================

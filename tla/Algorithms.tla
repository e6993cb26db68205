----------------------------- MODULE Algorithms -----------------------------
(***************************************************************************)
(* The pure functions of the program, called one at a time: a behaviour    *)
(* picks a function and arguments a caller can give it, and the properties *)
(* compare the result with what the function is for.                       *)
(***************************************************************************)
EXTENDS Chunking, Ranking, Scores, Guardrails

CONSTANTS
  Documents,  \* documents, as sequences of sections of numbered words
  Sizes,      \* BOUND: chunk sizes and overlaps tried
  Chunks,     \* chunks to rank
  Points,     \* BOUND: scores of a ranking
  Weights,    \* BOUND: alpha and lambda, per cent
  Marks,      \* BOUND: scores of a metric, per mille
  Metrics,    \* the metrics of the evaluation
  Answers,    \* answers to audit
  Contexts    \* what was retrieved for them

ASSUME AlgorithmConstants ==
  /\ \A doc \in Documents : Numbered(doc)
  /\ Sizes \subseteq Nat \ {0}
  /\ Answers \subseteq Answer /\ Contexts \subseteq Seq(Seq(Passage))
  /\ IsFiniteSet(Chunks) /\ Points \subseteq Int /\ Weights \subseteq 0 .. 100
  /\ Marks \subseteq Int /\ IsFiniteSet(Metrics) /\ "answer_correctness" \in Metrics

VARIABLE call \* the call under way

NoCall == [of |-> "none"]

CallsInit == call = NoCall

Chunk ==
  \E doc \in Documents, size \in Sizes, overlap \in Sizes \cup {0} :
     call' = [of |-> "chunk", doc |-> doc, size |-> size, overlap |-> overlap]

(* Rankings of some of the chunks, some of them stored twice.              *)
Rankings ==
  {[i \in DOMAIN s |-> [text |-> s[i], score |-> f[s[i]]]] :
     s \in {SetToSeq(Chunks)} \cup SeqOf(Chunks, 2), f \in [Chunks -> Points]}

Fuse ==
  \E dense \in Rankings \ {<<>>}, sparse \in Rankings, alpha \in Weights :
     call' = [of |-> "fuse", dense |-> dense, sparse |-> sparse, alpha |-> alpha,
              limit |-> Cardinality(Chunks) - 1]

(* Candidates at angles of each other; copies have the same vector.        *)
Candidates == 1 .. Cardinality(Chunks) + 1

Pairs == {p \in SUBSET Candidates : Cardinality(p) = 2}

Angles(pair) ==
  [i \in Candidates |-> [j \in Candidates |-> IF i = j THEN 100 ELSE pair[{i, j}]]]

Diversify ==
  \E rel \in [Candidates -> {20, 100}], pair \in [Pairs -> {20, 60, 100}], lambda \in Weights :
     /\ \A i, j \in Candidates : Angles(pair)[i][j] = 100 =>
          rel[i] = rel[j] /\ Angles(pair)[i] = Angles(pair)[j]
     /\ call' = [of |-> "mmr", rel |-> rel, lambda |-> lambda, limit |-> Cardinality(Chunks),
                 sim |-> Angles(pair)]

(* What the vector search found: a text that is stored under several ids   *)
(* is found several times.                                                 *)
Hits == SeqOf(Chunks, Cardinality(Chunks))

Rerank ==
  \E cands \in Hits, scores \in SeqOf(Points, Cardinality(Chunks)),
     limit \in 1 .. Cardinality(Chunks) :
     call' = [of |-> "rank", cands |-> cands, scores |-> scores, limit |-> limit]

RerankByModel ==
  \E cands \in Hits, numbers \in SeqOf(0 .. Cardinality(Chunks) + 1, 3),
     limit \in 1 .. Cardinality(Chunks) :
     call' = [of |-> "llm", cands |-> cands, numbers |-> numbers, limit |-> limit]

Merge ==
  \E results \in SeqOf(SeqOf(Chunks, 2), 2), limit \in 1 .. Cardinality(Chunks) :
     call' = [of |-> "merge", results |-> results, limit |-> limit]

(* Paraphrases, some of them the question in other case.                   *)
Expand ==
  \E variants \in SeqOf(Chunks, 3), query \in Chunks, n \in 1 .. 2 :
     \E same \in SUBSET Chunks :
        /\ query \in same
        /\ call' = [of |-> "expand", query |-> query, variants |-> variants, n |-> n, same |-> same]

(* Scorecards of two or three models, some of which failed.                *)
Cards(marks) ==
  [error : BOOLEAN, scores : [Metrics -> marks], name : 1 .. 2]

Compare ==
  \E cards \in SeqOf(Cards(Marks \cup {Missing, NaN}), 2) :
     /\ \A i, j \in DOMAIN cards : cards[i].name = cards[j].name => i = j
     /\ call' = [of |-> "champion", cards |-> cards]

CompareFinite ==
  \E cards \in SeqOf(Cards(Marks), 3) :
     call' = [of |-> "champion",
              cards |-> [i \in DOMAIN cards |-> [cards[i] EXCEPT !.name = (i % 3) + cards[1].name]]]

Check ==
  \E answer \in Answers, contexts \in Contexts :
     call' = [of |-> "audit", answer |-> answer, contexts |-> contexts]

Call == Chunk \/ Fuse \/ Diversify \/ Rerank \/ RerankByModel \/ Merge \/ Expand
        \/ Compare \/ CompareFinite \/ Check

CallsNext ==
  \/ call = NoCall /\ Call
  \/ call # NoCall /\ call' = NoCall

CallsSpec == CallsInit /\ [][CallsNext]_call
-----------------------------------------------------------------------------
(* chunk_text loses no word that can be asked about, cuts pieces that fit  *)
(* and repeat nothing, and keeps words within the overlap together.        *)
ChunksSound ==
  call.of = "chunk" =>
     LET chunks == MarkdownChunks(call.doc, call.size, call.overlap) IN
     /\ NoWordLost(call.doc, chunks)
     /\ ChunksFit(call.doc, chunks, call.size)
     /\ NeighboursTogether(call.doc, chunks, call.size, call.overlap)

(* hybrid_fuse respects what both searches agree on, whatever the scales   *)
(* of their scores.                                                        *)
FusionSound ==
  call.of = "fuse" =>
     /\ ScalesDoNotMatter(call.dense, call.sparse, call.alpha, call.limit)
     /\ \A fused \in HybridFuse(call.dense, call.sparse, call.alpha, call.limit) :
          AgreementKept(call.dense, call.sparse, call.alpha, fused)

(* mmr_select takes near-duplicates last.                                  *)
DiversitySound ==
  call.of = "mmr" =>
     LET n == Len(call.rel) IN
     DuplicatesLast(n, call.rel, call.sim, call.lambda,
                    MMRSelect(n, call.rel, call.sim, call.lambda, call.limit))

(* The reranker that scores keeps the best, or without scores the first,   *)
(* and as many as asked for; the one that asks the model follows it and    *)
(* drops no text to keep less than asked for.  A passage found twice is    *)
(* two candidates for both, and may be kept twice.                         *)
RerankSound ==
  /\ call.of = "rank" =>
       /\ RanksBest(call.cands, call.scores, call.limit,
                    RankByScores(call.cands, call.scores, call.limit))
       /\ Len(call.scores) \in {0, Len(call.cands)} =>
            KeepsEnough(call.cands, call.limit,
                        CrossEncoderRerank(call.cands, call.scores, call.limit))
  /\ call.of = "llm" =>
       FollowsModel(call.cands, call.numbers, call.limit,
                    LLMRerank(call.cands, call.numbers, call.limit))

(* The searches of several wordings are one: the question is among them,   *)
(* and merge_unique shows each chunk once.                                 *)
MergeSound ==
  /\ call.of = "merge" =>
       MergedOnce(call.results, call.limit, MergeUnique(call.results, call.limit))
  /\ call.of = "expand" =>
       QuestionKept(call.query, call.n, call.same,
                    ExpandQuery(call.query, call.variants, call.n, call.same))

(* The passages a search hands on, whichever of its stages picked them:    *)
(* MMR takes copies last, reranking puts the best (or what the model       *)
(* lists) first and loses none, and merging shows each passage once.       *)
SelectionSound == DiversitySound /\ RerankSound /\ MergeSound

(* select_champion: the best by the primary metric, then by the mean.      *)
PicksBest == call.of = "champion" => ChampionIsBest(call.cards, "answer_correctness")

(* ... which holds as long as every score is a number.                     *)
PicksBestOfNumbers ==
  (call.of = "champion" => \A i \in DOMAIN call.cards :
      \A m \in Metrics : call.cards[i].scores[m] # NaN) => PicksBest

(* The audit and the grounding check agree, and a corrected citation is a  *)
(* better one.                                                             *)
AuditSound ==
  call.of = "audit" =>
     AccurateIsGrounded(call.answer, call.contexts) /\ CorrectionHolds(call.answer, call.contexts)
=============================================================================

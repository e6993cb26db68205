----------------------------- MODULE Guardrails -----------------------------
(***************************************************************************)
(* The checks around an answer: the screening of the question, the leak    *)
(* filter, the citation audit and the grounding check.  What they compare  *)
(* are sets of words, so a text is the set of its words: an answer has its *)
(* words, the sources it cites in order, whether one of the markers of     *)
(* abstention ("i don't know", "not found", ...) occurs in it, and whether *)
(* the canary does.  A context is what one search_docs call returned, the  *)
(* chunks with the source each is tagged with; none at all is the text "No *)
(* relevant documentation found."                                          *)
(***************************************************************************)
EXTENDS SequencesExt

CONSTANTS
  Word,        \* words that count: longer than two letters, no stopwords
  NameWords,   \* the words in the name of each source
  Unknown,     \* the source "unknown"
  PromptLines, \* the lines of the system prompt, as sets of words
  MinGrounding \* guardrails.citation_min_grounding, per mille

Source == DOMAIN NameWords

ASSUME GuardrailConstants ==
  /\ NameWords \in [Source -> SUBSET Word] /\ Unknown \in Source
  /\ {"source", "chunk", "relevant", "documentation", "found"} \subseteq Word
  /\ PromptLines \subseteq SUBSET Word /\ MinGrounding \in 1 .. 1000
  /\ IsFiniteSet(Word)

Passage == [source : Source, words : SUBSET Word]

Answer == [words : SUBSET Word, cites : Seq(Source), abstains : BOOLEAN, canary : BOOLEAN]

(* check_input: the first pattern the question matches refuses it.         *)
Categories == <<"override", "prompt_extraction", "prompt_extraction",
                "prompt_extraction", "role_hijack", "role_hijack", "jailbreak">>

InputCategory(matches) ==
  IF matches = {} THEN "allowed" ELSE Categories[Min(matches)]

(* _tokens of an answer: a citation adds its own words.                    *)
Tokens(answer) ==
  answer.words \cup (IF answer.cites = <<>> THEN {}
                     ELSE {"source"} \cup UNION {NameWords[s] : s \in ToSet(answer.cites)})

(* The share of the words w that are among the words v, per mille and      *)
(* rounded: grounding_score, and the overlap with a line of the prompt.    *)
Share(w, v) ==
  IF w = {} \/ v = {} THEN 0
  ELSE (2000 * Cardinality(w \cap v) + Cardinality(w)) \div (2 * Cardinality(w))

(* check_output: the canary, or 60 per cent of a substantive prompt line.  *)
Leaks(answer) ==
  \/ answer.canary
  \/ \E line \in PromptLines : Cardinality(line) >= 5 /\ Share(line, Tokens(answer)) >= 600

(* The words of a context as a whole, with the tags of its chunks.         *)
ContextWords(context) ==
  IF context = <<>> THEN {"relevant", "documentation", "found"}
  ELSE {"chunk", "source"} \cup
       UNION {context[i].words \cup NameWords[context[i].source] : i \in DOMAIN context}

(* _contexts_by_source: the sources found, also in the order they were ... *)
SourcesOf(context) ==
  IF context = <<>> THEN <<Unknown>> ELSE [i \in DOMAIN context |-> context[i].source]

InOrder(contexts) == FlattenSeq([k \in DOMAIN contexts |-> SourcesOf(contexts[k])])

Retrieved(contexts) == UNION {ToSet(SourcesOf(contexts[k])) : k \in DOMAIN contexts}

(* ... and all the words found under one, without the tags.                *)
WordsUnder(context, s) ==
  IF context = <<>> THEN (IF s = Unknown THEN {"relevant", "documentation", "found"} ELSE {})
  ELSE UNION {context[i].words : i \in {j \in DOMAIN context : context[j].source = s}}

SourceWords(contexts, s) == UNION {WordsUnder(c, s) : c \in ToSet(contexts)}

Support(answer, contexts, s) ==
  IF s \in Retrieved(contexts) THEN Share(Tokens(answer), SourceWords(contexts, s)) ELSE 0

Supports(answer, contexts, s) == Support(answer, contexts, s) >= MinGrounding

(* The retrieved source that supports the answer best, the first of these. *)
BestSource(answer, contexts) ==
  LET found == InOrder(contexts) IN
  found[Min({i \in DOMAIN found : \A j \in DOMAIN found :
          Support(answer, contexts, found[i]) >= Support(answer, contexts, found[j])})]

Verdict(v, source) == [verdict |-> v, corrected |-> source]

(* Slip: a citation is taken for accurate when its source was retrieved.   *)
AuditPresence(answer, contexts) ==
  LET cited == ToSet(answer.cites) IN
  IF cited = {} THEN Verdict("no_citation", Unknown)
  ELSE IF cited \cap Retrieved(contexts) # {} THEN Verdict("accurate", Unknown)
  ELSE IF contexts # <<>> /\ Supports(answer, contexts, BestSource(answer, contexts))
  THEN Verdict("corrected", BestSource(answer, contexts))
  ELSE Verdict("invented", Unknown)

(* check_citation_accuracy.                                                *)
Audit(answer, contexts) ==
  LET cited == ToSet(answer.cites)
      best  == BestSource(answer, contexts) IN
  IF cited = {} THEN Verdict("no_citation", Unknown)
  ELSE IF \E s \in cited : Supports(answer, contexts, s) THEN Verdict("accurate", Unknown)
  ELSE IF contexts # <<>> /\ Supports(answer, contexts, best) /\ best \notin cited
  THEN Verdict("corrected", best)
  ELSE IF cited \cap Retrieved(contexts) = {} THEN Verdict("invented", Unknown)
  ELSE Verdict("unsupported", Unknown)

(* rewrite_citation.                                                       *)
Rewrite(answer, s) == [answer EXCEPT !.cites = [i \in DOMAIN answer.cites |-> s]]

(* check_answer: abstaining is always grounded; a missing citation is a    *)
(* reason to tell but does not make an answer ungrounded.                  *)
Grounded(answer, contexts) ==
  \/ answer.abstains
  \/ /\ contexts # <<>>
     /\ Share(Tokens(answer), UNION {ContextWords(c) : c \in ToSet(contexts)}) >= 300
-----------------------------------------------------------------------------
(* The two passes do not contradict each other: an answer whose citation   *)
(* the audit found accurate is not reported as ungrounded.                 *)
AccurateIsGrounded(answer, contexts) ==
  (MinGrounding >= 300 /\ Audit(answer, contexts).verdict = "accurate") =>
     Grounded(answer, contexts)

(* A correction is one: the new source was retrieved, supports the answer  *)
(* better than any source it cited, and the rewritten answer, audited      *)
(* again, cites something and nothing invented.  It may be corrected again *)
(* even so: the words of the new name count, and may speak for another.    *)
CorrectionHolds(answer, contexts) ==
  LET audit == Audit(answer, contexts)
      again == Audit(Rewrite(answer, audit.corrected), contexts) IN
  audit.verdict = "corrected" =>
     /\ audit.corrected \in Retrieved(contexts) \ ToSet(answer.cites)
     /\ \A s \in ToSet(answer.cites) :
          Support(answer, contexts, s) < Support(answer, contexts, audit.corrected)
     /\ again.verdict \notin {"no_citation", "invented"}
=============================================================================

----------------------------- MODULE AgentLoop -----------------------------
(***************************************************************************)
(* What an answer goes through before it is served.  Request threads run   *)
(* AgenticController.run and run_stream with the model that was champion   *)
(* when the controller was made: the input guard, the loop of tool calls,  *)
(* the leak filter, the citation audit, the grounding check, and the       *)
(* answer cache around it all.  A search goes to the process's vector      *)
(* store manager, whose engine remembers the source of every chunk it has  *)
(* seen, and through retrieval_cache, which all managers share.            *)
(*                                                                         *)
(* Both caches are maps that may forget at any time, which is what they    *)
(* promise (LossyMap); when they do, and what a stale entry reflects, is   *)
(* Serving's subject.  A chunk is a record of its source and its words; no *)
(* two have the same text.                                                 *)
(***************************************************************************)
EXTENDS Guardrails, Functions

CONSTANTS
  Threads,    \* request threads
  Specs,      \* the models a controller can be made with
  ModelId,    \* the model id of each: two endpoints may serve the same
  Configured, \* the one of config.yaml
  Questions,  \* records: the normalised key, the input patterns it matches
  Searches,   \* queries the model sends to search_docs
  Passages,   \* the chunks of the collection
  Replies,    \* what the model writes: see ParseToolCall
  Refusal, StepLimit,   \* the two answers no model wrote
  UseHybrid,  \* retrieval.use_hybrid
  TopK, MaxSteps,       \* retrieval.top_k, agentic.max_steps
  AnswerMax,  \* BOUND: answers the cache holds
  MaxPromotions,        \* BOUND: benchmarks that change the champion
  None        \* Python's None

Tools == {"search_docs", "calculator"}

ASSUME AgentConstants ==
  /\ DOMAIN ModelId = Specs /\ Configured \in Specs /\ None \notin Specs \cup Threads \cup Searches
  /\ {Refusal, StepLimit} \subseteq Answer
  /\ \A r \in Replies : r.text \in Answer
  /\ ~ Leaks(Refusal)
  /\ Passages \subseteq Passage /\ \A p \in Passages : p.source # Unknown
  /\ UseHybrid \in BOOLEAN /\ {TopK, MaxSteps, AnswerMax, MaxPromotions} \subseteq Nat

VARIABLES
  champion,   \* champion.json: None, or the model the last benchmark chose
  promotions, \* how often it was written
  answers,    \* answer_cache: a result for some keys
  retrieval,  \* retrieval_cache: the texts found for some queries
  manager,    \* _MANAGERS: None, or the thread that made the manager in it
  built,      \* the threads that ever made one
  index,      \* _source_index of each manager's engine
  pc, req,    \* where each request thread is, and its locals
  sent        \* the response sent by the last step, if it sent one

shared == <<champion, promotions>>
stores == <<retrieval, manager, built, index>>
vars   == <<shared, answers, stores, pc, req, sent>>

Fresh(q, s, stream) ==
  [question |-> q, spec |-> s, stream |-> stream, steps |-> 0, contexts |-> <<>>,
   search |-> None, manager |-> None, texts |-> <<>>]

Gone == Fresh(None, None, FALSE)

Goto(t, from, to) ==
  pc[t] = from /\ pc' = [pc EXCEPT ![t] = to] /\ sent' = None

(* The request is over; its result, if there is one, goes out.             *)
Respond(t, result) ==
  /\ pc' = [pc EXCEPT ![t] = "idle"]
  /\ req' = [req EXCEPT ![t] = Gone]
  /\ sent' = [to |-> req[t].spec, result |-> result]

Init ==
  /\ champion = None /\ promotions = 0
  /\ answers = <<>> /\ retrieval = <<>>
  /\ manager = None /\ built = {}
  /\ index = [t \in Threads |-> {}]
  /\ pc  = [t \in Threads |-> "idle"]
  /\ req = [t \in Threads |-> Gone]
  /\ sent = None
-----------------------------------------------------------------------------
(* The tool a reply asks for.  The strict format may name any tool; the    *)
(* lenient ones are tried only without it, and only for enabled tools.     *)
ParseToolCall(reply) == IF reply.strict # None THEN reply.strict ELSE reply.lenient

(* A result: the answer with the contexts and the verdicts on both, and,   *)
(* for the properties, the model that wrote it.                            *)
Result(answer, contexts, audit, grounded, blocked, by) ==
  [answer |-> answer, contexts |-> contexts, audit |-> audit, grounded |-> grounded,
   blocked |-> blocked, by |-> by]

Blocked == Result(Refusal, <<>>, Verdict("no_citation", Unknown), TRUE, TRUE, None)

(* Slip: the grounding check looks at the draft, before it was withheld.   *)
FinalizeEarly(draft, found, spec) ==
  LET leaked   == Leaks(draft)
      answer   == IF leaked THEN Refusal ELSE draft
      contexts == IF leaked THEN <<>> ELSE found
      audit    == Audit(answer, contexts)
      served   == IF audit.verdict = "corrected" THEN Rewrite(answer, audit.corrected) ELSE answer IN
  Result(served, contexts, audit, Grounded(draft, found), FALSE, spec)

(* Slip: a leak is logged and served.                                      *)
FinalizeLeaky(draft, found, spec) ==
  LET audit  == Audit(draft, found)
      served == IF audit.verdict = "corrected" THEN Rewrite(draft, audit.corrected) ELSE draft IN
  Result(served, found, audit, Grounded(served, found), FALSE, spec)

(* _finalize: withhold a leak together with its contexts, audit and maybe  *)
(* correct the citation, then check what is left.                          *)
Finalize(draft, found, spec) ==
  LET leaked   == Leaks(draft)
      answer   == IF leaked THEN Refusal ELSE draft
      contexts == IF leaked THEN <<>> ELSE found
      audit    == Audit(answer, contexts)
      served   == IF audit.verdict = "corrected" THEN Rewrite(answer, audit.corrected) ELSE answer IN
  Result(served, contexts, audit, Grounded(served, contexts), FALSE, spec)

(* Slip: only an ungrounded answer is worth a warning.                     *)
WarningIfUngrounded(result) ==
  IF result.blocked THEN "blocked" ELSE IF result.grounded THEN "none" ELSE "ungrounded"

(* The warning /query sends along with a result.                           *)
Warning(result) ==
  IF result.blocked THEN "blocked"
  ELSE IF ~ result.grounded THEN "ungrounded"
  ELSE IF result.audit.verdict \in {"invented", "unsupported"} THEN "unverified"
  ELSE IF result.audit.verdict = "corrected" THEN "corrected"
  ELSE "none"

(* Slip: the key is the question alone.                                    *)
AnswerKeyOfQuestion(r) == <<r.question.key>>

(* _answer_cache_key; the prompt version does not change in a process.     *)
AnswerKey(r) == <<ModelId[r.spec], r.question.key>>
-----------------------------------------------------------------------------
(* answer_cache.set, which may evict other entries to make room.           *)
Cache(key, result) ==
  \E kept \in SUBSET (DOMAIN answers \ {key}) :
    /\ Cardinality(kept) < AnswerMax
    /\ answers' = [k \in kept \cup {key} |-> IF k = key THEN result ELSE answers[k]]

(* The end of a run: the result of /query is cached, unless it is a        *)
(* refusal, and sent.                                                      *)
Finish(t, result) ==
  /\ IF req[t].stream \/ result.blocked THEN UNCHANGED answers
     ELSE Cache(AnswerKey(req[t]), result)
  /\ Respond(t, result)

(* A request arrives; its controller takes the champion, or the configured *)
(* model.  A stream does not look its answer up.                           *)
Ask(t, q, stream) ==
  /\ Goto(t, "idle", IF stream THEN "screen" ELSE "lookup")
  /\ req' = [req EXCEPT ![t] = Fresh(q, IF champion = None THEN Configured ELSE champion, stream)]
  /\ UNCHANGED <<shared, answers, stores>>

(* The input guard: a question it refuses never reaches the model.         *)
Screen(t) ==
  /\ IF InputCategory(req[t].question.matches) = "allowed"
     THEN Goto(t, pc[t], "think") /\ UNCHANGED <<answers, req>>
     ELSE Finish(t, Blocked)
  /\ UNCHANGED <<shared, stores>>

ScreenStream(t) == pc[t] = "screen" /\ Screen(t)

(* answer_cache.get: a hit is the response, verdict included; a miss goes  *)
(* on to the input guard.                                                  *)
LookupAnswer(t) ==
  /\ pc[t] = "lookup"
  /\ LET key == AnswerKey(req[t]) IN
     IF key \in DOMAIN answers
     THEN Respond(t, answers[key]) /\ UNCHANGED <<shared, answers, stores>>
     ELSE Screen(t)

(* The model asks for search_docs, and get_vectorstore looks for the       *)
(* manager of the process ...                                              *)
CallSearch(t, s) ==
  /\ req[t].steps < MaxSteps
  /\ \E r \in Replies : ParseToolCall(r) = "search_docs"
  /\ Goto(t, "think", IF manager = None THEN "build" ELSE "rget")
  /\ req' = [req EXCEPT ![t].search = s, ![t].manager = manager, ![t].steps = @ + 1]
  /\ UNCHANGED <<shared, answers, stores>>

(* Slip: the manager is not kept for the next call.                        *)
BuildUnshared(t) ==
  /\ Goto(t, "build", "rget")
  /\ built' = built \cup {t}
  /\ index' = [index EXCEPT ![t] = {}]
  /\ req' = [req EXCEPT ![t].manager = t]
  /\ UNCHANGED <<shared, answers, retrieval, manager>>

(* ... or makes one, without a lock around the two steps.                  *)
BuildManager(t) ==
  /\ Goto(t, "build", "rget")
  /\ manager' = t /\ built' = built \cup {t}
  /\ index' = [index EXCEPT ![t] = {}]
  /\ req' = [req EXCEPT ![t].manager = t]
  /\ UNCHANGED <<shared, answers, retrieval>>

CallCalculator(t) ==
  /\ pc[t] = "think" /\ req[t].steps < MaxSteps
  /\ \E r \in Replies : ParseToolCall(r) = "calculator"
  /\ req' = [req EXCEPT ![t].steps = @ + 1] /\ sent' = None
  /\ UNCHANGED <<shared, answers, stores, pc>>

(* The loop is over and _finalize runs.                                    *)
Conclude(t, draft) ==
  /\ pc[t] = "think"
  /\ Finish(t, Finalize(draft, req[t].contexts, req[t].spec))
  /\ UNCHANGED <<shared, stores>>

(* A reply that asks for no tool, or for one that does not exist, is the   *)
(* final answer as it stands.                                              *)
FinalAnswer(t) ==
  /\ req[t].steps < MaxSteps
  /\ \E r \in Replies : ParseToolCall(r) \notin Tools /\ Conclude(t, r.text)

OutOfSteps(t) == req[t].steps = MaxSteps /\ Conclude(t, StepLimit)

(* retrieve_with_sources: a text the engine has not seen has no source.    *)
SourceTag(m, passage) ==
  IF passage \in index[m] THEN passage ELSE [passage EXCEPT !.source = Unknown]

(* The tagged chunks are the tool's result and go to the model.            *)
Found(t, texts) ==
  req' = [req EXCEPT
    ![t].contexts = Append(@, [i \in DOMAIN texts |-> SourceTag(req[t].manager, texts[i])]),
    ![t].texts = <<>>, ![t].search = None, ![t].manager = None]

(* RetrievalEngine.retrieve: a cached result leaves the index alone.       *)
LookupRetrieval(t) ==
  LET s == req[t].search IN
  /\ Goto(t, "rget", IF s \in DOMAIN retrieval THEN "think" ELSE "query")
  /\ IF s \in DOMAIN retrieval THEN Found(t, retrieval[s]) ELSE UNCHANGED req
  /\ UNCHANGED <<shared, answers, stores>>

(* Each raw hit's source is remembered ...                                 *)
Remember(m, hits) == index' = [index EXCEPT ![m] = @ \cup hits]

(* ... before the hits, which a collection that is not empty always has,   *)
(* are fused with the keyword ranking of the whole corpus, thinned and     *)
(* reranked: the result is some of the candidates.                         *)
QueryVectors(t) ==
  /\ Goto(t, "query", "rset")
  /\ \E hits \in SUBSET Passages :
       /\ (hits = {}) = (Passages = {})
       /\ Remember(req[t].manager, hits)
       /\ \E texts \in SeqOf(IF UseHybrid THEN Passages ELSE hits, TopK) :
            /\ IsInjective(texts) /\ (texts = <<>>) = (hits = {})
            /\ req' = [req EXCEPT ![t].texts = texts]
  /\ UNCHANGED <<shared, answers, retrieval, manager, built>>

(* retrieval_cache.set.                                                    *)
StoreRetrieval(t) ==
  /\ Goto(t, "rset", "think")
  /\ retrieval' = [s \in DOMAIN retrieval \cup {req[t].search} |->
                     IF s = req[t].search THEN req[t].texts ELSE retrieval[s]]
  /\ Found(t, req[t].texts)
  /\ UNCHANGED <<shared, answers, manager, built, index>>

(* The model, the embedder, the collection or a new manager raises, or a   *)
(* stream's client goes away: the run ends and stores nothing more.        *)
Abandon(t) ==
  /\ \E from \in {"think", "build", "query"} : Goto(t, from, "idle")
  /\ req' = [req EXCEPT ![t] = Gone]
  /\ UNCHANGED <<shared, answers, stores>>
-----------------------------------------------------------------------------
(* A benchmark writes champion.json: a model of the registry.              *)
Promote(s) ==
  /\ promotions < MaxPromotions
  /\ champion' = s /\ promotions' = promotions + 1 /\ sent' = None
  /\ UNCHANGED <<answers, stores, pc, req>>

(* An entry expires, is evicted, or is cleared by an ingestion.            *)
ForgetAnswer ==
  /\ \E k \in DOMAIN answers : answers' = Restrict(answers, DOMAIN answers \ {k})
  /\ sent' = None
  /\ UNCHANGED <<shared, stores, pc, req>>

ForgetRetrieval ==
  /\ \E s \in DOMAIN retrieval : retrieval' = Restrict(retrieval, DOMAIN retrieval \ {s})
  /\ sent' = None
  /\ UNCHANGED <<shared, answers, manager, built, index, pc, req>>

ThreadStep(t) ==
  \/ LookupAnswer(t) \/ ScreenStream(t)
  \/ CallCalculator(t) \/ \E s \in Searches : CallSearch(t, s)
  \/ FinalAnswer(t) \/ OutOfSteps(t)
  \/ BuildManager(t) \/ LookupRetrieval(t) \/ QueryVectors(t)
  \/ StoreRetrieval(t) \/ Abandon(t)

Next ==
  \/ \E t \in Threads : ThreadStep(t) \/ \E q \in Questions, b \in BOOLEAN : Ask(t, q, b)
  \/ \E s \in Specs \ {Configured} : Promote(s)
  \/ ForgetAnswer \/ ForgetRetrieval

Spec == Init /\ [][Next]_vars
-----------------------------------------------------------------------------
(* What was sent, or may be once it is found in the cache.                 *)
Held == {answers[k] : k \in DOMAIN answers} \cup (IF sent = None THEN {} ELSE {sent.result})

ResultOK(r) ==
  /\ DOMAIN r = {"answer", "contexts", "audit", "grounded", "blocked", "by"}
  /\ r.answer \in Answer /\ {r.grounded, r.blocked} \subseteq BOOLEAN
  /\ r.by \in Specs \cup {None} /\ r.blocked = (r.by = None)

TypeOK ==
  /\ champion \in Specs \cup {None} /\ promotions \in 0 .. MaxPromotions
  /\ \A s \in DOMAIN retrieval : s \in Searches /\ ToSet(retrieval[s]) \subseteq Passages
  /\ manager \in Threads \cup {None} /\ built \subseteq Threads
  /\ index \in [Threads -> SUBSET Passages]
  /\ pc \in [Threads -> {"idle", "lookup", "screen", "think", "build", "rget",
                         "query", "rset"}]
  /\ \A t \in Threads : req[t].steps \in 0 .. MaxSteps /\ (pc[t] = "idle") = (req[t] = Gone)
  /\ \A r \in Held : ResultOK(r)

(* "Bind the key to the model ... so switching never serves an answer      *)
(* produced by the other": whatever the benchmark promotes meanwhile, the  *)
(* answer a request gets was written by the model it was made with.        *)
BoundToModel ==
  sent # None => sent.result.blocked \/ ModelId[sent.result.by] = ModelId[sent.to]

(* _finalize withholds a leak before anything is stored or sent: no cached *)
(* answer and no response says what the filter stops.  The citation is     *)
(* left out, the audit may have replaced it since.                         *)
NothingLeaked == \A r \in Held : ~ Leaks([r.answer EXCEPT !.cites = <<>>])

(* The verdict that goes out, or comes out of the cache later, is about    *)
(* the very answer and contexts it goes out with: a withheld or corrected  *)
(* answer does not carry the verdict on the model's draft.                 *)
VerdictIsOfAnswer ==
  \A r \in Held : ~ r.blocked => r.grounded = Grounded(r.answer, r.contexts)

(* What a reader takes from /query without a warning: the answer abstains, *)
(* or rests on what was retrieved, and if it cites anything it cites a     *)
(* retrieved source that supports it and that the model itself named.      *)
SilenceMeansSupported ==
  \A r \in Held : Warning(r) = "none" =>
     /\ r.answer.abstains \/ r.contexts # <<>>
     /\ r.answer.cites = <<>> \/ \E s \in ToSet(r.answer.cites) : Supports(r.answer, r.contexts, s)
     /\ r.audit.corrected = Unknown

(* The engine's index names the source of every chunk the model is shown,  *)
(* cached searches included, as the comment in RetrievalEngine says ...    *)
SourcesKnown ==
  \A t \in Threads : \A c \in ToSet(req[t].contexts) : Unknown \notin {c[i].source : i \in DOMAIN c}

(* ... which holds in dense mode while the process has one manager.        *)
SourcesKnownOfOne == (~ UseHybrid /\ Cardinality(built) <= 1) => SourcesKnown
=============================================================================

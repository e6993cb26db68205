------------------------------ MODULE Serving ------------------------------
(***************************************************************************)
(* Question answering beside re-ingestion.  Request threads run            *)
(* AgenticController.run (POST /query) or run_stream (POST /query/stream): *)
(* look the answer up, let the model search the documents several times,   *)
(* store the answer.  Each search goes through retrieval_cache and, in     *)
(* hybrid mode, through the vector store's corpus cache.  Meanwhile POST   *)
(* /ingest adds documents and then clears the two caches one after the     *)
(* other, and other processes add documents to the same collection.        *)
(*                                                                         *)
(* What the collection holds is its version: the number of documents added *)
(* so far; version 0 is the empty collection.  A retrieved context, a      *)
(* cached result and a cached answer are the versions they were read from. *)
(***************************************************************************)
EXTENDS TTLCache

CONSTANTS
  Threads,        \* request threads
  Ingesters,      \* threads that serve POST /ingest
  Questions,      \* answer cache keys
  Searches,       \* retrieval cache keys
  None,           \* Python's None, or an empty _corpus_cache
  AnswerTTL, AnswerMax,        \* answer_cache, in ticks and entries
  RetrievalTTL, RetrievalMax,  \* retrieval_cache
  UseHybrid,      \* retrieval.use_hybrid
  MultiQuery,     \* retrieval.multi_query
  OtherProcesses, \* may the pipeline or the watcher ingest meanwhile?
  MayRaise,       \* may an ingestion raise half-way?
  MaxSteps,       \* agentic.max_steps
  MaxVersion,     \* BOUND: documents ever added
  MaxLatency      \* BOUND: ticks a request may take

Version == 0 .. MaxVersion

ASSUME ServingConstants ==
  /\ AnswerTTL \in Nat \ {0} /\ RetrievalTTL \in Nat \ {0}
  /\ AnswerMax \in Nat \ {0} /\ RetrievalMax \in Nat \ {0}
  /\ {UseHybrid, MultiQuery, OtherProcesses, MayRaise} \subseteq BOOLEAN
  /\ MaxSteps \in Nat /\ MaxVersion \in Nat /\ MaxLatency \in Nat

ASSUME NoneIsNoVersion == None \notin Version

VARIABLES
  version,    \* documents the collection has had added
  corpus,     \* vectorstore._corpus_cache: None or the version scrolled
  answers,    \* answer_cache
  retrieval,  \* retrieval_cache
  pc,         \* where each request thread is
  req,        \* the locals of its request
  ipc,        \* where each ingesting thread is
  outdated,   \* history: ticks since a version was superseded
  floor,      \* history: version at the last retrieval_cache.clear()
  overlapped, \* history: was a request in flight at that moment?
  raced       \* history: was a scroll in progress when the corpus was dropped?

store   == <<version, corpus>>
caches  == <<answers, retrieval>>
history == <<outdated, floor, overlapped, raced>>
vars    == <<store, caches, pc, req, ipc, history>>

(* The locals of a request: the question, whether it streams, the agent    *)
(* steps taken, the versions its retrieved_contexts were read from; for    *)
(* its current search_docs call the query, the versions read so far and    *)
(* the version scrolled for the corpus; and the ticks since it arrived.    *)
Request == [question : Questions \cup {None}, stream : BOOLEAN,
            steps : 0 .. MaxSteps, contexts : SUBSET Version,
            search : Searches \cup {None}, found : SUBSET Version,
            scrolled : Version \cup {None}, elapsed : 0 .. MaxLatency]

Fresh(q, s) == [question |-> q, stream |-> s, steps |-> 0, contexts |-> {},
                search |-> None, found |-> {}, scrolled |-> None, elapsed |-> 0]

Gone == Fresh(None, FALSE)

InFlight == {t \in Threads : pc[t] # "idle"}

Goto(t, from, to)  == pc[t] = from /\ pc' = [pc EXCEPT ![t] = to]
IGoto(i, from, to) == ipc[i] = from /\ ipc' = [ipc EXCEPT ![i] = to]

Init ==
  /\ version = 0 /\ corpus = None
  /\ answers = <<>> /\ retrieval = <<>>
  /\ pc  = [t \in Threads |-> "idle"]
  /\ req = [t \in Threads |-> Gone]
  /\ ipc = [i \in Ingesters |-> "idle"]
  /\ outdated = [v \in Version |-> 0]
  /\ floor = 0 /\ overlapped = FALSE /\ raced = FALSE
-----------------------------------------------------------------------------
(* A request arrives: /query looks the answer up first, a stream does not. *)
Ask(t, q, s) ==
  /\ Goto(t, "idle", IF s THEN "think" ELSE "lookup")
  /\ req' = [req EXCEPT ![t] = Fresh(q, s)]
  /\ UNCHANGED <<store, caches, ipc, history>>

(* answer_cache.get: a hit is the response, a miss starts the agent loop.  *)
LookupAnswer(t) ==
  LET q   == req[t].question
      hit == Hit(answers, q, AnswerTTL) IN
  /\ Goto(t, "lookup", IF hit THEN "idle" ELSE "think")
  /\ answers' = AfterGet(answers, q, AnswerTTL)
  /\ req' = [req EXCEPT ![t] = IF hit THEN Gone ELSE @]
  /\ UNCHANGED <<store, retrieval, ipc, history>>

(* Slip: a search is not counted as a step.                                *)
CallSearchUncounted(t, s) ==
  /\ req[t].steps < MaxSteps
  /\ Goto(t, "think", "rget")
  /\ req' = [req EXCEPT ![t].search = s]
  /\ UNCHANGED <<store, caches, ipc, history>>

(* The model calls search_docs.                                            *)
CallSearch(t, s) ==
  /\ req[t].steps < MaxSteps
  /\ Goto(t, "think", "rget")
  /\ req' = [req EXCEPT ![t].search = s, ![t].steps = @ + 1]
  /\ UNCHANGED <<store, caches, ipc, history>>

(* The model calls another tool, which reads no documents.                 *)
CallOther(t) ==
  /\ pc[t] = "think" /\ req[t].steps < MaxSteps
  /\ req' = [req EXCEPT ![t].steps = @ + 1]
  /\ UNCHANGED <<store, caches, pc, ipc, history>>

(* retrieval_cache.get: a hit is the tool's result.                        *)
LookupRetrieval(t) ==
  LET s   == req[t].search
      hit == Hit(retrieval, s, RetrievalTTL) IN
  /\ Goto(t, "rget", IF hit THEN "think" ELSE "dense")
  /\ retrieval' = AfterGet(retrieval, s, RetrievalTTL)
  /\ req' = IF hit THEN [req EXCEPT ![t].contexts = @ \cup ValueAt(retrieval, s)]
                   ELSE req
  /\ UNCHANGED <<store, answers, ipc, history>>

(* Where a retrieval goes once one paraphrase has its candidates.          *)
Candidates == {"rset"} \cup (IF MultiQuery THEN {"dense"} ELSE {})

(* The vector search.  An empty collection has no hits and ends the        *)
(* retrieval; a hybrid one goes on to the corpus.                          *)
DenseSearch(t) ==
  /\ \E to \in IF UseHybrid /\ version > 0 THEN {"corpus"} ELSE Candidates :
        Goto(t, "dense", to)
  /\ req' = [req EXCEPT ![t].found = @ \cup {version}]
  /\ UNCHANGED <<store, caches, ipc, history>>

(* get_corpus_texts: the texts kept by an earlier scroll, if any.          *)
CachedCorpus(t) ==
  /\ corpus # None
  /\ \E to \in Candidates : Goto(t, "corpus", to)
  /\ req' = [req EXCEPT ![t].found = @ \cup {corpus}]
  /\ UNCHANGED <<store, caches, ipc, history>>

(* get_corpus_texts: otherwise the whole collection is scrolled ...        *)
ScrollCorpus(t) ==
  /\ corpus = None
  /\ Goto(t, "corpus", "keep")
  /\ req' = [req EXCEPT ![t].scrolled = version]
  /\ UNCHANGED <<store, caches, ipc, history>>

(* ... and kept for the searches to come.                                  *)
KeepCorpus(t) ==
  /\ \E to \in Candidates : Goto(t, "keep", to)
  /\ corpus' = req[t].scrolled
  /\ req' = [req EXCEPT ![t].found = @ \cup {req[t].scrolled}, ![t].scrolled = None]
  /\ UNCHANGED <<version, caches, ipc, history>>

(* retrieval_cache.set; the result goes to the model.                      *)
StoreRetrieval(t) ==
  /\ Goto(t, "rset", "think")
  /\ retrieval' = AfterSet(retrieval, req[t].search, req[t].found, RetrievalMax)
  /\ req' = [req EXCEPT ![t].contexts = @ \cup req[t].found,
                        ![t].found = {}, ![t].search = None]
  /\ UNCHANGED <<store, answers, ipc, history>>

(* The model answers, or the step limit is reached: a stream is over, a    *)
(* query has its answer to store.                                          *)
Conclude(t) ==
  /\ Goto(t, "think", IF req[t].stream THEN "idle" ELSE "aset")
  /\ req' = [req EXCEPT ![t] = IF @.stream THEN Gone ELSE @]
  /\ UNCHANGED <<store, caches, ipc, history>>

(* answer_cache.set, and the response.                                     *)
StoreAnswer(t) ==
  /\ Goto(t, "aset", "idle")
  /\ answers' = AfterSet(answers, req[t].question, req[t].contexts, AnswerMax)
  /\ req' = [req EXCEPT ![t] = Gone]
  /\ UNCHANGED <<store, retrieval, ipc, history>>

(* The input guard refuses the question, the model, the embedder (again    *)
(* for MMR) or the collection raises, or a stream's client goes away:      *)
(* nothing is stored.                                                      *)
Abandon(t) ==
  /\ \E from \in {"think", "dense", "corpus", "keep", "rset"} : Goto(t, from, "idle")
  /\ req' = [req EXCEPT ![t] = Gone]
  /\ UNCHANGED <<store, caches, ipc, history>>
-----------------------------------------------------------------------------
(* POST /ingest arrives.                                                   *)
Ingest(i) ==
  /\ IGoto(i, "idle", "adding")
  /\ UNCHANGED <<store, caches, pc, req, history>>

(* add_documents: the chunks of a changed document are upserted ...        *)
Upsert(i) ==
  /\ version < MaxVersion
  /\ IGoto(i, "adding", "upserted")
  /\ version' = version + 1
  /\ UNCHANGED <<corpus, caches, pc, req, history>>

(* Slip: the corpus is not dropped.                                        *)
DropNothing(i) ==
  /\ IGoto(i, "upserted", "adding")
  /\ raced' = (\E t \in Threads : pc[t] = "keep")
  /\ UNCHANGED <<store, caches, pc, req, outdated, floor, overlapped>>

(* ... and, the ingest state saved, the corpus is dropped.                 *)
DropCorpus(i) ==
  /\ IGoto(i, "upserted", "adding")
  /\ corpus' = None
  /\ raced' = (\E t \in Threads : pc[t] = "keep")
  /\ UNCHANGED <<version, caches, pc, req, outdated, floor, overlapped>>

(* ingest_all raises, in the middle of a document or between two.          *)
IngestFails(i) ==
  /\ MayRaise
  /\ IGoto(i, "adding", "idle") \/ IGoto(i, "upserted", "idle")
  /\ UNCHANGED <<store, caches, pc, req, history>>

(* ingest_all returned: retrieval_cache.clear().                           *)
ClearRetrieval(i) ==
  /\ IGoto(i, "adding", "clearing")
  /\ retrieval' = <<>>
  /\ floor' = version
  /\ overlapped' = (InFlight # {})
  /\ UNCHANGED <<store, answers, pc, req, outdated, raced>>

(* Slip: only the retrieval cache is cleared.                              *)
ClearNoAnswers(i) ==
  /\ IGoto(i, "clearing", "idle")
  /\ UNCHANGED <<store, caches, pc, req, history>>

(* answer_cache.clear(), and the response.                                 *)
ClearAnswers(i) ==
  /\ IGoto(i, "clearing", "idle")
  /\ answers' = <<>>
  /\ UNCHANGED <<store, retrieval, pc, req, history>>

(* Another process ingests: it cannot reach the caches of this one.        *)
OtherUpsert ==
  /\ OtherProcesses /\ version < MaxVersion
  /\ version' = version + 1
  /\ UNCHANGED <<corpus, caches, pc, req, ipc, history>>

(* The longest staleness the properties tell apart.                        *)
Horizon == 2 * MaxLatency + RetrievalTTL + AnswerTTL + 1

(* Time passes, for the caches and for the requests in flight.             *)
Tick ==
  /\ \A t \in InFlight : req[t].elapsed < MaxLatency
  /\ answers'   = Aged(answers, AnswerTTL)
  /\ retrieval' = Aged(retrieval, RetrievalTTL)
  /\ req' = [t \in Threads |-> IF t \in InFlight
                                 THEN [req[t] EXCEPT !.elapsed = @ + 1] ELSE req[t]]
  /\ outdated' = [v \in Version |-> IF v < version /\ outdated[v] < Horizon
                                      THEN outdated[v] + 1 ELSE outdated[v]]
  /\ UNCHANGED <<store, pc, ipc, floor, overlapped, raced>>

ThreadStep(t) ==
  \/ LookupAnswer(t) \/ LookupRetrieval(t)
  \/ CallOther(t) \/ \E s \in Searches : CallSearch(t, s)
  \/ DenseSearch(t) \/ CachedCorpus(t) \/ ScrollCorpus(t) \/ KeepCorpus(t)
  \/ StoreRetrieval(t) \/ Conclude(t) \/ StoreAnswer(t) \/ Abandon(t)

IngestStep(i) ==
  \/ Upsert(i) \/ DropCorpus(i) \/ IngestFails(i)
  \/ ClearRetrieval(i) \/ ClearAnswers(i)

Next ==
  \/ \E t \in Threads : ThreadStep(t) \/ \E q \in Questions, s \in BOOLEAN : Ask(t, q, s)
  \/ \E i \in Ingesters : Ingest(i) \/ IngestStep(i)
  \/ OtherUpsert
  \/ Tick

Spec == Init /\ [][Next]_vars

(* Threads are scheduled, every remote call returns or raises, and time    *)
(* passes; nobody has to ask or to ingest.                                 *)
FairSpec ==
  /\ Spec /\ WF_vars(Tick)
  /\ \A t \in Threads : WF_vars(ThreadStep(t))
  /\ \A i \in Ingesters : WF_vars(IngestStep(i))
-----------------------------------------------------------------------------
TypeOK ==
  /\ version \in Version /\ corpus \in Version \cup {None}
  /\ answers \in Seq(Entry(Questions, SUBSET Version, AnswerTTL))
  /\ retrieval \in Seq(Entry(Searches, SUBSET Version, RetrievalTTL))
  /\ pc \in [Threads -> {"idle", "lookup", "think", "rget", "dense", "corpus",
                         "keep", "rset", "aset"}]
  /\ req \in [Threads -> Request]
  /\ ipc \in [Ingesters -> {"idle", "adding", "upserted", "clearing"}]
  /\ outdated \in [Version -> 0 .. Horizon]
  /\ floor \in Version /\ overlapped \in BOOLEAN /\ raced \in BOOLEAN

(* Every version a cache's entries were read from.                         *)
Sources(c) == UNION {c[i].val : i \in DOMAIN c}

(* Versions an entry that may still be served was read from.               *)
LiveSources(c, ttl) == UNION {c[i].val : i \in {j \in DOMAIN c : ~ Expired(c[j], ttl)}}

Current(vs) == \A v \in vs : v >= floor

(* No answer can be served that reflects documents superseded longer ago   *)
(* than the two TTLs add up to, plus the time of the two requests that     *)
(* passed it on.  Dense mode only: the corpus of hybrid mode has no TTL.   *)
StalenessBound ==
  ~ UseHybrid =>
     \A v \in LiveSources(answers, AnswerTTL) :
        outdated[v] <= 2 * MaxLatency + RetrievalTTL + AnswerTTL

(* In every mode a search that is served from the cache reflects, in its   *)
(* dense half at least, documents superseded no longer ago than one TTL    *)
(* and the request that stored it.                                         *)
DenseHalfBounded ==
  \A i \in DOMAIN retrieval : ~ Expired(retrieval[i], RetrievalTTL) =>
     \E v \in retrieval[i].val : outdated[v] <= MaxLatency + RetrievalTTL

(* POST /ingest leaves nothing stale behind when no request was in flight  *)
(* as it cleared the first cache: from its return on, all that is cached   *)
(* was read from the documents it added, or from later ones.               *)
QuietIngestInvalidates ==
  (~ UseHybrid /\ ~ overlapped /\ \A i \in Ingesters : ipc[i] # "clearing") =>
     Current(Sources(retrieval)) /\ Current(Sources(answers))

(* The corpus kept for BM25 falls behind the collection in one way only,   *)
(* as long as this process alone adds documents and no ingestion raises:   *)
(* a scroll that began before a document was added outlasts add_documents. *)
CorpusStaleOnlyByRace ==
  (/\ ~ OtherProcesses /\ ~ MayRaise /\ ~ raced
   /\ \A i \in Ingesters : ipc[i] # "upserted") => corpus \in {None, version}

(* What hybrid retrieval is worth in a process that ingests for itself:    *)
(* its two halves go stale by a race or within a bound, never otherwise.   *)
HybridFreshness == CorpusStaleOnlyByRace /\ DenseHalfBounded

(* A request ends within its bounded number of steps.                      *)
RequestsEnd == \A t \in Threads : (pc[t] # "idle") ~> (pc[t] = "idle")
=============================================================================

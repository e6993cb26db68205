# Verification of doc_drift_pipeline

doc_drift_pipeline ("DocDrift") answers questions about a directory of markdown
documents with an agent over a vector store, re-ingests the documents as they
change, evaluates the answers, collects feedback and gates on drift. This
directory holds TLA+ models of the parts of it whose correctness depends on
interleaving, failure, time or arithmetic, the TLC runs that check them on small
instances, and theorems about them that TLAPS checks for every instance.

Paths in this file and in `PROJECT.json` are relative to the repository's parent
(`src/` is the repository root), so `src/src/core/cache.py` is the repository's
`src/core/cache.py`.

    tlc -workers 4 -config MCServingDense.cfg MCServing      # check one run
    tlapm ServingProofs.tla                                  # check proofs

## 1. Inventory

| component | state | operations | interacts with | what is hard |
|---|---|---|---|---|
| TTL cache (`core/cache.py`) | an OrderedDict of (moment, value) | get, set, clear, get_or_compute | all request threads; embedding, retrieval and answer caches are instances | lookup and store are two critical sections; expiry, LRU eviction |
| Embedding client, retry (`ingestion/embedder.py`, `core/resilience.py`) | none beyond its cache | get_embeddings, `_embed_remote` under `@retry` | embedding_cache, a remote model | retries, what is cached after a failure |
| Serving path (`agentic/controller.py`, `retrieval/engine.py`, `api/app.py`) | answer_cache, retrieval_cache, `_corpus_cache` | POST /query, POST /query/stream, POST /ingest | the collection; other processes that ingest | caches computed from each other, cleared one after the other under running requests |
| Agent loop, guardrails, tools (`agentic/`) | per request: messages, contexts; per process: a manager with its source index | screen, parse, call tools, finalize, audit citations | answer cache, retrieval, the champion | two checks of one answer that is changed between them; what is cached and for whom |
| Ingestion (`ingestion/service.py`, `ingestion/vectorstore.py`) | collection, `metrics/ingest_state.json`, table `ingest_state` | ingest_all, add_documents, should_skip_ingest, `_ensure_collection_exists` | API, pipeline, CLI, watcher, in different processes without a lock | lost updates, kills between upsert and save, a file torn in two, two records of one thing |
| Automation (`automation/`) | none of its own: it reads the ingest state file | detect_changes, run_auto_reingest, watch | ingestion, evaluation | changes others ingest first, failures after the hashes were recorded |
| Ceiling on agent runs (`api/app.py`) | `_QUERY_SEM` | POST /query, POST /query/stream | the server that drives the stream's generator | a generator that never began; a slot forgotten or released twice |
| Rate limiter (`api/app.py`, `core/redis_client.py`) | a deque per address and instance, or a Redis counter | the middleware | Redis, other instances | the fallback between two limiters, window boundaries, eviction |
| Benchmark job (`api/app.py`) | `_BENCH` | start_benchmark, `_run_benchmark_job`, benchmark_status | a subprocess of the pipeline | check and set, failures of thread and subprocess |
| Model benchmark, champion (`evaluation/model_bench.py`, `core/llm.py`) | `model_scores.json`, `champion.json` | benchmark_models, champion_spec, /models | serving path | two snapshots that belong together, written by several processes |
| Durable snapshots (`core/blob_store.py`) | a file and a row each | write_metrics_json, read_metrics_json | benchmark, evaluation, API | file and row out of step, readers in the middle of a write |
| Drift gate, evaluation, pipeline (`evaluation/`, `pipeline.py`) | `baseline.json`, `latest_eval.json` | enforce_drift_or_exit, check_drift, run_evaluation, the comparisons | CI, operators, watcher | a run without a baseline becomes it; overlapping saves; a second writer of `latest_eval.json`; scores that are not numbers |
| Feedback (`evaluation/feedback.py`) | two JSONL files or two tables | record_feedback, load_regression_cases | API, pipeline | two writes that are not atomic, half a line |
| Tracing, statistics (`observability/`) | `traces.jsonl` or a table | Tracer, load_traces | API, watcher | a fallback nobody reads back |
| Retrieval algorithms (`retrieval/`) | none | fusion, MMR, rerank, query variants | engine | ties, duplicates, equal scores, empty inputs |
| Chunking (`ingestion/chunking.py`) | none | chunk_text | ingestion | the last window, large overlaps, short sections |
| Configuration, connections, pages, deployment | constant, or none | | | |

## 2. Plan

Done:

1. `TTLCache`, `CachedCompute`, `LossyMap`: the cache and its contract.
2. `Serving`: three caches, agent requests and re-ingestion together.
3. `Ingestion`: workers over one collection and one ingest state.
4. `Automation`, composed with `Ingestion`: the watcher beside other workers.
5. `QuerySlots`: the ceiling on agent runs.
6. `MetricsBlob` and, composed with it, `Benchmark`: job, processes, snapshots.
7. `RateLimiter`: two limiters and the fallback between them.
8. `Guardrails` and, over it, `AgentLoop`: what an answer goes through.
9. `Feedback`, `Traces`, `Scores`, composed in `Quality`: the quality loop.
10. `Lists`, `Chunking`, `Ranking` and, with `Scores` and `Guardrails`, `Algorithms`:
    the pure functions.
11. Proofs for 1 to 10, the refinements of `LossyMap` by `CachedCompute` and of
    `Ingestion` by `Automation` among them. Every safety property that a run
    checks and the code satisfies is a theorem.

Not planned: a specification of `MetricsBlob` as an atomic register, which it
does not implement. `LatestWins` says what it does: a regular register.

## 3. Modules

Every model keeps the control of the code (guards, early returns, error paths,
the order of its effects) and one step is what no other thread or process can
come between. Definitions called *slips* state a plausible bug in the definition
they precede; no specification uses them. They show that a property can fail.

### TTLCache, CachedCompute, LossyMap

`TTLCache` has the operators of the data structure: a cache is a sequence of
entries, least recently used first, with their ages in ticks. Each operator is
one `with self._lock` section. `CachedCompute` runs threads through
get_or_compute: `GetHit`/`GetMiss`, `ComputeOk`/`ComputeFail` (the remote
embedding under `@retry`, unlocked), `SetValue`, `Return`, and `Clear` and `Tick`
at any time. `LossyMap` is what callers may rely on, and `LossySpec` says that
`CachedCompute` implements it: the abstract map is what an unexpired lookup would
find (`Served`). `EvictsLeastRecent` compares with `recency`, the history of uses,
not with the order of the entries: what a step may evict is `GoesRightly`. The statistics
counters and the length of backoff
delays are left out.

### Serving

Request threads run AgenticController.run or run_stream over `answer_cache`,
`retrieval_cache` and the corpus of hybrid search; POST /ingest upserts, drops
the corpus and clears the two caches in two steps; other processes upsert
without clearing. The documents are one version number, the number of documents
ever added, and an answer or a context is the set of versions it was read from.
Which chunks are found and what the model says is abstracted; how many steps it
takes and which of them read documents is not. An answer that is withheld by the
guardrails, or that only says the step limit was reached, is stored like any
other, as in the code. `outdated`, `floor`, `overlapped` and `raced` are history
that no action reads.

### Guardrails, AgentLoop

`Guardrails` has the four guards as operators. A text is a set of words, which is
what the overlap scores of the code are computed from; the patterns a question
matches are given with it; scores are per mille. `CorrectionHolds` does not say
that a corrected answer audits as accurate: the audit counts the words of the
citation too, so the new name may speak for yet another source. `AgentLoop` runs request threads
through run, run_stream, `_iter` and `_finalize` with the model that was champion
when the controller was made: the answer cache (before the question is screened,
as in run), the screening, tool calls, the leak filter, the citation audit with
its correction, the grounding check, the response and its warning. A search goes
to the process's manager, which two first requests may both build, through
`retrieval_cache`, which is shared, to an engine that remembers the sources of the
chunks it has seen. Both caches are maps that may forget, the contract that
`LossyMap` states; when they do, and how stale an entry may be, is `Serving`'s
subject. The calculator's arithmetic and the events of a stream are left out.

### Ingestion

Workers run ingest_all: `ReadFile` (a file deleted since the glob is passed
over), `Check` (should_skip_ingest), `Upsert`, then `Load`, `SaveRows`,
`OpenFile`, `DumpFile`, which are _load/_save_ingest_state step by step. The
rows are written one transaction each; one step of the model writes any subset
of them if an exception may end the loop, all of them otherwise. A text is its
hash. The collection is how often each text was upserted, since ids are fresh
and nothing is deleted. When a run is over its locals are gone (`Over`). `Raise`,
`Crash`, `Restart` and `Recreate` are an exception, a kill, a container that loses
`metrics/` and a collection recreated for another dimension. A document without
text is a document like any other.

### Automation

EXTENDS `Ingestion`: the watcher's ingestion is one of its workers, so every
interleaving with the API's is there. `Detect` compares the documents with the
file, in Postgres mode too; it is one step, though the code reads the documents
one after the other. An evaluation is the set of documents it was over, and is
of those directly under `data_dir` only (`Nested` are the others). `interfered`
is the history of what takes a change out of the watcher's sight.

### QuerySlots

The semaphore and the life of a stream's generator: accepted, begun, suspended
at a yield while its event is sent, ended, or dropped and then collected, which
runs its `finally`; if it never began there is no `finally` to run.

### RateLimiter

One client as several instances see it. The in-process window is a sequence of
ages; Redis' is a counter with the ticks it has left, begun with the wall clock's
minute. The middleware decides in one step, for nothing in it awaits: with Redis,
or after a failure of Redis, which may have counted the request already
(`AskAfterFailure`), in the instance. Other clients matter only through the bound
on remembered addresses (`OtherClient`); instances and Redis restart and forget.
`served` is the history of what was let through, as ages, oldest first, and is
reset when a store loses this client's hits.

### MetricsBlob, Benchmark

`MetricsBlob` has the steps of write_metrics_json and what read_metrics_json may
return. `Benchmark` runs benchmark processes over two snapshots: subprocesses of
the API's job threads and an operator's own. Which model wins is drawn when a
benchmark is asked for, and none may. `before`, `ended` and `superseded` are the
history a regular register is defined by: what was written before a later,
ended write began must not be read. `swallowed` says of each snapshot whether the
exception of its last upsert was swallowed. The files start as `Shipped`: the
repository commits `champion.json` and `model_scores.json`, .gitignore keeps them and
the Dockerfile copies them into the image, so `Replace`, a container that takes
another's place, has them again, as run 0. The two that are committed name different
champions ("good" and "llama-3.1-8b-hf"), and so do those of the run. Hence `disturbed`
starts TRUE and is about the time since a benchmark last began alone: what a benchmark that
runs through leaves is claimed whatever it found. An image with other files is
not modelled. With docker-compose, which mounts `metrics/`, Ephemeral is FALSE.

### Database, Feedback, Traces, Scores, Quality

`Feedback` is record_feedback over Postgres or files (`Database`): the rating, then the regression
case of a down-vote, either of which may raise before, after or, in a file, in the
middle of a line; a case appended to such a piece is unreadable (`garbled`).
`Traces` is record_trace: a row, or after an exception a line, or after another
one nothing; only AgenticController.run and run_auto_reingest are traced, a
stream is not. `Scores` has the gate and the ranking of models, with NaN as
Python compares it. `Quality` EXTENDS the three and adds runs of `pipeline.py`:
reading the regressions, comparing or evaluating, exporting, and the gate with
its baseline, which `open(..., "w")` empties before it is dumped. A runner may be a
watcher, too: `React` is run_auto_reingest after it ingested, which asks no regression
cases, evaluates and exports with the same run_evaluation, and compares its scores
with the baseline without becoming one or ending the process. `last` is the history
of the last verdict with the scores and the baseline it compared (`Announce`). The
baseline is at first the committed one, or none, as where `drift.baseline_path` names a
file that is not there yet; no action removes it. The scores of an evaluation are any of `Outcomes`.

### Lists, Chunking, Ranking, Algorithms

The pure functions. Words are numbered, scores are integers over a common
denominator, embeddings are the matrix of their similarities. `Lists` has the two
loops most lists are built with. `Chunking` knows in closed form where the windows
of _word_chunk begin, and which of them its `break` leaves out. Python's sort is
modelled as it sorts a short list (`Scores`: a run, then binary insertion), since
with NaN the result depends on it. `Algorithms` has one action per function, which
calls it with one of the inputs its callers can give it, and the properties compare
the result with a definition of what it is for. A text may be found several times,
for every ingestion stores it under a fresh id and deletes nothing: the rankings that
are fused and the candidates of both rerankers (`Hits`) are lists in which texts
repeat. BM25's scores and the cross-encoder's are arbitrary.

## 4. Runs

| run | checks | bounds |
|---|---|---|
| cache | Bounded, RightKey, FailsOnlyExhausted, EvictsLeastRecent, LossySpec | 2 threads, 3 keys, 2 values each, 2 entries, TTL 1, 2 attempts |
| serving | QuietIngestInvalidates, StalenessBound, RequestsEnd | dense and multi-query, 1 request thread, 2 questions, 2 steps, 1 ingesting that may raise, another process, a latency of 1 tick, TTLs 1, 1 version added |
| serving_hybrid | HybridFreshness | hybrid, 2 threads, 1 ingesting, 2 versions |
| automation_beside | StateAtRest, ReturnMeansIndexed, RecordedIsIndexed, ReactsUndisturbed | watcher and API, Postgres, 1 document, 2 texts, 2 edits, forced runs, all faults |
| automation_live | EmbedsOnce, EventuallyReflected, WatcherSettles | watcher alone, file mode, 2 documents (1 nested), 2 edits, no faults |
| slots | SlotsAccounted, AdmitsAgain | 4 clients, 2 slots, 2 events |
| rate_limiter | CapHolds, HintSuffices, NotForever | 2 instances, limit 2, a window of 3 seconds of 1 tick, 2 addresses |
| benchmark | JobStatusTrue, LatestWins, ChampionOfScores, JobEnds | 2 job threads, 1 operator, 2 benchmarks, Postgres, all faults |
| answering | BoundToModel, NothingLeaked, VerdictIsOfAnswer, SilenceMeansSupported, SourcesKnownOfOne | 2 threads, 2 models, 1 promotion, 2 steps, 1 cached answer, dense |
| quality | PromisesKept, CorrectionsAsked, NoCreep, EvalExplainsGate, CountedOnce | 2 voters, 2 pipelines or watchers, 1 traced thread, both kinds of store, the committed baseline or none, 3 operations |
| algorithms | ChunksSound, FusionSound, SelectionSound, PicksBestOfNumbers, AuditSound | documents of up to 2 sections of up to 5 words, up to 4 candidates with copies, 3 scores |

One run finds what the repository says and the code does not do:

| run | sentence | what happens |
|---|---|---|
| slots_returned | app.py:398: "Hold a concurrency slot for the whole stream; release when it ends." | a stream that never began keeps its slot |

What the runs show, in a sentence each, is in `PROJECT.json`. Every module with
state that persists has a type invariant, and all are proved, those of
`MetricsBlob`, `Feedback` and `Traces` as parts of the modules that compose them
(section 5).

Some properties hold only under a premise that names where the code falls short
of its text; without it they have a counterexample:

- `QuietIngestInvalidates` (`~ overlapped`): config.yaml:119 says answers are
  "invalidated on re-ingest", but a query in flight stores its stale answer after
  the clear, and the TTLs alone bound it (`StalenessBound`).
- `CorpusStaleOnlyByRace` (`~ raced`): get_corpus_texts keeps a scroll that
  outlasted add_documents, and nothing expires it. What other processes add never
  reaches this corpus at all.
- `LatestWins`: blob_store.py promises "latest-wins blobs", but an upsert that raised
  leaves the older row, which readers prefer until the next upsert (`~ swallowed[n]`);
  and when the query raises in a replaced container the committed file is read,
  however old (`Shipped[n]` is left out).
- `ReactsUndisturbed` (`~ interfered`): reingest.py is to "react to changes", but
  when POST /ingest records the hash of a changed document first, or a run is cut
  short after it recorded some, the watcher never evaluates them.
- `WatcherSettles` (nothing removed): a removed document stays in the ingest
  state and is a change for ever, so every poll ingests and evaluates.
- `ChampionOfScores` (`~ disturbed`, the scores have a champion): the committed files
  disagree to begin with, and kills, overlaps and swallowed upserts leave others that do,
  until a benchmark runs alone and through. After one in which every model failed,
  /models shows no champion while the old one serves.
- `SourcesKnownOfOne` (one manager, dense): engine.py:24-27 takes the source index
  for complete, but get_vectorstore builds a second manager for a second first
  request, and a retrieval cached through one gives the other chunks of source
  "unknown"; so do hits of the keyword search alone.
- `PicksBestOfNumbers` (no NaN): with a NaN among the scores the sort order is
  arbitrary, and the champion may be neither best nor second best.
- `NoCreep` (`last.against # NoFile`): without a baseline a watcher's scores pass on the
  floor alone. `EvalExplainsGate` (`~ disturbed`): runs that overlap, raise or are killed
  leave scores, or a baseline, that the last verdict was not about.
- `PromisesKept`, `CorrectionsAsked` (`~ garbled`): in file mode a case appended
  after a piece of a line is acknowledged and never read.
- `CorrectionsAsked` (no later down-vote without a correction): README.md:226 has
  failures become "permanent regression tests", but such a vote replaces the case.

Further observations that the models contain and no property is about:

- The answer cache is asked before the question is screened, and it stores
  withheld answers and those that only report the step limit.
- An answer with several citations is "accurate" if one of them is (config.yaml:108
  has the audit verify that a source "is real + supported").
- The leak filter withholds any answer that shares enough words with a line of
  the prompt, the prompt's own example of an answer included.
- `guardrails.min_grounding` and `require_citation` of config.yaml are read nowhere;
  the defaults in guardrails.py are the same values.
- app.py:152 speaks of a fixed window; the in-process one slides.
- A run without a baseline becomes it and is not gated, whatever its scores, even
  if every score was dropped for not being finite.
- Traces that fell back to the file are unseen while Postgres answers.
- A text found twice is two candidates. Both rerankers keep both copies (llm_rerank only
  as often as the model lists them, else once), so with MMR off a copy may take the place
  of another passage, and llm_rerank may return fewer passages than asked for when
  too few different ones were found. `SelectionSound` says what remains: candidates
  are ranked each by itself, and llm_rerank drops no text to return less.
- A watcher's evaluation replaces what /eval shows after a pipeline's verdict; the gate
  that passed is then no longer what is shown, but the watcher's own verdict is.
  Without a baseline the watcher passes on the floor alone and saves none.
- detect_changes compares with the file where skipping asks the table, so
  "changed" is not "would be re-embedded" after a container lost its files.
- scheduled-reingest.yml:50 commits fresh scores "so the deployed API (GET /models)"
  serves them "on the next deploy"; with Postgres they are not shown once a row exists.
- champion.json is rewritten in place, so a chat call that reads it meanwhile uses
  the configured model.

**Why the bounds are enough.** Two threads or workers give every overlap of two
actors with the shared state between them, and a third party where one matters
(other processes, the author, the environment). In `serving` the second actor is
the ingesting thread; two request threads meet in `serving_hybrid` and
`answering`. A cache of one entry evicts with two keys, one of two with three. A
TTL of one tick gives fresh, just in time and expired; ages stop one tick past
it. Two versions give an entry that is current, one that is superseded, and one
superseded while the other is read. Two texts let a document change and change
back. Two benchmarks let a write supersede, overlap or outlive another. A window
of three ticks has a first, a last and a middle one, and two stores let the
limiter change between them within it. Three operations of the quality loop let
two runs overlap a vote, or a third run follow two. The outcomes of
an evaluation lie on both sides of each threshold, and two small regressions
add up to more than it. Sections of
five words and sizes up to four have windows that end early, late and exactly at
the end. Bounds that are the model's alone are marked BOUND at their declaration:
MaxVersion, MaxLatency, MaxEdits, MaxCopies, MaxRuns, AnswerMax, MaxPromotions,
MaxOps, Sizes, Points, Weights, Marks. Ingestion by two workers over two documents
with every fault is too many states for a run; the theorems about it have no such
limit.

`CHECK_DEADLOCK FALSE` stands in the configurations of the benchmark and of the
quality loop: nothing happens there when nobody asks for anything any more.
Symmetry is used in runs without liveness only, the cache's action property and
its refinement aside, which are safety.

**Fairness.** A thread that can take a step takes one: CPython and the operating
system schedule threads, and remote calls return or raise (WF of each thread's
steps). Nobody has to ask, edit or ingest, except where a schedule or a loop
does: `Automation` has the watcher poll. `RequestsEnd` and `JobEnds` need no more
than that. `QuerySlots` assumes that clients read what they are sent or
disconnect; the code has no timeout that would enforce it. `RateLimiter` needs
time alone (WF of Tick), while clients may ask as often as they like.

## 5. Proofs

All theorems are for every value of the constants, from the assumptions named in
the modules that declare them.

- `TTLCacheProofs`: what each cache operation keeps and returns (entries, order,
  length), by arguments on sequences; the lemmas the next two rest on.
- `CachedComputeProofs`: types, `Bounded`, `RightKey`, `FailsOnlyExhausted`.
  Inductive invariant `IInv`: types and bounds, every entry under its own key,
  and `ThreadInv`, what a thread knows at each point (a thread about to store
  holds a value computed for its key, one that raised made every attempt).
  Without `ThreadInv` the store step could cache anything.
  *Refinement* (`CacheIsLossyMap`): a get is a lookup of `LossyMap` that changes no
  value, since what it deletes had expired and what it moves keeps value and
  timestamp; a set is a store that may lose others; clear and the clock forget.
  `EvictsLeastRecent` with `RecentInv`: the entries stand in the order in which
  their keys were last used. A step evicts the first entry, so the order has to be
  known before it.
- `ServingProofs`: types with `TInv` (what holds of a request at each point of
  its thread), and `QuietIngestInvalidates` with `QuietInv`: in dense mode, after
  a clear that found no request in flight, the retrieval cache *and every
  request's own contexts* are current. The property speaks of caches only; the
  requests that will fill them make it inductive.
  `StalenessBound` and `HybridFreshness` with `AgeInv`: a bound on staleness for every
  place a document version passes through, in terms of how long it has been there
  (a request's `elapsed`, an entry's `age`). The two TTLs and the two requests of the
  bound add up along that way: search, retrieval_cache, request, answer_cache. In
  hybrid mode the same for one version per search, and for the corpus what a scroll
  in progress will leave behind (`RaceInv`).
- `IngestionProofs`: types; `RecordedIsIndexed` with `IInv`: what is recorded,
  what a worker is about to record, and what it has upserted and not recorded yet
  is in the collection, unless it was recreated. The states workers carry around
  between load and save are why the property alone is not inductive. On top of it
  `ReturnMeansIndexed`: each text a worker has read and passed, whether it
  upserted or skipped it, is in the collection; the skip rests on `IInv`, since
  the hash it found was recorded. `EmbedsOnce` and `StateAtRest` with `QInv`: every
  text that stands on disk and is not recorded has a save to its credit (`Due`),
  the one worker knows its own document is one (`Careful`), and file and table are
  equal outside a save.
  *Refinement* (`WatcherIngests`): a step of `Automation` is a step of `Ingestion` or
  leaves it alone, so these theorems hold of the watcher. `ReactsUndisturbed` with
  `WInv`: what is recorded, in the table and in the state being saved as well as in
  the file the watcher looks at, has been evaluated, or is what stands on disk while
  the evaluation is still to come (`Accounted`).
- `ApiProofs`, *slots*: the type invariant and `SlotsAccounted` are inductive together
  (a release keeps the semaphore below its bound because its holder is counted),
  and `AgentsBounded`, that no more agents run than there are slots, follows.
  *Rate limiter*: types, `HintSuffices`, `CapHolds`, for any number of instances and any
  limit, window and second. `LimiterSound`: lists of ages stand oldest first, so the
  hits a tick drops are a prefix; and a counter that is not zero has a key that lives
  to the end of its minute, which is what the one EXPIRE of the script is for. From it
  `HintSuffices` is division with remainder, rounded down for an instance and to the
  nearest for Redis. `CapHolds` needs to know *where* each request was counted, which no
  variable says: `Accounted` states that there is an assignment of the requests in
  `served` to places, one request to a place (a hit of its own age in an instance, a
  number in this minute's counter, or a number in the last one's). A tick renumbers
  the hits of instances and turns this minute into the last; a decision adds a place
  that was not there. Since an assignment is injective, `served` is no longer than the
  places are many.
  *Benchmark*: types, `JobStatusTrue`, `LatestWins`, `ChampionOfScores`. A run
  draws a number of its own (`Numbered`), is in the histories exactly as far as its
  process is (`Progress`), and what a process dumps was not superseded by a write
  that began before it (`Registers`): so neither file nor row holds a superseded run,
  but for the file of the image and the row of a swallowed upsert. Undisturbed, one
  process writes at a time and, whatever it found, leaves two snapshots of one run
  (`Settled`). The job's state and its thread go together
  (`OneThread`).
- `AlgorithmsProofs`: `ChunksSound`, `FusionSound`, `SelectionSound`,
  `PicksBestOfNumbers`, `AuditSound`. `CallsSpec` remembers nothing between calls, so each
  theorem is about one call, with arguments of any size. Two layers:
  *Induction and recursion.* The library's induction theorems take an operator and
  cannot be used, so the module has its own, about sets and functions: a set of
  numbers that contains 0 and is closed under successor contains them all
  (`AllNumbers`, from minima of finite sets, which exist because strict inclusion of finite sets
  is well-founded); a function can be defined by recursion (`Recursion`), also one on the
  subsets of a finite set (`FoldExists`); hence what FoldLeft and FoldSet have
  after each element (`FoldSteps`), what FlattenSeq puts where (`FlattenPlaces`), what the
  loops of `Lists` build (`KeptIs`, `AppendNewIs`), and where a binary search stops
  (`SearchFinds`).
  *The functions.* Chunks: consecutive windows begin one step apart and the last
  reaches the end (`WindowsSlice`), so a word lies in the last window that begins before it,
  with as many of its successors as the overlap; windows end in the order they
  begin, so none holds another (`WordChunksArePieces`); sections are laid end to end by
  `FlattenPlaces`. Fusion: rescaling one ranking multiplies its distances and its span by the
  same factor, so all fused scores grow alike and order stays. Selection: positions
  are ranked 0, 1, 2, ... without gaps (`RanksCount`), so the CHOOSE of the sort has an
  answer for each and takes no candidate twice; what llm_rerank appends behind the model's
  list was not yet in it (`AppendNewIs`, `RerankFollowsModel`); each choice of MMR is best
  among what is left (`ChoicesStay`), and a
  copy pays the whole penalty (`CopiesLast`). Champion: the first run ends with its best,
  binary insertion into a list whose last is best leaves the best last, even if the list
  is not sorted (`PlaceKeepsBest`). Audit: an accurate citation is grounded
  (`AccurateAnswersAreGrounded`), and a correction is one (`CorrectionsHold`).
- `AgentLoopProofs`: types, `BoundToModel`, `NothingLeaked`, `VerdictIsOfAnswer`,
  `SilenceMeansSupported` with `Served`: every result held by the cache or sent is
  `Checked`, and the cache files it under the id of the model that wrote it. The
  results in the cache are why: a later request sends them unseen. `Finalize` makes a
  `Checked` result of any answer and contexts, by lemmas on the guards (monotone
  shares, what the audit's verdicts mean, a correction changes only the citation).
  `SourcesKnownOfOne` with `Indexed`: the one manager's index has every passage in the
  retrieval cache.
- `QualityProofs`: types, `PromisesKept`, `CorrectionsAsked`, `NoCreep`,
  `EvalExplainsGate`, `CountedOnce`. A promise that stands is in the regression set and
  no vote in progress is about to void it (`Standing`); what a pipeline owes stands
  (`Owed`); what is in the baseline file, or about to be, is what somebody wanted
  or the committed one (`Wanted`); undisturbed, one run at a time, pipeline or watcher,
  evaluates, and the last verdict is about the scores and the baseline that are shown
  (`Explained`); what was counted is what ended and what is between the stores, with
  the torn line at the end of the file as a loss still to come (`Counted`).

**Theorems**, each with the property of a run it states in parentheses:

| Module | Theorems |
|---|---|
| `CachedComputeProofs` | `CachedComputeTypes`, `CacheBounded` (`Bounded`), `ReturnsRightKey` (`RightKey`), `FailureIsExhaustion` (`FailsOnlyExhausted`), `CacheIsLossyMap` (`LossySpec`), `EvictionIsByUse` (`EvictsLeastRecent`) |
| `ServingProofs` | `ServingTypes`, `QuietIngest` (`QuietIngestInvalidates`), `AnswersAgeOut` (`StalenessBound`), `HybridStaysFresh` (`HybridFreshness`) |
| `IngestionProofs` | `IngestionTypes`, `SkippedIsSearchable` (`RecordedIsIndexed`), `ReturnIsSearchable` (`ReturnMeansIndexed`), `UnchangedIsSkipped` (`EmbedsOnce`), `StateSurvives` (`StateAtRest`), `WatcherIngests`, `WatcherTypes`, `WatcherReacts` (`ReactsUndisturbed`) |
| `ApiProofs` | `SlotTypes`, `EverySlotAccounted` (`SlotsAccounted`), `CeilingHolds`, `LimiterTypes`, `CapAlwaysHolds` (`CapHolds`), `HintIsRight` (`HintSuffices`), `BenchmarkTypes`, `StatusIsTrue` (`JobStatusTrue`), `LatestWinsAlways` (`LatestWins`), `ChampionBelongsToScores` (`ChampionOfScores`) |
| `AlgorithmsProofs` | `ChunksAlwaysSound` (`ChunksSound`), `FusionAlwaysSound` (`FusionSound`), `SelectionAlwaysSound` (`SelectionSound`), `ChampionAlwaysBest` (`PicksBestOfNumbers`), `AuditsAgree` (`AuditSound`), `AccurateAnswersAreGrounded`, `CorrectionsHold` |
| `AgentLoopProofs` | `AgentTypes`, `AnswersOfTheirModel` (`BoundToModel`), `NothingLeaks` (`NothingLeaked`), `VerdictsAreTheirs` (`VerdictIsOfAnswer`), `SilenceIsSupport` (`SilenceMeansSupported`), `SourcesAreKnown` (`SourcesKnownOfOne`) |
| `QualityProofs` | `QualityTypes`, `PromisesAreKept` (`PromisesKept`), `CorrectionsAreAsked` (`CorrectionsAsked`), `NothingCreeps` (`NoCreep`), `GateIsExplained` (`EvalExplainsGate`), `TracesCountedOnce` (`CountedOnce`) |

**Assumptions on the constants** beyond kinds and bounds: sets of markers and of
values do not meet (`None` is no thread, `NoFile` no outcome, also not of a
scores filter); the committed baseline is one that save_baseline could have written;
`ModelId` names every model; a passage a search can find has a source,
for chunks are stored with one; words are finitely many, for a text is finite;
and the text that replaces a withheld answer is not itself a leak: with the
configured text and prompt it shares at most 4 of the 7 words of a line, and the
filter withholds from 0.6 on. Instances of the API and chunks to rank are finitely
many; a window is a whole number of seconds; the words of a document are numbered
(`Numbered`), which loses nothing: it only tells occurrences apart. The files of the
image are snapshots of run 0 or absent. Chunk sizes are
positive, as configured (`chunk_size or cfg(...)` replaces 0). TLC evaluates each of
these on the runs' instances.

**Only model-checked**: liveness (RequestsEnd, EventuallyReflected, WatcherSettles,
AdmitsAgain, NotForever, JobEnds), which is out of the prover's reach; and
`SlotReturned`, which is false. Of the algorithms only what the properties say is
proved, not that an implementation in Python computes the operators: sort, set and
dictionary are modelled by what the language says of them.

## 6. Not modelled

Pages and dashboards, request validation, authentication and the readers behind
/health, /sources and /models; configuration (the models' constants), logging,
deployment files; the means and percentiles of /metrics; and what external
libraries compute (Ragas, Qdrant's search, BM25's scores, the language models).
core/pg.py and core/redis_client.py make a pool and a client behind a lock each;
what a statement that raises does is in the models that issue it. Question
generation and the text of reports are left out, and so is the removal of the baseline
while runs go on. A job thread that cannot be
started is left out.

--------------------------- MODULE ServingProofs ---------------------------
(***************************************************************************)
(* Type correctness of the serving path, and what POST /ingest guarantees  *)
(* when it clears the caches of a quiet process, for any number of request *)
(* and ingesting threads, questions, searches, cache sizes and TTLs.       *)
(***************************************************************************)
EXTENDS Serving, TTLCacheProofs

AnswerEntry    == Entry(Questions, SUBSET Version, AnswerTTL)
RetrievalEntry == Entry(Searches, SUBSET Version, RetrievalTTL)

Searching == {"rget", "dense", "corpus", "keep", "rset"}

(* What holds of a request at each point of its thread.                    *)
ReqInv(t) ==
  /\ pc[t] = "idle" => req[t] = Gone
  /\ pc[t] # "idle" => req[t].question \in Questions
  /\ pc[t] \in Searching => req[t].search \in Searches
  /\ pc[t] = "keep" => req[t].scrolled \in Version

(* The type invariant is inductive together with it.                       *)
TInv == TypeOK /\ \A t \in Threads : ReqInv(t)

(* The caches are sequences of entries, one type each.                   *)
LEMMA CacheTypes ==
  ASSUME TypeOK
  PROVE  answers \in Seq(AnswerEntry) /\ retrieval \in Seq(RetrievalEntry)
BY DEF TypeOK, AnswerEntry, RetrievalEntry

(* They still are: answer_cache after get ...                            *)
LEMMA AnswersAfterGet ==
  ASSUME TypeOK, NEW q
  PROVE  AfterGet(answers, q, AnswerTTL) \in Seq(AnswerEntry)
BY CacheTypes, AfterGetEntries

(* ... retrieval_cache after get ...                                     *)
LEMMA RetrievalAfterGet ==
  ASSUME TypeOK, NEW s
  PROVE  AfterGet(retrieval, s, RetrievalTTL) \in Seq(RetrievalEntry)
BY CacheTypes, AfterGetEntries

(* ... answer_cache after set ...                                        *)
LEMMA AnswersAfterSet ==
  ASSUME TypeOK, NEW q \in Questions, NEW vs \in SUBSET Version
  PROVE  AfterSet(answers, q, vs, AnswerMax) \in Seq(AnswerEntry)
<1>1. [key |-> q, val |-> vs, age |-> 0] \in AnswerEntry
  BY ServingConstants DEF AnswerEntry, Entry
<1>2. AnswerMax \in Nat
  BY ServingConstants
<1> QED BY <1>1, <1>2, CacheTypes, AfterSetEntries

(* ... and retrieval_cache after set.                                    *)
LEMMA RetrievalAfterSet ==
  ASSUME TypeOK, NEW s \in Searches, NEW vs \in SUBSET Version
  PROVE  AfterSet(retrieval, s, vs, RetrievalMax) \in Seq(RetrievalEntry)
<1>1. [key |-> s, val |-> vs, age |-> 0] \in RetrievalEntry
  BY ServingConstants DEF RetrievalEntry, Entry
<1>2. RetrievalMax \in Nat
  BY ServingConstants
<1> QED BY <1>1, <1>2, CacheTypes, AfterSetEntries

(* A hit in the retrieval cache is a set of versions.                      *)
LEMMA HitIsVersions ==
  ASSUME TypeOK, NEW s, Hit(retrieval, s, RetrievalTTL)
  PROVE  ValueAt(retrieval, s) \in SUBSET Version
<1>1. PICK i \in DOMAIN retrieval : ValueAt(retrieval, s) = retrieval[i].val
  BY HitEntry
<1>2. retrieval[i] \in RetrievalEntry
  BY CacheTypes, ElementOfSeq, LenProperties
<1> QED BY <1>1, <1>2 DEF RetrievalEntry, Entry

(* A fresh request and no request are requests.                            *)
LEMMA FreshTyped ==
  ASSUME NEW q \in Questions, NEW s \in BOOLEAN
  PROVE  Fresh(q, s) \in Request /\ Gone \in Request /\ Fresh(q, s).question = q
BY ServingConstants DEF Fresh, Gone, Request

(* An idle thread's locals have the type of a request.                   *)
LEMMA GoneTyped == Gone \in Request
BY ServingConstants DEF Fresh, Gone, Request

(* The type invariant holds initially ...                                *)
LEMMA InitTInv == Init => TInv
<1> SUFFICES ASSUME Init PROVE TInv
  OBVIOUS
<1>1. 0 \in Version /\ 0 \in 0 .. Horizon
  BY ServingConstants DEF Version, Horizon
<1>2. TypeOK
  BY <1>1, GoneTyped, EmptySeq DEF Init, TypeOK
<1>3. \A t \in Threads : ReqInv(t)
  BY DEF Init, ReqInv, Searching
<1> QED BY <1>2, <1>3 DEF TInv

(* ... is kept by every step of a request thread ...                     *)
LEMMA ThreadTInv ==
  ASSUME TInv, NEW t \in Threads, ThreadStep(t)
  PROVE  TInv'
<1> USE DEF TInv
<1>r. req[t] \in Request /\ req \in [Threads -> Request] /\ pc \in [Threads -> {"idle", "lookup", "think", "rget", "dense", "corpus", "keep", "rset", "aset"}]
  BY DEF TypeOK
<1>1. CASE LookupAnswer(t)
  <2>1. TypeOK'
    BY <1>1, <1>r, GoneTyped, AnswersAfterGet
    DEF LookupAnswer, TypeOK, Goto, store, history, AnswerEntry
  <2>2. \A u \in Threads : ReqInv(u)'
    BY <1>1, <1>r DEF LookupAnswer, Goto, ReqInv, Searching, TypeOK
  <2> QED BY <2>1, <2>2
<1>2. CASE LookupRetrieval(t)
  <2> DEFINE s == req[t].search
             hit == Hit(retrieval, s, RetrievalTTL)
             more == [req[t] EXCEPT !.contexts = @ \cup ValueAt(retrieval, s)]
  <2>1. hit => more \in Request /\ more.question = req[t].question
    BY <1>r, HitIsVersions DEF Request
  <2>2. req' = IF hit THEN [req EXCEPT ![t] = more] ELSE req
    BY <1>2, <1>r DEF LookupRetrieval
  <2>3. /\ pc' = [pc EXCEPT ![t] = IF hit THEN "think" ELSE "dense"]
        /\ pc[t] = "rget"
        /\ retrieval' \in Seq(RetrievalEntry)
        /\ UNCHANGED <<store, answers, ipc, history>>
    BY <1>2, RetrievalAfterGet DEF LookupRetrieval, Goto
  <2> HIDE DEF s, hit, more
  <2>4. TypeOK'
    BY <1>r, <2>1, <2>2, <2>3 DEF TypeOK, store, history, RetrievalEntry
  <2>5. \A u \in Threads : ReqInv(u)'
    BY <1>r, <2>1, <2>2, <2>3 DEF ReqInv, Searching
  <2> QED BY <2>4, <2>5
<1>3. CASE CallOther(t)
  <2> DEFINE more == [req[t] EXCEPT !.steps = @ + 1]
  <2>1. more \in Request /\ more.question = req[t].question
    BY <1>3, <1>r, ServingConstants DEF Request, CallOther
  <2>2. req' = [req EXCEPT ![t] = more] /\ pc[t] = "think" /\ pc' = pc
    BY <1>3, <1>r DEF CallOther
  <2> HIDE DEF more
  <2>3. TypeOK'
    BY <1>3, <1>r, <2>1, <2>2 DEF CallOther, TypeOK, store, caches, history
  <2>4. \A u \in Threads : ReqInv(u)'
    BY <1>r, <2>1, <2>2 DEF ReqInv, Searching
  <2> QED BY <2>3, <2>4
<1>4. ASSUME NEW s \in Searches, CallSearch(t, s)
      PROVE  TInv'
  <2> DEFINE more == [req[t] EXCEPT !.search = s, !.steps = @ + 1]
  <2>1. more \in Request /\ more.question = req[t].question /\ more.search = s
    BY <1>4, <1>r, ServingConstants DEF Request, CallSearch
  <2>2. /\ req' = [req EXCEPT ![t] = more]
        /\ pc[t] = "think" /\ pc' = [pc EXCEPT ![t] = "rget"]
    BY <1>4, <1>r DEF CallSearch, Goto
  <2> HIDE DEF more
  <2>3. req' \in [Threads -> Request]
    BY <1>r, <2>1, <2>2
  <2>4. TypeOK'
    BY <1>4, <1>r, <2>2, <2>3 DEF CallSearch, TypeOK, store, caches, history
  <2>5. \A u \in Threads : ReqInv(u)'
    BY <1>r, <2>1, <2>2 DEF ReqInv, Searching
  <2> QED BY <2>4, <2>5
<1>5. CASE DenseSearch(t)
  <2> DEFINE more == [req[t] EXCEPT !.found = @ \cup {version}]
  <2>1. more \in Request /\ more.question = req[t].question /\ more.search = req[t].search
    BY <1>r DEF Request, TypeOK
  <2>2. /\ req' = [req EXCEPT ![t] = more]
        /\ pc[t] = "dense"
        /\ \E to \in {"corpus", "rset", "dense"} : pc' = [pc EXCEPT ![t] = to]
    BY <1>5, <1>r DEF DenseSearch, Goto, Candidates
  <2> HIDE DEF more
  <2>3. TypeOK'
    BY <1>5, <1>r, <2>1, <2>2 DEF DenseSearch, TypeOK, store, caches, history
  <2>4. \A u \in Threads : ReqInv(u)'
    BY <1>r, <2>1, <2>2 DEF ReqInv, Searching
  <2> QED BY <2>3, <2>4
<1>6. CASE CachedCorpus(t)
  <2> DEFINE more == [req[t] EXCEPT !.found = @ \cup {corpus}]
  <2>1. more \in Request /\ more.question = req[t].question /\ more.search = req[t].search
    BY <1>6, <1>r DEF Request, TypeOK, CachedCorpus
  <2>2. /\ req' = [req EXCEPT ![t] = more]
        /\ pc[t] = "corpus"
        /\ \E to \in {"rset", "dense"} : pc' = [pc EXCEPT ![t] = to]
    BY <1>6, <1>r DEF CachedCorpus, Goto, Candidates
  <2> HIDE DEF more
  <2>3. TypeOK'
    BY <1>6, <1>r, <2>1, <2>2 DEF CachedCorpus, TypeOK, store, caches, history
  <2>4. \A u \in Threads : ReqInv(u)'
    BY <1>r, <2>1, <2>2 DEF ReqInv, Searching
  <2> QED BY <2>3, <2>4
<1>7. CASE ScrollCorpus(t)
  <2> DEFINE more == [req[t] EXCEPT !.scrolled = version]
  <2>1. /\ more \in Request /\ more.question = req[t].question
        /\ more.search = req[t].search /\ more.scrolled \in Version
    BY <1>r DEF Request, TypeOK
  <2>2. /\ req' = [req EXCEPT ![t] = more]
        /\ pc[t] = "corpus" /\ pc' = [pc EXCEPT ![t] = "keep"]
    BY <1>7, <1>r DEF ScrollCorpus, Goto
  <2> HIDE DEF more
  <2>3. TypeOK'
    BY <1>7, <1>r, <2>1, <2>2 DEF ScrollCorpus, TypeOK, store, caches, history
  <2>4. \A u \in Threads : ReqInv(u)'
    BY <1>r, <2>1, <2>2 DEF ReqInv, Searching
  <2> QED BY <2>3, <2>4
<1>8. CASE KeepCorpus(t)
  <2> DEFINE more == [req[t] EXCEPT !.found = @ \cup {req[t].scrolled}, !.scrolled = None]
  <2>1. pc[t] = "keep" /\ req[t].scrolled \in Version
    BY <1>8 DEF KeepCorpus, Goto, ReqInv
  <2>2. /\ more \in Request /\ more.question = req[t].question
        /\ more.search = req[t].search
    BY <1>r, <2>1 DEF Request
  <2>3. /\ req' = [req EXCEPT ![t] = more]
        /\ \E to \in {"rset", "dense"} : pc' = [pc EXCEPT ![t] = to]
    BY <1>8, <1>r DEF KeepCorpus, Goto, Candidates
  <2> HIDE DEF more
  <2>4. TypeOK'
    <3>1. corpus' \in Version /\ req' \in [Threads -> Request]
      BY <1>8, <1>r, <2>1, <2>2, <2>3 DEF KeepCorpus
    <3>2. pc' \in [Threads -> {"idle", "lookup", "think", "rget", "dense", "corpus",
                               "keep", "rset", "aset"}]
      BY <1>r, <2>3
    <3> QED BY <1>8, <3>1, <3>2 DEF KeepCorpus, TypeOK, caches, history
  <2>5. \A u \in Threads : ReqInv(u)'
    BY <1>r, <2>1, <2>2, <2>3 DEF ReqInv, Searching
  <2> QED BY <2>4, <2>5
<1>9. CASE StoreRetrieval(t)
  <2> DEFINE more == [req[t] EXCEPT !.contexts = @ \cup req[t].found,
                                    !.found = {}, !.search = None]
  <2>1. pc[t] = "rset" /\ req[t].search \in Searches /\ req[t].found \in SUBSET Version
    BY <1>9, <1>r DEF StoreRetrieval, Goto, ReqInv, Searching, Request
  <2>2. more \in Request /\ more.question = req[t].question
    BY <1>r DEF Request
  <2>3. /\ req' = [req EXCEPT ![t] = more]
        /\ pc' = [pc EXCEPT ![t] = "think"]
    BY <1>9, <1>r DEF StoreRetrieval, Goto
  <2>4. retrieval' \in Seq(RetrievalEntry)
    BY <1>9, <2>1, RetrievalAfterSet DEF StoreRetrieval
  <2> HIDE DEF more
  <2>5. TypeOK'
    <3>1. req' \in [Threads -> Request]
      BY <1>r, <2>2, <2>3
    <3>2. pc' \in [Threads -> {"idle", "lookup", "think", "rget", "dense", "corpus",
                               "keep", "rset", "aset"}]
      BY <1>r, <2>3
    <3> QED
      BY <1>9, <2>4, <3>1, <3>2 DEF StoreRetrieval, TypeOK, store, history, RetrievalEntry
  <2>6. \A u \in Threads : ReqInv(u)'
    BY <1>r, <2>1, <2>2, <2>3 DEF ReqInv, Searching
  <2> QED BY <2>5, <2>6
<1>10. CASE Conclude(t)
  <2>1. TypeOK'
    BY <1>10, <1>r, GoneTyped DEF Conclude, TypeOK, Goto, store, caches, history
  <2>2. \A u \in Threads : ReqInv(u)'
    BY <1>10, <1>r DEF Conclude, Goto, ReqInv, Searching, Request
  <2> QED BY <2>1, <2>2
<1>11. CASE StoreAnswer(t)
  <2>1. /\ pc[t] = "aset" /\ req[t].question \in Questions
        /\ req[t].contexts \in SUBSET Version
    BY <1>11, <1>r DEF StoreAnswer, Goto, ReqInv, Request
  <2>2. answers' \in Seq(AnswerEntry)
    BY <1>11, <2>1, AnswersAfterSet DEF StoreAnswer
  <2>3. TypeOK'
    BY <1>11, <1>r, <2>2, GoneTyped
    DEF StoreAnswer, TypeOK, Goto, store, history, AnswerEntry
  <2>4. \A u \in Threads : ReqInv(u)'
    BY <1>11, <1>r DEF StoreAnswer, Goto, ReqInv, Searching
  <2> QED BY <2>3, <2>4
<1>12. CASE Abandon(t)
  <2>1. TypeOK'
    BY <1>12, <1>r, GoneTyped DEF Abandon, TypeOK, Goto, store, caches, history
  <2>2. \A u \in Threads : ReqInv(u)'
    BY <1>12, <1>r DEF Abandon, Goto, ReqInv, Searching
  <2> QED BY <2>1, <2>2
<1> QED
  BY <1>1, <1>2, <1>3, <1>4, <1>5, <1>6, <1>7, <1>8, <1>9, <1>10, <1>11, <1>12
  DEF ThreadStep

(* ... by every step of POST /ingest ...                                 *)
LEMMA IngestTInv ==
  ASSUME TInv, NEW i \in Ingesters, Ingest(i) \/ IngestStep(i)
  PROVE  TInv'
<1> USE DEF TInv
<1>1. \A u \in Threads : ReqInv(u)'
  BY DEF Ingest, IngestStep, Upsert, DropCorpus, IngestFails, ClearRetrieval,
         ClearAnswers, ReqInv, Searching
<1>2. CASE Ingest(i) \/ IngestFails(i)
  BY <1>1, <1>2 DEF Ingest, IngestFails, IGoto, TypeOK, store, caches, history
<1>3. CASE Upsert(i)
  <2>1. version' \in Version
    BY <1>3, ServingConstants DEF Upsert, TypeOK, Version
  <2> QED BY <1>1, <1>3, <2>1 DEF Upsert, IGoto, TypeOK, caches, history
<1>4. CASE DropCorpus(i)
  BY <1>1, <1>4 DEF DropCorpus, IGoto, TypeOK, caches
<1>5. CASE ClearRetrieval(i)
  BY <1>1, <1>5, EmptySeq DEF ClearRetrieval, IGoto, TypeOK, store
<1>6. CASE ClearAnswers(i)
  BY <1>1, <1>6, EmptySeq DEF ClearAnswers, IGoto, TypeOK, store, history
<1> QED BY <1>2, <1>3, <1>4, <1>5, <1>6 DEF IngestStep

(* ... by the clock ...                                                  *)
LEMMA TickTInv ==
  ASSUME TInv, Tick
  PROVE  TInv'
<1> USE DEF TInv
<1>1. answers' \in Seq(AnswerEntry) /\ retrieval' \in Seq(RetrievalEntry)
  <2>1. AnswerTTL \in Nat /\ RetrievalTTL \in Nat
    BY ServingConstants
  <2> QED BY <2>1, CacheTypes, AgedEntries DEF Tick, AnswerEntry, RetrievalEntry
<1>2. ASSUME NEW t \in InFlight
      PROVE  /\ [req[t] EXCEPT !.elapsed = @ + 1] \in Request
             /\ [req[t] EXCEPT !.elapsed = @ + 1].question = req[t].question
             /\ [req[t] EXCEPT !.elapsed = @ + 1].search = req[t].search
             /\ [req[t] EXCEPT !.elapsed = @ + 1].scrolled = req[t].scrolled
  <2>1. req[t] \in Request
    BY DEF TypeOK, InFlight
  <2>2. req[t].elapsed + 1 \in 0 .. MaxLatency
    <3>1. req[t].elapsed \in 0 .. MaxLatency /\ req[t].elapsed < MaxLatency
      BY <2>1 DEF Request, Tick
    <3> QED BY <3>1, ServingConstants
  <2> QED BY <2>1, <2>2 DEF Request
<1>3. req' \in [Threads -> Request]
  BY <1>2 DEF Tick, TypeOK
<1>4. outdated' \in [Version -> 0 .. Horizon]
  <2>1. Horizon \in Nat
    BY ServingConstants DEF Horizon
  <2> QED BY <2>1 DEF Tick, TypeOK
<1>5. TypeOK'
  BY <1>1, <1>3, <1>4 DEF Tick, TypeOK, store, AnswerEntry, RetrievalEntry
<1>6. ASSUME NEW t \in Threads
      PROVE  ReqInv(t)'
  BY <1>2 DEF Tick, ReqInv, InFlight
<1> QED BY <1>5, <1>6

(* ... and so by every step of the system.                               *)
LEMMA NextTInv == TInv /\ [Next]_vars => TInv'
<1> SUFFICES ASSUME TInv, [Next]_vars PROVE TInv'
  OBVIOUS
<1>1. ASSUME NEW t \in Threads, NEW q \in Questions, NEW s \in BOOLEAN, Ask(t, q, s)
      PROVE  TInv'
  <2>1. TypeOK'
    BY <1>1, FreshTyped DEF Ask, TInv, TypeOK, Goto, store, caches, history
  <2>2. \A u \in Threads : ReqInv(u)'
    BY <1>1, FreshTyped DEF Ask, TInv, TypeOK, Goto, ReqInv, Searching
  <2> QED BY <2>1, <2>2 DEF TInv
<1>2. CASE OtherUpsert
  <2>1. version' \in Version
    BY <1>2, ServingConstants DEF OtherUpsert, TInv, TypeOK, Version
  <2> QED
    BY <1>2, <2>1 DEF OtherUpsert, TInv, TypeOK, ReqInv, caches, history
<1>3. CASE UNCHANGED vars
  BY <1>3 DEF TInv, TypeOK, ReqInv, vars, store, caches, history
<1> QED
  BY <1>1, <1>2, <1>3, ThreadTInv, IngestTInv, TickTInv DEF Next

(* The type invariant is an invariant.                                   *)
LEMMA AlwaysTInv == Spec => []TInv
BY InitTInv, NextTInv, PTL DEF Spec

(* Every variable of the serving path keeps its type; in particular no     *)
(* agent run exceeds max_steps.                                            *)
THEOREM ServingTypes == Spec => []TypeOK
<1>1. TInv => TypeOK
  BY DEF TInv
<1> QED BY <1>1, AlwaysTInv, PTL
-----------------------------------------------------------------------------
(* What entries come from, for each operation on a cache.                  *)
LEMMA SourcesAfterGet ==
  ASSUME NEW S, NEW c \in Seq(S), NEW k, NEW ttl
  PROVE  Sources(AfterGet(c, k, ttl)) \subseteq Sources(c)
BY AfterGetEntries DEF Sources

(* After set a cache has the sources it had, and those of the new value. *)
LEMMA SourcesAfterSet ==
  ASSUME NEW S, NEW c \in Seq(S), NEW k, NEW v, NEW maxsize \in Nat,
         [key |-> k, val |-> v, age |-> 0] \in S
  PROVE  Sources(AfterSet(c, k, v, maxsize)) \subseteq Sources(c) \cup v
<1> DEFINE e == [key |-> k, val |-> v, age |-> 0]
           a == AfterSet(c, k, v, maxsize)
<1>1. \A i \in DOMAIN a : a[i] = e \/ \E j \in DOMAIN c : a[i] = c[j]
  BY AfterSetEntries
<1>2. e.val = v
  OBVIOUS
<1> HIDE DEF e, a
<1>3. Sources(a) \subseteq Sources(c) \cup v
  BY <1>1, <1>2 DEF Sources
<1> QED BY <1>3 DEF a

(* The clock adds no source.                                             *)
LEMMA SourcesAged ==
  ASSUME NEW K, NEW V, NEW ttl \in Nat, NEW c \in Seq(Entry(K, V, ttl))
  PROVE  Sources(Aged(c, ttl)) \subseteq Sources(c)
BY AgedEntries DEF Sources

(* A hit is read from the sources of its cache.                          *)
LEMMA HitSources ==
  ASSUME NEW c, NEW k, NEW ttl, Hit(c, k, ttl)
  PROVE  ValueAt(c, k) \subseteq Sources(c)
BY HitEntry DEF Sources

(* The inductive invariant of the dense mode: after a clear that found no  *)
(* request in flight, the retrieval cache and every request are current,   *)
(* and so is the answer cache unless its clear is still to come.           *)
QuietInv ==
  ~ UseHybrid =>
    /\ floor <= version
    /\ \A t \in Threads : pc[t] \notin {"corpus", "keep"}
    /\ ~ overlapped =>
         /\ Current(Sources(retrieval))
         /\ \A t \in Threads : Current(req[t].contexts) /\ Current(req[t].found)
         /\ (\A i \in Ingesters : ipc[i] # "clearing") => Current(Sources(answers))

(* Being current passes to smaller sets and to unions.                     *)
LEMMA CurrentSubset ==
  ASSUME NEW A, NEW B, B \subseteq A, Current(A)
  PROVE  Current(B)
BY DEF Current

(* Currency is kept by unions.                                           *)
LEMMA CurrentUnion ==
  ASSUME NEW A, NEW B, Current(A), Current(B)
  PROVE  Current(A \cup B)
BY DEF Current

(* The invariant holds initially ...                                     *)
LEMMA InitQuietInv == Init => QuietInv
<1> SUFFICES ASSUME Init PROVE QuietInv
  OBVIOUS
<1>1. Sources(retrieval) = {} /\ Sources(answers) = {}
  BY DEF Init, Sources
<1>2. \A t \in Threads : req[t].contexts = {} /\ req[t].found = {}
  BY DEF Init, Gone, Fresh
<1> QED BY <1>1, <1>2 DEF Init, QuietInv, Current

(* ... is kept by every step of a request thread ...                     *)
LEMMA ThreadQuietInv ==
  ASSUME TInv, QuietInv, ~ UseHybrid, NEW t \in Threads, ThreadStep(t)
  PROVE  QuietInv'
<1> DEFINE Reqs == \A u \in Threads : Current(req[u].contexts) /\ Current(req[u].found)
           Clearing == \E i \in Ingesters : ipc[i] = "clearing"
<1>r. req \in [Threads -> Request] /\ req[t] \in Request /\ TypeOK
  BY DEF TInv, TypeOK
<1>g. Gone.contexts = {} /\ Gone.found = {} /\ Current({})
  BY DEF Gone, Fresh, Current
<1>c. UNCHANGED <<version, floor, overlapped, ipc>>
  BY DEF ThreadStep, LookupAnswer, LookupRetrieval, CallOther, CallSearch, DenseSearch,
         CachedCorpus, ScrollCorpus, KeepCorpus, StoreRetrieval, Conclude, StoreAnswer,
         Abandon, store, history
<1>f. floor <= version
  BY DEF QuietInv
<1>p. \A u \in Threads : pc'[u] \notin {"corpus", "keep"}
  BY <1>r DEF QuietInv, ThreadStep, LookupAnswer, LookupRetrieval, CallOther, CallSearch,
         DenseSearch, CachedCorpus, ScrollCorpus, KeepCorpus, StoreRetrieval, Conclude,
         StoreAnswer, Abandon, Goto, Candidates, TypeOK
<1> SUFFICES ASSUME ~ overlapped
             PROVE  /\ Current(Sources(retrieval'))
                    /\ \A u \in Threads : Current(req'[u].contexts) /\ Current(req'[u].found)
                    /\ Clearing \/ Current(Sources(answers'))
  BY <1>c, <1>f, <1>p DEF QuietInv, Current, Sources
<1>i. Current(Sources(retrieval)) /\ Reqs /\ (Clearing \/ Current(Sources(answers)))
  BY DEF QuietInv
<1>1. CASE LookupAnswer(t)
  <2>1. Sources(answers') \subseteq Sources(answers)
    BY <1>1, <1>r, CacheTypes, SourcesAfterGet DEF LookupAnswer
  <2>2. \A u \in Threads : req'[u] = req[u] \/ req'[u] = Gone
    BY <1>1, <1>r DEF LookupAnswer
  <2>3. retrieval' = retrieval
    BY <1>1 DEF LookupAnswer
  <2> QED BY <1>i, <1>g, <2>1, <2>2, <2>3, CurrentSubset
<1>2. CASE LookupRetrieval(t)
  <2> DEFINE s == req[t].search
  <2>1. Sources(retrieval') \subseteq Sources(retrieval)
    BY <1>2, <1>r, CacheTypes, SourcesAfterGet DEF LookupRetrieval
  <2>2. CASE ~ Hit(retrieval, s, RetrievalTTL)
    <3>1. req' = req /\ answers' = answers
      BY <1>2, <2>2 DEF LookupRetrieval
    <3> QED BY <1>i, <2>1, <3>1, CurrentSubset
  <2>3. CASE Hit(retrieval, s, RetrievalTTL)
    <3>1. Current(ValueAt(retrieval, s))
      BY <1>i, <2>3, HitSources, CurrentSubset
    <3>2. Current(req[t].contexts \cup ValueAt(retrieval, s))
      BY <1>i, <3>1, CurrentUnion
    <3>3. /\ req' = [req EXCEPT ![t].contexts = @ \cup ValueAt(retrieval, s)]
          /\ answers' = answers
      BY <1>2, <2>3 DEF LookupRetrieval
    <3>4. \A u \in Threads : /\ req'[u].found = req[u].found
                             /\ u # t => req'[u].contexts = req[u].contexts
                             /\ u = t => req'[u].contexts
                                           = req[t].contexts \cup ValueAt(retrieval, s)
      BY <1>r, <3>3 DEF Request
    <3> QED BY <1>i, <2>1, <3>2, <3>3, <3>4, CurrentSubset
  <2> QED BY <2>2, <2>3
<1>3. ASSUME CallOther(t) \/ (\E s \in Searches : CallSearch(t, s)) \/ Conclude(t) \/ Abandon(t)
      PROVE  /\ Current(Sources(retrieval'))
             /\ \A u \in Threads : Current(req'[u].contexts) /\ Current(req'[u].found)
             /\ Clearing \/ Current(Sources(answers'))
  <2>1. UNCHANGED caches
    BY <1>3 DEF CallOther, CallSearch, Conclude, Abandon
  <2>2. \A u \in Threads : \/ req'[u] = Gone
                           \/ req'[u].contexts = req[u].contexts /\ req'[u].found = req[u].found
    <3>1. CASE CallOther(t)
      BY <3>1, <1>r DEF CallOther, Request
    <3>2. ASSUME NEW s \in Searches, CallSearch(t, s)
          PROVE  \A u \in Threads : /\ req'[u].contexts = req[u].contexts
                                    /\ req'[u].found = req[u].found
      <4> DEFINE more == [req[t] EXCEPT !.search = s, !.steps = @ + 1]
      <4>1. more.contexts = req[t].contexts /\ more.found = req[t].found
        BY <1>r DEF Request
      <4>2. req' = [req EXCEPT ![t] = more]
        BY <3>2, <1>r DEF CallSearch
      <4> HIDE DEF more
      <4> QED BY <1>r, <4>1, <4>2
    <3>3. CASE Conclude(t) \/ Abandon(t)
      BY <3>3, <1>r DEF Conclude, Abandon
    <3> QED BY <1>3, <3>1, <3>2, <3>3
  <2> QED BY <1>i, <1>g, <2>1, <2>2 DEF caches
<1>4. CASE DenseSearch(t)
  <2>1. UNCHANGED caches
    BY <1>4 DEF DenseSearch
  <2>2. Current({version})
    BY <1>f DEF Current
  <2>3. Current(req[t].found \cup {version})
    BY <1>i, <2>2, CurrentUnion
  <2>4. \A u \in Threads : /\ req'[u].contexts = req[u].contexts
                           /\ u # t => req'[u].found = req[u].found
                           /\ u = t => req'[u].found = req[t].found \cup {version}
    BY <1>4, <1>r DEF DenseSearch, Request
  <2>5. \A u \in Threads : Current(req'[u].contexts) /\ Current(req'[u].found)
    <3> TAKE u \in Threads
    <3>1. CASE u = t
      BY <3>1, <1>i, <2>3, <2>4 DEF Current
    <3>2. CASE u # t
      BY <3>2, <1>i, <2>4 DEF Current
    <3> QED BY <3>1, <3>2
  <2> QED BY <1>i, <2>1, <2>5 DEF caches
<1>5. ASSUME CachedCorpus(t) \/ ScrollCorpus(t) \/ KeepCorpus(t)
      PROVE  FALSE
  BY <1>5 DEF CachedCorpus, ScrollCorpus, KeepCorpus, Goto, QuietInv
<1>6. CASE StoreRetrieval(t)
  <2>1. pc[t] = "rset" /\ req[t].search \in Searches /\ req[t].found \in SUBSET Version
    BY <1>6, <1>r DEF StoreRetrieval, Goto, TInv, ReqInv, Searching, Request
  <2>2. [key |-> req[t].search, val |-> req[t].found, age |-> 0] \in RetrievalEntry
    BY <2>1, ServingConstants DEF RetrievalEntry, Entry
  <2>3. RetrievalMax \in Nat
    BY ServingConstants
  <2>4. Sources(retrieval') \subseteq Sources(retrieval) \cup req[t].found
    BY <1>6, <1>r, <2>2, <2>3, CacheTypes, SourcesAfterSet DEF StoreRetrieval
  <2>5. Current(Sources(retrieval) \cup req[t].found) /\ Current(req[t].contexts \cup req[t].found)
    BY <1>i, CurrentUnion
  <2>6. \A u \in Threads : /\ u # t => req'[u] = req[u]
                           /\ u = t => /\ req'[u].contexts = req[t].contexts \cup req[t].found
                                       /\ req'[u].found = {}
    BY <1>6, <1>r DEF StoreRetrieval, Request
  <2>7. answers' = answers
    BY <1>6 DEF StoreRetrieval
  <2>8. \A u \in Threads : Current(req'[u].contexts) /\ Current(req'[u].found)
    <3> TAKE u \in Threads
    <3>1. CASE u = t
      BY <3>1, <1>g, <2>5, <2>6 DEF Current
    <3>2. CASE u # t
      BY <3>2, <1>i, <2>6 DEF Current
    <3> QED BY <3>1, <3>2
  <2>9. Current(Sources(retrieval'))
    BY <2>4, <2>5, CurrentSubset
  <2> QED BY <1>i, <2>7, <2>8, <2>9
<1>7. CASE StoreAnswer(t)
  <2>1. req[t].question \in Questions /\ req[t].contexts \in SUBSET Version
    BY <1>7, <1>r DEF StoreAnswer, Goto, TInv, ReqInv, Request
  <2>2. [key |-> req[t].question, val |-> req[t].contexts, age |-> 0] \in AnswerEntry
    BY <2>1, ServingConstants DEF AnswerEntry, Entry
  <2>3. AnswerMax \in Nat
    BY ServingConstants
  <2>4. Sources(answers') \subseteq Sources(answers) \cup req[t].contexts
    BY <1>7, <1>r, <2>2, <2>3, CacheTypes, SourcesAfterSet DEF StoreAnswer
  <2>5. Clearing \/ Current(Sources(answers) \cup req[t].contexts)
    BY <1>i, CurrentUnion
  <2>6. \A u \in Threads : req'[u] = req[u] \/ req'[u] = Gone
    BY <1>7, <1>r DEF StoreAnswer
  <2>7. retrieval' = retrieval
    BY <1>7 DEF StoreAnswer
  <2> QED BY <1>i, <1>g, <2>4, <2>5, <2>6, <2>7, CurrentSubset
<1> QED BY <1>1, <1>2, <1>3, <1>4, <1>5, <1>6, <1>7 DEF ThreadStep

(* ... by every step of POST /ingest ...                                 *)
LEMMA IngestQuietInv ==
  ASSUME TInv, QuietInv, ~ UseHybrid, NEW i \in Ingesters, Ingest(i) \/ IngestStep(i)
  PROVE  QuietInv'
<1>t. /\ ipc \in [Ingesters -> {"idle", "adding", "upserted", "clearing"}]
      /\ version \in Nat /\ floor \in Nat
  BY DEF TInv, TypeOK, Version
<1>p. UNCHANGED <<pc, req>>
  BY DEF Ingest, IngestStep, Upsert, DropCorpus, IngestFails, ClearRetrieval, ClearAnswers
<1>1. CASE Ingest(i) \/ Upsert(i) \/ DropCorpus(i) \/ IngestFails(i)
  <2>1. UNCHANGED <<answers, retrieval, floor, overlapped>> /\ version <= version' /\ version' \in Nat
    <3>1. CASE Ingest(i) \/ IngestFails(i)
      BY <3>1, <1>t DEF Ingest, IngestFails, caches, history, store
    <3>2. CASE Upsert(i)
      BY <3>2, <1>t DEF Upsert, caches, history
    <3>3. CASE DropCorpus(i)
      BY <3>3, <1>t DEF DropCorpus, caches
    <3> QED BY <1>1, <3>1, <3>2, <3>3
  <2>2. (\A j \in Ingesters : ipc'[j] # "clearing") => (\A j \in Ingesters : ipc[j] # "clearing")
    BY <1>1, <1>t DEF Ingest, Upsert, DropCorpus, IngestFails, IGoto
  <2>3. floor' <= version'
    BY <1>t, <2>1 DEF QuietInv
  <2> QED BY <1>p, <2>1, <2>2, <2>3 DEF QuietInv, Current, Sources
<1>2. CASE ClearRetrieval(i)
  <2>1. /\ retrieval' = <<>> /\ floor' = version /\ version' = version
        /\ overlapped' = (InFlight # {})
    BY <1>2 DEF ClearRetrieval, store
  <2>2. Sources(retrieval') = {}
    BY <2>1 DEF Sources
  <2>3. ~ overlapped' => \A t \in Threads : req[t].contexts = {} /\ req[t].found = {}
    <3> SUFFICES ASSUME ~ overlapped', NEW t \in Threads
                 PROVE  req[t].contexts = {} /\ req[t].found = {}
      OBVIOUS
    <3>1. pc[t] = "idle"
      BY <2>1 DEF InFlight
    <3>2. req[t] = Gone
      BY <3>1 DEF TInv, ReqInv
    <3> QED BY <3>2 DEF Gone, Fresh
  <2>4. ipc'[i] = "clearing"
    BY <1>2, <1>t DEF ClearRetrieval, IGoto
  <2>5. floor' <= version'
    BY <1>t, <2>1
  <2>6. \A t \in Threads : pc'[t] \notin {"corpus", "keep"}
    BY <1>p DEF QuietInv
  <2>7. Current({})'
    BY DEF Current
  <2> QED BY <1>p, <2>2, <2>3, <2>4, <2>5, <2>6, <2>7 DEF QuietInv, Current, Sources
<1>3. CASE ClearAnswers(i)
  <2>1. answers' = <<>> /\ UNCHANGED <<version, floor, overlapped, retrieval>>
    BY <1>3 DEF ClearAnswers, store, history
  <2>2. Sources(answers') = {}
    BY <2>1 DEF Sources
  <2> QED BY <1>p, <2>1, <2>2 DEF QuietInv, Current, Sources
<1> QED BY <1>1, <1>2, <1>3 DEF IngestStep

(* ... and so by every step of the system.                               *)
LEMMA NextQuietInv == TInv /\ QuietInv /\ [Next]_vars => QuietInv'
<1> SUFFICES ASSUME TInv, QuietInv, [Next]_vars, ~ UseHybrid PROVE QuietInv'
  BY DEF QuietInv
<1>t. version \in Nat /\ floor \in Nat /\ TypeOK
  BY DEF TInv, TypeOK, Version
<1>1. ASSUME NEW t \in Threads, NEW q \in Questions, NEW s \in BOOLEAN, Ask(t, q, s)
      PROVE  QuietInv'
  <2>1. UNCHANGED <<version, answers, retrieval, ipc, floor, overlapped>>
    BY <1>1 DEF Ask, store, caches, history
  <2>2. \A u \in Threads : \/ req'[u] = req[u]
                           \/ req'[u].contexts = {} /\ req'[u].found = {}
    <3>1. Fresh(q, s).contexts = {} /\ Fresh(q, s).found = {}
      BY DEF Fresh
    <3>2. req' = [req EXCEPT ![t] = Fresh(q, s)] /\ req \in [Threads -> Request]
      BY <1>1, <1>t DEF Ask, TypeOK
    <3> QED BY <3>1, <3>2
  <2>3. \A u \in Threads : pc'[u] \notin {"corpus", "keep"}
    BY <1>1, <1>t DEF Ask, Goto, QuietInv, TypeOK
  <2> QED BY <2>1, <2>2, <2>3 DEF QuietInv, Current, Sources
<1>2. CASE OtherUpsert
  <2>1. /\ UNCHANGED <<answers, retrieval, pc, req, ipc, floor, overlapped>>
        /\ version' = version + 1
    BY <1>2 DEF OtherUpsert, caches, history
  <2>2. floor' <= version'
    BY <1>t, <2>1 DEF QuietInv
  <2> QED BY <2>1, <2>2 DEF QuietInv, Current, Sources
<1>3. CASE Tick
  <2>1. /\ Sources(answers') \subseteq Sources(answers)
        /\ Sources(retrieval') \subseteq Sources(retrieval)
    <3>1. AnswerTTL \in Nat /\ RetrievalTTL \in Nat
      BY ServingConstants
    <3> QED
      BY <1>3, <1>t, <3>1, CacheTypes, SourcesAged DEF Tick, AnswerEntry, RetrievalEntry
  <2>2. UNCHANGED <<version, pc, ipc, floor, overlapped>>
    BY <1>3 DEF Tick, store
  <2>3. \A u \in Threads : req'[u].contexts = req[u].contexts /\ req'[u].found = req[u].found
    BY <1>3, <1>t DEF Tick, TypeOK, Request
  <2> QED BY <2>1, <2>2, <2>3 DEF QuietInv, Current, Sources
<1>4. CASE UNCHANGED vars
  BY <1>4 DEF QuietInv, Current, Sources, vars, store, caches, history
<1> QED
  BY <1>1, <1>2, <1>3, <1>4, ThreadQuietInv, IngestQuietInv DEF Next

(* POST /ingest invalidates both caches for good if no request was in      *)
(* flight as it cleared the first one, however many threads ask and        *)
(* ingest before and after.                                                *)
THEOREM QuietIngest == Spec => []QuietIngestInvalidates
<1>1. QuietInv => QuietIngestInvalidates
  BY DEF QuietInv, QuietIngestInvalidates
<1>2. Spec => []QuietInv
  BY InitQuietInv, NextQuietInv, AlwaysTInv, PTL DEF Spec
<1> QED BY <1>1, <1>2, PTL
-----------------------------------------------------------------------------
(* What a step of a request thread leaves to the other threads, and what   *)
(* it leaves alone.                                                        *)
LEMMA ThreadFrame ==
  ASSUME TypeOK, NEW t \in Threads, ThreadStep(t)
  PROVE  /\ UNCHANGED <<version, ipc, outdated, floor, overlapped, raced>>
         /\ \A u \in Threads : u # t => req'[u] = req[u] /\ pc'[u] = pc[u]
<1>1. req \in [Threads -> Request] /\ DOMAIN pc = Threads
  BY DEF TypeOK
<1>2. UNCHANGED <<version, ipc, outdated, floor, overlapped, raced>>
  BY DEF ThreadStep, LookupAnswer, LookupRetrieval, CallOther, CallSearch, DenseSearch,
         CachedCorpus, ScrollCorpus, KeepCorpus, StoreRetrieval, Conclude, StoreAnswer,
         Abandon, store, history
<1>3. ASSUME NEW u \in Threads, u # t
      PROVE  req'[u] = req[u] /\ pc'[u] = pc[u]
  BY <1>1, <1>3
  DEF ThreadStep, LookupAnswer, LookupRetrieval, CallOther, CallSearch, DenseSearch,
      CachedCorpus, ScrollCorpus, KeepCorpus, StoreRetrieval, Conclude, StoreAnswer,
      Abandon, Goto
<1> QED BY <1>2, <1>3

(* What a step does to what the thread has read: the request is over, or   *)
(* the clock of the request stands still and one of five things happens.   *)
Reads(t) ==
  \/ /\ req'[t].contexts = req[t].contexts /\ req'[t].found = req[t].found
     /\ pc'[t] \notin {"corpus", "keep", "rset"} \/ pc[t] \in {"corpus", "keep", "rset"}
  \/ /\ Hit(retrieval, req[t].search, RetrievalTTL)
     /\ req'[t].contexts = req[t].contexts \cup ValueAt(retrieval, req[t].search)
     /\ req'[t].found = req[t].found /\ pc'[t] = "think"
  \/ /\ req'[t].contexts = req[t].contexts
     /\ req'[t].found = req[t].found \cup {version}
  \/ /\ req'[t].contexts = req[t].contexts
     /\ \E v \in Version : req'[t].found = req[t].found \cup {v}
     /\ pc[t] \in {"corpus", "keep"}
  \/ /\ req'[t].contexts = req[t].contexts \cup req[t].found
     /\ req'[t].found = {} /\ pc'[t] = "think"

(* Every step of a request thread reads in one of these ways.              *)
LEMMA ThreadReads ==
  ASSUME TInv, NEW t \in Threads, ThreadStep(t)
  PROVE  \/ req'[t] = Gone /\ pc'[t] = "idle"
         \/ req'[t].elapsed = req[t].elapsed /\ Reads(t)
<1>r. /\ req \in [Threads -> Request] /\ req[t] \in Request /\ DOMAIN pc = Threads
      /\ version \in Version /\ corpus \in Version \cup {None} /\ TypeOK
  BY DEF TInv, TypeOK
<1>1. CASE LookupAnswer(t) \/ Conclude(t) \/ StoreAnswer(t) \/ Abandon(t)
  <2>1. req'[t] = Gone \/ req'[t] = req[t]
    BY <1>1, <1>r DEF LookupAnswer, Conclude, StoreAnswer, Abandon
  <2>2. /\ pc'[t] \in {"idle", "think", "aset"}
        /\ pc'[t] = "idle" => req'[t] = Gone
        /\ req'[t] = Gone => pc'[t] = "idle" \/ req[t] = Gone
    BY <1>1, <1>r DEF LookupAnswer, Conclude, StoreAnswer, Abandon, Goto, Gone, Fresh
  <2> QED BY <2>1, <2>2 DEF Reads
<1>2. CASE LookupRetrieval(t)
  <2>1. CASE ~ Hit(retrieval, req[t].search, RetrievalTTL)
    BY <1>2, <1>r, <2>1 DEF LookupRetrieval, Goto, Reads
  <2>2. CASE Hit(retrieval, req[t].search, RetrievalTTL)
    <3>1. req'[t] = [req[t] EXCEPT !.contexts = @ \cup ValueAt(retrieval, req[t].search)]
      BY <1>2, <1>r, <2>2 DEF LookupRetrieval
    <3>2. pc'[t] = "think"
      BY <1>2, <1>r, <2>2 DEF LookupRetrieval, Goto
    <3>3. /\ req'[t].contexts = req[t].contexts \cup ValueAt(retrieval, req[t].search)
          /\ req'[t].found = req[t].found /\ req'[t].elapsed = req[t].elapsed
      BY <1>r, <3>1 DEF Request
    <3> QED BY <2>2, <3>2, <3>3 DEF Reads
  <2> QED BY <2>1, <2>2
<1>3. ASSUME CallOther(t) \/ (\E s \in Searches : CallSearch(t, s)) \/ ScrollCorpus(t)
      PROVE  req'[t].elapsed = req[t].elapsed /\ Reads(t)
  <2>1. CASE CallOther(t)
    BY <2>1, <1>r DEF CallOther, Reads, Request
  <2>2. ASSUME NEW s \in Searches, CallSearch(t, s)
        PROVE  req'[t].elapsed = req[t].elapsed /\ Reads(t)
    <3>1. req'[t] = [req[t] EXCEPT !.search = s, !.steps = @ + 1] /\ pc'[t] = "rget"
      BY <2>2, <1>r DEF CallSearch, Goto
    <3>2. /\ req'[t].contexts = req[t].contexts /\ req'[t].found = req[t].found
          /\ req'[t].elapsed = req[t].elapsed
      BY <1>r, <3>1 DEF Request
    <3> QED BY <3>1, <3>2 DEF Reads
  <2>3. CASE ScrollCorpus(t)
    BY <2>3, <1>r DEF ScrollCorpus, Goto, Reads, Request
  <2> QED BY <1>3, <2>1, <2>2, <2>3
<1>4. CASE DenseSearch(t)
  BY <1>4, <1>r DEF DenseSearch, Reads, Request
<1>5. CASE CachedCorpus(t)
  BY <1>5, <1>r DEF CachedCorpus, Goto, Reads, Request
<1>6. CASE KeepCorpus(t)
  <2>1. pc[t] = "keep" /\ req[t].scrolled \in Version
    BY <1>6 DEF KeepCorpus, Goto, TInv, ReqInv
  <2>2. req'[t] = [req[t] EXCEPT !.found = @ \cup {req[t].scrolled}, !.scrolled = None]
    BY <1>6, <1>r DEF KeepCorpus
  <2>3. /\ req'[t].contexts = req[t].contexts /\ req'[t].elapsed = req[t].elapsed
        /\ req'[t].found = req[t].found \cup {req[t].scrolled}
    BY <1>r, <2>2 DEF Request
  <2> QED BY <2>1, <2>3 DEF Reads
<1>7. CASE StoreRetrieval(t)
  BY <1>7, <1>r DEF StoreRetrieval, Goto, Reads, Request
<1> QED BY <1>1, <1>2, <1>3, <1>4, <1>5, <1>6, <1>7 DEF ThreadStep

(* What a step of a request thread does to the two caches.                 *)
LEMMA ThreadCaches ==
  ASSUME TInv, NEW t \in Threads, ThreadStep(t)
  PROVE  /\ \/ retrieval' = retrieval
            \/ retrieval' = AfterGet(retrieval, req[t].search, RetrievalTTL)
            \/ /\ pc[t] = "rset"
               /\ [key |-> req[t].search, val |-> req[t].found, age |-> 0] \in RetrievalEntry
               /\ retrieval' = AfterSet(retrieval, req[t].search, req[t].found, RetrievalMax)
         /\ \/ answers' = answers
            \/ answers' = AfterGet(answers, req[t].question, AnswerTTL)
            \/ /\ [key |-> req[t].question, val |-> req[t].contexts, age |-> 0] \in AnswerEntry
               /\ answers' = AfterSet(answers, req[t].question, req[t].contexts, AnswerMax)
<1>r. req[t] \in Request
  BY DEF TInv, TypeOK
<1>1. CASE StoreRetrieval(t)
  <2>1. pc[t] = "rset" /\ req[t].search \in Searches /\ req[t].found \in SUBSET Version
    BY <1>1, <1>r DEF StoreRetrieval, Goto, TInv, ReqInv, Searching, Request
  <2>2. [key |-> req[t].search, val |-> req[t].found, age |-> 0] \in RetrievalEntry
    BY <2>1, ServingConstants DEF RetrievalEntry, Entry
  <2> QED BY <1>1, <2>1, <2>2 DEF StoreRetrieval
<1>2. CASE StoreAnswer(t)
  <2>1. req[t].question \in Questions /\ req[t].contexts \in SUBSET Version
    BY <1>2, <1>r DEF StoreAnswer, Goto, TInv, ReqInv, Request
  <2>2. [key |-> req[t].question, val |-> req[t].contexts, age |-> 0] \in AnswerEntry
    BY <2>1, ServingConstants DEF AnswerEntry, Entry
  <2> QED BY <1>2, <2>2 DEF StoreAnswer
<1> QED
  BY <1>1, <1>2 DEF ThreadStep, LookupAnswer, LookupRetrieval, CallOther, CallSearch,
     DenseSearch, CachedCorpus, ScrollCorpus, KeepCorpus, Conclude, Abandon, caches
-----------------------------------------------------------------------------
(* All of some versions, or one of them, were superseded at most n ticks   *)
(* ago.                                                                    *)
Within(vs, n)    == \A v \in vs : outdated[v] <= n
OneWithin(vs, n) == \E v \in vs : outdated[v] <= n

(* The same of what a cache may still serve, each entry n ticks older than *)
(* its age.                                                                *)
Served(c, ttl, n) ==
  \A i \in DOMAIN c : ~ Expired(c[i], ttl) => Within(c[i].val, n + c[i].age)
OneServed(c, ttl, n) ==
  \A i \in DOMAIN c : ~ Expired(c[i], ttl) => OneWithin(c[i].val, n + c[i].age)

(* The clock of a version starts when a document is added after it.        *)
NewestIsFresh == \A v \in Version : v >= version => outdated[v] = 0

(* How stale everything in the process can be: what a search has read is   *)
(* as old as its request; what a request has read may have waited in       *)
(* retrieval_cache as well, and what an answer was made from in both       *)
(* caches.  The corpus plays no part in dense mode.                        *)
StaleInv ==
  ~ UseHybrid =>
    /\ \A t \in Threads : pc[t] \notin {"corpus", "keep"}
    /\ \A t \in Threads :
         /\ Within(req[t].found, req[t].elapsed)
         /\ Within(req[t].contexts, req[t].elapsed + MaxLatency + RetrievalTTL)
    /\ Served(retrieval, RetrievalTTL, MaxLatency)
    /\ Served(answers, AnswerTTL, 2 * MaxLatency + RetrievalTTL)

(* In every mode, a search that has its dense hits holds one version read  *)
(* within its request, and keeps it in what it stores.                     *)
HalfInv ==
  /\ \A t \in Threads : pc[t] \in {"corpus", "keep", "rset"} =>
        OneWithin(req[t].found, req[t].elapsed)
  /\ OneServed(retrieval, RetrievalTTL, MaxLatency)

(* When no ingestion is between upsert and drop, and the last drop met no  *)
(* scroll, the corpus kept, and the one about to be kept, are today's.     *)
RaceInv ==
  (/\ ~ OtherProcesses /\ ~ MayRaise /\ ~ raced
   /\ \A i \in Ingesters : ipc[i] # "upserted")
     => /\ corpus \in {None, version}
        /\ \A t \in Threads : pc[t] = "keep" => req[t].scrolled = version

(* All of it.                                                              *)
AgeInv == NewestIsFresh /\ StaleInv /\ HalfInv /\ RaceInv

(* The numbers the bounds are made of.                                     *)
LEMMA Numbers ==
  ASSUME TypeOK
  PROVE  /\ MaxLatency \in Nat
         /\ AnswerTTL \in Nat \ {0} /\ RetrievalTTL \in Nat \ {0}
         /\ version \in Nat /\ Version \subseteq Nat
         /\ \A v \in Version : outdated[v] \in Nat
         /\ \A t \in Threads : req[t].elapsed \in 0 .. MaxLatency
         /\ \A t \in Threads : req[t].found \subseteq Version /\ req[t].contexts \subseteq Version
<1>1. /\ MaxLatency \in Nat
      /\ AnswerTTL \in Nat \ {0} /\ RetrievalTTL \in Nat \ {0}
  BY ServingConstants
<1>2. version \in Nat /\ Version \subseteq Nat
  BY DEF TypeOK, Version
<1>3. \A v \in Version : outdated[v] \in Nat
  <2>1. Horizon \in Nat
    BY <1>1 DEF Horizon
  <2> QED BY <2>1 DEF TypeOK
<1>4. ASSUME NEW t \in Threads
      PROVE  /\ req[t].elapsed \in 0 .. MaxLatency
             /\ req[t].found \subseteq Version /\ req[t].contexts \subseteq Version
  BY <1>4 DEF TypeOK, Request
<1> QED BY <1>1, <1>2, <1>3, <1>4

(* The entries of the caches, one by one.                                  *)
LEMMA EntryNumbers ==
  ASSUME TypeOK
  PROVE  /\ \A i \in DOMAIN retrieval :
              /\ retrieval[i].val \subseteq Version
              /\ retrieval[i].age \in 0 .. (RetrievalTTL + 1)
         /\ \A i \in DOMAIN answers :
              /\ answers[i].val \subseteq Version
              /\ answers[i].age \in 0 .. (AnswerTTL + 1)
<1>1. /\ \A i \in DOMAIN retrieval : retrieval[i] \in RetrievalEntry
      /\ \A i \in DOMAIN answers : answers[i] \in AnswerEntry
  BY CacheTypes, ElementOfSeq, LenProperties
<1> QED BY <1>1 DEF RetrievalEntry, AnswerEntry, Entry

(* A larger bound holds all the more, of fewer versions too.               *)
LEMMA WithinMore ==
  ASSUME TypeOK, NEW m \in Nat, NEW n \in Nat, m <= n,
         NEW A \in SUBSET Version, NEW B \in SUBSET A, Within(A, m)
  PROVE  Within(B, n)
BY Numbers DEF Within

(* A cache of old entries, and perhaps a new one, is as fresh as those.    *)
LEMMA ServedKept ==
  ASSUME NEW c, NEW d, NEW e, NEW ttl, NEW n,
         \A i \in DOMAIN d : d[i] = e \/ \E j \in DOMAIN c : d[i] = c[j]
  PROVE  /\ Served(c, ttl, n) /\ Within(e.val, n + e.age) => Served(d, ttl, n)
         /\ OneServed(c, ttl, n) /\ OneWithin(e.val, n + e.age) => OneServed(d, ttl, n)
BY DEF Served, OneServed

(* Looking up leaves no other entries.                                     *)
LEMMA ServedAfterGet ==
  ASSUME NEW S, NEW c \in Seq(S), NEW k, NEW ttl, NEW n
  PROVE  /\ Served(c, ttl, n) => Served(AfterGet(c, k, ttl), ttl, n)
         /\ OneServed(c, ttl, n) => OneServed(AfterGet(c, k, ttl), ttl, n)
BY AfterGetEntries DEF Served, OneServed

(* Storing leaves the old entries and the one stored.                      *)
LEMMA ServedAfterSet ==
  ASSUME NEW S, NEW c \in Seq(S), NEW k, NEW v, NEW maxsize \in Nat, NEW ttl, NEW n \in Nat,
         [key |-> k, val |-> v, age |-> 0] \in S
  PROVE  /\ Served(c, ttl, n) /\ Within(v, n) => Served(AfterSet(c, k, v, maxsize), ttl, n)
         /\ OneServed(c, ttl, n) /\ OneWithin(v, n)
              => OneServed(AfterSet(c, k, v, maxsize), ttl, n)
<1> DEFINE e == [key |-> k, val |-> v, age |-> 0]
           d == AfterSet(c, k, v, maxsize)
<1>1. \A i \in DOMAIN d : d[i] = e \/ \E j \in DOMAIN c : d[i] = c[j]
  BY AfterSetEntries
<1>2. e.val = v /\ n + e.age = n
  OBVIOUS
<1> HIDE DEF e, d
<1>3. /\ Served(c, ttl, n) /\ Within(v, n) => Served(d, ttl, n)
      /\ OneServed(c, ttl, n) /\ OneWithin(v, n) => OneServed(d, ttl, n)
  BY <1>1, <1>2, ServedKept
<1> QED BY <1>3 DEF d
-----------------------------------------------------------------------------
(* Nothing has been added and nothing read at the start.                   *)
LEMMA InitAgeInv == Init => AgeInv
<1> SUFFICES ASSUME Init PROVE AgeInv
  OBVIOUS
<1>1. NewestIsFresh
  BY DEF Init, NewestIsFresh
<1>2. \A t \in Threads : req[t].found = {} /\ req[t].contexts = {} /\ pc[t] = "idle"
  BY DEF Init, Gone, Fresh
<1>3. DOMAIN answers = {} /\ DOMAIN retrieval = {}
  BY DEF Init
<1>4. StaleInv /\ HalfInv
  BY <1>2, <1>3 DEF StaleInv, HalfInv, Within, Served, OneServed
<1>5. RaceInv
  BY <1>2 DEF Init, RaceInv
<1> QED BY <1>1, <1>4, <1>5 DEF AgeInv

(* In dense mode a step of a request thread keeps the bounds: what it      *)
(* reads from the collection is new, and what it reads from                *)
(* retrieval_cache is at most that cache's TTL and a request old.          *)
LEMMA ThreadStale ==
  ASSUME TInv, AgeInv, NEW t \in Threads, ThreadStep(t)
  PROVE  StaleInv'
<1> SUFFICES ASSUME ~ UseHybrid
             PROVE  StaleInv'
  BY DEF StaleInv
<1>t. TypeOK
  BY DEF TInv
<1>f. /\ outdated' = outdated
      /\ \A u \in Threads : u # t => req'[u] = req[u] /\ pc'[u] = pc[u]
  BY <1>t, ThreadFrame
<1>s. /\ \A u \in Threads : /\ Within(req[u].found, req[u].elapsed)
                            /\ Within(req[u].contexts, req[u].elapsed + MaxLatency + RetrievalTTL)
      /\ Served(retrieval, RetrievalTTL, MaxLatency)
      /\ Served(answers, AnswerTTL, 2 * MaxLatency + RetrievalTTL)
      /\ \A u \in Threads : pc[u] \notin {"corpus", "keep"}
  BY DEF AgeInv, StaleInv
<1>n. /\ MaxLatency \in Nat /\ RetrievalTTL \in Nat \ {0}
      /\ req[t].elapsed \in 0 .. MaxLatency
      /\ req[t].found \subseteq Version /\ req[t].contexts \subseteq Version
      /\ version \in Version /\ \A v \in Version : outdated[v] \in Nat
  BY <1>t, Numbers DEF TypeOK
<1>p. \A u \in Threads : pc'[u] \notin {"corpus", "keep"}
  BY <1>s, <1>t DEF ThreadStep, LookupAnswer, LookupRetrieval, CallOther, CallSearch,
         DenseSearch, CachedCorpus, ScrollCorpus, KeepCorpus, StoreRetrieval, Conclude,
         StoreAnswer, Abandon, Goto, Candidates, TypeOK
<1>1. /\ Within(req'[t].found, req'[t].elapsed)
      /\ Within(req'[t].contexts, req'[t].elapsed + MaxLatency + RetrievalTTL)
  <2> DEFINE e == req[t].elapsed
             n == e + MaxLatency + RetrievalTTL
  <2>n. e \in Nat /\ n \in Nat /\ e <= n /\ e <= MaxLatency
    BY <1>n
  <2>s. Within(req[t].found, e) /\ Within(req[t].contexts, n)
    BY <1>s
  <2>1. CASE req'[t] = Gone
    BY <2>1 DEF Gone, Fresh, Within
  <2>2. CASE req'[t].elapsed = e /\ Reads(t)
    <3> HIDE DEF e, n
    <3>1. Within(req[t].found, n)
      BY <1>t, <1>n, <2>n, <2>s, WithinMore
    <3>2. Within({version}, e)
      BY <1>n, <2>n DEF Within, AgeInv, NewestIsFresh, Version
    <3>3. Hit(retrieval, req[t].search, RetrievalTTL)
            => Within(ValueAt(retrieval, req[t].search), n)
      <4> SUFFICES ASSUME Hit(retrieval, req[t].search, RetrievalTTL)
                   PROVE  Within(ValueAt(retrieval, req[t].search), n)
        OBVIOUS
      <4>1. PICK i \in DOMAIN retrieval :
                    /\ ValueAt(retrieval, req[t].search) = retrieval[i].val
                    /\ ~ Expired(retrieval[i], RetrievalTTL)
        BY HitLive
      <4>2. Within(retrieval[i].val, MaxLatency + retrieval[i].age)
        BY <1>s, <4>1 DEF Served
      <4>3. retrieval[i].val \subseteq Version /\ retrieval[i].age \in 0 .. (RetrievalTTL + 1)
        BY <1>t, EntryNumbers
      <4>4. retrieval[i].age <= RetrievalTTL
        BY <1>n, <4>1, <4>3 DEF Expired
      <4>5. MaxLatency + retrieval[i].age \in Nat /\ MaxLatency + retrieval[i].age <= n
        BY <1>n, <2>n, <4>3, <4>4 DEF e, n
      <4> QED BY <1>t, <2>n, <4>1, <4>2, <4>3, <4>5, WithinMore
    <3>4. pc[t] \notin {"corpus", "keep"}
      BY <1>s
    <3>5. Within(req'[t].found, e) /\ Within(req'[t].contexts, n)
      BY <2>2, <2>s, <3>1, <3>2, <3>3, <3>4 DEF Reads, Within
    <3> QED BY <2>2, <3>5 DEF e, n
  <2> QED BY <2>1, <2>2, ThreadReads
<1>2. Served(retrieval', RetrievalTTL, MaxLatency)
  <2>1. RetrievalMax \in Nat /\ retrieval \in Seq(RetrievalEntry)
    BY <1>t, CacheTypes, ServingConstants
  <2>2. Within(req[t].found, MaxLatency)
    <3>1. Within(req[t].found, req[t].elapsed)
      BY <1>s
    <3>2. req[t].elapsed \in Nat /\ req[t].elapsed <= MaxLatency
      BY <1>n
    <3> QED BY <1>t, <1>n, <3>1, <3>2, WithinMore
  <2> QED BY <1>s, <1>n, <2>1, <2>2, ThreadCaches, ServedAfterGet, ServedAfterSet
<1>3. Served(answers', AnswerTTL, 2 * MaxLatency + RetrievalTTL)
  <2> DEFINE n == 2 * MaxLatency + RetrievalTTL
  <2>1. AnswerMax \in Nat /\ answers \in Seq(AnswerEntry) /\ n \in Nat
    BY <1>t, <1>n, CacheTypes, ServingConstants
  <2>2. Within(req[t].contexts, n)
    <3> DEFINE m == req[t].elapsed + MaxLatency + RetrievalTTL
    <3>1. Within(req[t].contexts, m)
      BY <1>s
    <3>2. m \in Nat /\ m <= n
      BY <1>n
    <3> HIDE DEF m, n
    <3> QED BY <1>t, <1>n, <2>1, <3>1, <3>2, WithinMore
  <2>3. Served(answers, AnswerTTL, n)
    BY <1>s
  <2> HIDE DEF n
  <2>4. Served(answers', AnswerTTL, n)
    BY <2>1, <2>2, <2>3, ThreadCaches, ServedAfterGet, ServedAfterSet
  <2> QED BY <2>4 DEF n
<1>4. \A u \in Threads :
         /\ Within(req'[u].found, req'[u].elapsed)
         /\ Within(req'[u].contexts, req'[u].elapsed + MaxLatency + RetrievalTTL)
  BY <1>s, <1>f, <1>1
<1> QED BY <1>f, <1>p, <1>2, <1>3, <1>4 DEF StaleInv, Within, Served

(* In every mode it keeps the fresh half: the dense hits come first.       *)
LEMMA ThreadHalf ==
  ASSUME TInv, AgeInv, NEW t \in Threads, ThreadStep(t)
  PROVE  HalfInv'
<1>t. TypeOK
  BY DEF TInv
<1>f. /\ outdated' = outdated
      /\ \A u \in Threads : u # t => req'[u] = req[u] /\ pc'[u] = pc[u]
  BY <1>t, ThreadFrame
<1>s. /\ \A u \in Threads : pc[u] \in {"corpus", "keep", "rset"} =>
            OneWithin(req[u].found, req[u].elapsed)
      /\ OneServed(retrieval, RetrievalTTL, MaxLatency)
  BY DEF AgeInv, HalfInv
<1>n. /\ MaxLatency \in Nat /\ req[t].elapsed \in 0 .. MaxLatency
      /\ req[t].found \subseteq Version
      /\ version \in Version /\ \A v \in Version : outdated[v] \in Nat
  BY <1>t, Numbers DEF TypeOK
<1>1. pc'[t] \in {"corpus", "keep", "rset"} => OneWithin(req'[t].found, req'[t].elapsed)
  <2>1. outdated[version] <= req[t].elapsed
    BY <1>n DEF AgeInv, NewestIsFresh, Version
  <2>2. CASE req'[t].elapsed = req[t].elapsed /\ Reads(t)
    BY <1>s, <1>n, <2>1, <2>2 DEF Reads, OneWithin
  <2> QED BY <2>2, ThreadReads
<1>2. OneServed(retrieval', RetrievalTTL, MaxLatency)
  <2>1. RetrievalMax \in Nat /\ retrieval \in Seq(RetrievalEntry)
    BY <1>t, CacheTypes, ServingConstants
  <2>2. pc[t] = "rset" => OneWithin(req[t].found, MaxLatency)
    BY <1>s, <1>n DEF OneWithin
  <2> QED BY <1>s, <1>n, <2>1, <2>2, ThreadCaches, ServedAfterGet, ServedAfterSet
<1>3. \A u \in Threads : pc'[u] \in {"corpus", "keep", "rset"} =>
         OneWithin(req'[u].found, req'[u].elapsed)
  BY <1>s, <1>f, <1>1
<1> QED BY <1>f, <1>2, <1>3 DEF HalfInv, OneWithin, OneServed

(* And the corpus: a scroll reads today's collection, and what is kept was *)
(* scrolled.                                                               *)
LEMMA ThreadRace ==
  ASSUME TInv, AgeInv, NEW t \in Threads, ThreadStep(t)
  PROVE  RaceInv'
<1>t. TypeOK /\ req \in [Threads -> Request] /\ DOMAIN pc = Threads
  BY DEF TInv, TypeOK
<1>f. /\ UNCHANGED <<version, ipc, raced>>
      /\ \A u \in Threads : u # t => req'[u] = req[u] /\ pc'[u] = pc[u]
  BY <1>t, ThreadFrame
<1> SUFFICES ASSUME ~ OtherProcesses, ~ MayRaise, ~ raced,
                    \A i \in Ingesters : ipc[i] # "upserted"
             PROVE  /\ corpus' \in {None, version}
                    /\ pc'[t] = "keep" => req'[t].scrolled = version
  BY <1>f DEF RaceInv, AgeInv
<1>s. /\ corpus \in {None, version}
      /\ pc[t] = "keep" => req[t].scrolled = version
  BY DEF AgeInv, RaceInv
<1>1. CASE ScrollCorpus(t)
  <2>1. req'[t].scrolled = version
    BY <1>1, <1>t DEF ScrollCorpus, Request
  <2> QED BY <1>1, <1>s, <2>1 DEF ScrollCorpus, store
<1>2. CASE KeepCorpus(t)
  BY <1>2, <1>s, <1>t DEF KeepCorpus, Goto, Candidates
<1>3. CASE ~ ScrollCorpus(t) /\ ~ KeepCorpus(t)
  BY <1>3, <1>s, <1>t
  DEF ThreadStep, LookupAnswer, LookupRetrieval, CallOther, CallSearch, DenseSearch,
      CachedCorpus, StoreRetrieval, Conclude, StoreAnswer, Abandon, Goto, Candidates, store
<1> QED BY <1>1, <1>2, <1>3
-----------------------------------------------------------------------------
(* A document added is newer than everything read: no bound moves.  So it  *)
(* is with any step that leaves the clocks, the requests and the caches.   *)
LEMMA NewerAge ==
  ASSUME TypeOK, AgeInv, UNCHANGED <<caches, pc, req, outdated>>,
         version' \in Nat, version <= version'
  PROVE  NewestIsFresh' /\ StaleInv' /\ HalfInv'
<1>1. NewestIsFresh'
  BY Numbers DEF AgeInv, NewestIsFresh
<1>2. StaleInv'
  BY DEF AgeInv, StaleInv, Within, Served, caches
<1>3. HalfInv'
  BY DEF AgeInv, HalfInv, OneWithin, OneServed, caches
<1> QED BY <1>1, <1>2, <1>3

(* Every step of POST /ingest keeps all of it.                             *)
LEMMA IngestAgeInv ==
  ASSUME TInv, AgeInv, NEW i \in Ingesters, Ingest(i) \/ IngestStep(i)
  PROVE  AgeInv'
<1>t. /\ TypeOK /\ version \in Nat
      /\ ipc \in [Ingesters -> {"idle", "adding", "upserted", "clearing"}]
  BY DEF TInv, TypeOK, Version
<1>1. CASE Ingest(i)
  <2>1. RaceInv'
    BY <1>1, <1>t DEF Ingest, IGoto, AgeInv, RaceInv, store, history
  <2> QED BY <1>1, <1>t, <2>1, NewerAge DEF Ingest, AgeInv, store, history
<1>2. CASE Upsert(i)
  <2>1. ipc'[i] = "upserted"
    BY <1>2, <1>t DEF Upsert, IGoto
  <2>2. RaceInv'
    BY <2>1 DEF RaceInv
  <2>3. version' = version + 1 /\ UNCHANGED <<caches, pc, req, outdated>>
    BY <1>2 DEF Upsert, history
  <2> QED BY <1>t, <2>2, <2>3, NewerAge DEF AgeInv
<1>3. CASE DropCorpus(i)
  <2>1. corpus' = None /\ (~ raced' => \A t \in Threads : pc'[t] # "keep")
    BY <1>3 DEF DropCorpus
  <2>2. RaceInv'
    BY <2>1 DEF RaceInv
  <2> QED BY <1>3, <1>t, <2>2, NewerAge DEF DropCorpus, AgeInv
<1>4. CASE IngestFails(i)
  <2>1. MayRaise
    BY <1>4 DEF IngestFails
  <2>2. RaceInv'
    BY <2>1 DEF RaceInv
  <2> QED BY <1>4, <1>t, <2>2, NewerAge DEF IngestFails, AgeInv, store, history
<1>5. CASE ClearRetrieval(i)
  <2>1. /\ retrieval' = <<>>
        /\ UNCHANGED <<version, corpus, answers, pc, req, outdated, raced>>
    BY <1>5 DEF ClearRetrieval, store
  <2>2. DOMAIN retrieval' = {}
    BY <2>1
  <2>3. NewestIsFresh' /\ StaleInv' /\ HalfInv'
    BY <2>1, <2>2
    DEF AgeInv, NewestIsFresh, StaleInv, HalfInv, Within, OneWithin, Served, OneServed
  <2>4. (\A j \in Ingesters : ipc'[j] # "upserted") => \A j \in Ingesters : ipc[j] # "upserted"
    BY <1>5, <1>t DEF ClearRetrieval, IGoto
  <2> QED BY <2>1, <2>3, <2>4 DEF AgeInv, RaceInv
<1>6. CASE ClearAnswers(i)
  <2>1. answers' = <<>> /\ UNCHANGED <<version, corpus, retrieval, pc, req, outdated, raced>>
    BY <1>6 DEF ClearAnswers, store, history
  <2>2. DOMAIN answers' = {}
    BY <2>1
  <2>3. NewestIsFresh' /\ StaleInv' /\ HalfInv'
    BY <2>1, <2>2
    DEF AgeInv, NewestIsFresh, StaleInv, HalfInv, Within, OneWithin, Served, OneServed
  <2>4. (\A j \in Ingesters : ipc'[j] # "upserted") => \A j \in Ingesters : ipc[j] # "upserted"
    BY <1>6, <1>t DEF ClearAnswers, IGoto
  <2> QED BY <2>1, <2>3, <2>4 DEF AgeInv, RaceInv
<1> QED BY <1>1, <1>2, <1>3, <1>4, <1>5, <1>6 DEF IngestStep

(* A tick makes a version at most one tick older ...                       *)
LEMMA TickOlder ==
  ASSUME TypeOK, Tick, NEW n \in Nat, NEW vs \in SUBSET Version
  PROVE  /\ Within(vs, n) => \A v \in vs : outdated'[v] <= n + 1
         /\ OneWithin(vs, n) => \E v \in vs : outdated'[v] <= n + 1
<1>1. \A v \in vs : outdated'[v] <= outdated[v] + 1 /\ outdated[v] \in Nat /\ outdated'[v] \in Nat
  BY Numbers DEF Tick
<1>2. \A a, b \in Nat : a <= b + 1 /\ b <= n => a <= n + 1
  OBVIOUS
<1> QED BY <1>1, <1>2 DEF Within, OneWithin

(* ... and every entry that may still be served one tick older.            *)
LEMMA TickServed ==
  ASSUME TypeOK, Tick, NEW K, NEW ttl \in Nat \ {0}, NEW n \in Nat,
         NEW c \in Seq(Entry(K, SUBSET Version, ttl)), NEW i \in DOMAIN Aged(c, ttl),
         ~ Expired(Aged(c, ttl)[i], ttl)
  PROVE  /\ Served(c, ttl, n) =>
              \A v \in Aged(c, ttl)[i].val : outdated'[v] <= n + Aged(c, ttl)[i].age
         /\ OneServed(c, ttl, n) =>
              \E v \in Aged(c, ttl)[i].val : outdated'[v] <= n + Aged(c, ttl)[i].age
<1>1. i \in DOMAIN c
  BY AgedEntries
<1>2. /\ ~ Expired(c[i], ttl) /\ Aged(c, ttl)[i].val = c[i].val
      /\ c[i].age \in Nat /\ Aged(c, ttl)[i].age = c[i].age + 1
  BY <1>1, AgedLive
<1>3. c[i] \in Entry(K, SUBSET Version, ttl)
  BY <1>1, ElementOfSeq, LenProperties
<1>4. c[i].val \in SUBSET Version
  BY <1>3 DEF Entry
<1>5. n + c[i].age \in Nat /\ n + (c[i].age + 1) = (n + c[i].age) + 1
  BY <1>2
<1>6. /\ Within(c[i].val, n + c[i].age) => \A v \in c[i].val : outdated'[v] <= n + (c[i].age + 1)
      /\ OneWithin(c[i].val, n + c[i].age) => \E v \in c[i].val : outdated'[v] <= n + (c[i].age + 1)
  BY <1>4, <1>5, TickOlder
<1> QED BY <1>1, <1>2, <1>6 DEF Served, OneServed

(* The clock of a request and the clocks of the versions go together.      *)
LEMMA TickAgeInv ==
  ASSUME TInv, AgeInv, Tick
  PROVE  AgeInv'
<1>t. TypeOK
  BY DEF TInv
<1>n. /\ MaxLatency \in Nat /\ RetrievalTTL \in Nat \ {0} /\ AnswerTTL \in Nat \ {0}
      /\ 2 * MaxLatency + RetrievalTTL \in Nat
  BY <1>t, Numbers
<1>u. /\ UNCHANGED <<version, corpus, pc, ipc, raced>>
      /\ answers' = Aged(answers, AnswerTTL)
      /\ retrieval' = Aged(retrieval, RetrievalTTL)
  BY DEF Tick, store
<1>c. /\ answers \in Seq(Entry(Questions, SUBSET Version, AnswerTTL))
      /\ retrieval \in Seq(Entry(Searches, SUBSET Version, RetrievalTTL))
  BY <1>t DEF TypeOK
<1>1. NewestIsFresh'
  BY <1>t, <1>u, Numbers DEF Tick, AgeInv, NewestIsFresh
<1>2. ASSUME NEW t \in Threads
      PROVE  /\ req'[t].found = req[t].found /\ req'[t].contexts = req[t].contexts
             /\ req'[t].scrolled = req[t].scrolled
             /\ pc[t] # "idle" => req'[t].elapsed = req[t].elapsed + 1
             /\ pc[t] = "idle" => req[t].found = {} /\ req[t].contexts = {}
  <2>1. req[t] \in Request
    BY <1>t DEF TypeOK
  <2>2. pc[t] = "idle" => req[t].found = {} /\ req[t].contexts = {}
    BY DEF TInv, ReqInv, Gone, Fresh
  <2> QED BY <2>1, <2>2 DEF Tick, InFlight, Request
<1>3. StaleInv'
  <2> SUFFICES ASSUME ~ UseHybrid
               PROVE  StaleInv'
    BY DEF StaleInv
  <2>s. /\ \A u \in Threads : /\ Within(req[u].found, req[u].elapsed)
                              /\ Within(req[u].contexts, req[u].elapsed + MaxLatency + RetrievalTTL)
        /\ Served(retrieval, RetrievalTTL, MaxLatency)
        /\ Served(answers, AnswerTTL, 2 * MaxLatency + RetrievalTTL)
        /\ \A u \in Threads : pc[u] \notin {"corpus", "keep"}
    BY DEF AgeInv, StaleInv
  <2>1. ASSUME NEW t \in Threads
        PROVE  /\ \A v \in req'[t].found : outdated'[v] <= req'[t].elapsed
               /\ \A v \in req'[t].contexts :
                     outdated'[v] <= req'[t].elapsed + MaxLatency + RetrievalTTL
    <3>1. CASE pc[t] = "idle"
      BY <1>2, <3>1
    <3>2. CASE pc[t] # "idle"
      <4> DEFINE e == req[t].elapsed
                 n == e + MaxLatency + RetrievalTTL
      <4>1. /\ e \in Nat /\ n \in Nat
            /\ (e + 1) + MaxLatency + RetrievalTTL = n + 1
            /\ req[t].found \in SUBSET Version /\ req[t].contexts \in SUBSET Version
        BY <1>t, <1>n, Numbers
      <4>2. Within(req[t].found, e) /\ Within(req[t].contexts, n)
        BY <2>s
      <4>3. req'[t].elapsed = e + 1
        BY <1>2, <3>2
      <4> HIDE DEF e, n
      <4>4. /\ \A v \in req[t].found : outdated'[v] <= e + 1
            /\ \A v \in req[t].contexts : outdated'[v] <= n + 1
        BY <1>t, <4>1, <4>2, TickOlder
      <4> QED BY <1>2, <4>1, <4>3, <4>4
    <3> QED BY <3>1, <3>2
  <2>2. \A i \in DOMAIN retrieval' : ~ Expired(retrieval'[i], RetrievalTTL) =>
           \A v \in retrieval'[i].val : outdated'[v] <= MaxLatency + retrieval'[i].age
    BY <1>t, <1>n, <1>u, <1>c, <2>s, TickServed
  <2>3. \A i \in DOMAIN answers' : ~ Expired(answers'[i], AnswerTTL) =>
           \A v \in answers'[i].val :
              outdated'[v] <= (2 * MaxLatency + RetrievalTTL) + answers'[i].age
    BY <1>t, <1>n, <1>u, <1>c, <2>s, TickServed
  <2> QED BY <1>u, <2>s, <2>1, <2>2, <2>3 DEF StaleInv, Within, Served
<1>4. HalfInv'
  <2>s. /\ \A u \in Threads : pc[u] \in {"corpus", "keep", "rset"} =>
              OneWithin(req[u].found, req[u].elapsed)
        /\ OneServed(retrieval, RetrievalTTL, MaxLatency)
    BY DEF AgeInv, HalfInv
  <2>1. ASSUME NEW t \in Threads, pc[t] \in {"corpus", "keep", "rset"}
        PROVE  \E v \in req'[t].found : outdated'[v] <= req'[t].elapsed
    <3>1. req[t].elapsed \in Nat /\ req[t].found \in SUBSET Version
      BY <1>t, <1>n, Numbers
    <3> QED BY <1>t, <1>2, <2>s, <2>1, <3>1, TickOlder
  <2>2. \A i \in DOMAIN retrieval' : ~ Expired(retrieval'[i], RetrievalTTL) =>
           \E v \in retrieval'[i].val : outdated'[v] <= MaxLatency + retrieval'[i].age
    BY <1>t, <1>n, <1>u, <1>c, <2>s, TickServed
  <2> QED BY <1>u, <2>1, <2>2 DEF HalfInv, OneWithin, OneServed
<1>5. RaceInv'
  BY <1>u, <1>2 DEF AgeInv, RaceInv
<1> QED BY <1>1, <1>3, <1>4, <1>5 DEF AgeInv

(* And so does every step of the system.                                   *)
LEMMA NextAgeInv == TInv /\ AgeInv /\ [Next]_vars => AgeInv'
<1> SUFFICES ASSUME TInv, AgeInv, [Next]_vars PROVE AgeInv'
  OBVIOUS
<1>t. TypeOK /\ version \in Nat
  BY DEF TInv, TypeOK, Version
<1>1. ASSUME NEW t \in Threads, ThreadStep(t)
      PROVE  AgeInv'
  <2>1. NewestIsFresh'
    BY <1>t, <1>1, ThreadFrame DEF AgeInv, NewestIsFresh
  <2> QED BY <1>1, <2>1, ThreadStale, ThreadHalf, ThreadRace DEF AgeInv
<1>2. ASSUME NEW t \in Threads, NEW q \in Questions, NEW s \in BOOLEAN, Ask(t, q, s)
      PROVE  AgeInv'
  <2>1. UNCHANGED <<version, corpus, answers, retrieval, ipc, outdated, raced>>
    BY <1>2 DEF Ask, store, caches, history
  <2>2. /\ Fresh(q, s).contexts = {} /\ Fresh(q, s).found = {}
        /\ req' = [req EXCEPT ![t] = Fresh(q, s)] /\ req \in [Threads -> Request]
        /\ pc' = [pc EXCEPT ![t] = IF s THEN "think" ELSE "lookup"] /\ DOMAIN pc = Threads
    BY <1>2, <1>t DEF Ask, Fresh, TypeOK, Goto
  <2>3. \A u \in Threads :
           \/ req'[u] = req[u] /\ pc'[u] = pc[u]
           \/ req'[u].contexts = {} /\ req'[u].found = {} /\ pc'[u] \in {"think", "lookup"}
    BY <2>2
  <2>4. NewestIsFresh' /\ RaceInv'
    BY <2>1, <2>3 DEF AgeInv, NewestIsFresh, RaceInv
  <2>5. StaleInv'
    BY <2>1, <2>3 DEF AgeInv, StaleInv, Within, Served
  <2>6. HalfInv'
    BY <2>1, <2>3 DEF AgeInv, HalfInv, OneWithin, OneServed
  <2> QED BY <2>4, <2>5, <2>6 DEF AgeInv
<1>3. CASE OtherUpsert
  <2>1. RaceInv'
    BY <1>3 DEF OtherUpsert, RaceInv
  <2>2. version' = version + 1 /\ UNCHANGED <<caches, pc, req, outdated>>
    BY <1>3 DEF OtherUpsert, history
  <2> QED BY <1>t, <2>1, <2>2, NewerAge DEF AgeInv
<1>4. CASE UNCHANGED vars
  <2>1. RaceInv'
    BY <1>4 DEF AgeInv, RaceInv, vars, store, history
  <2> QED BY <1>4, <1>t, <2>1, NewerAge DEF AgeInv, vars, store, history
<1> QED BY <1>1, <1>2, <1>3, <1>4, IngestAgeInv, TickAgeInv DEF Next

(* The ages are an invariant.                                              *)
LEMMA AlwaysAgeInv == Spec => []AgeInv
BY InitAgeInv, NextAgeInv, AlwaysTInv, PTL DEF Spec

(* In dense mode no answer that may be served reflects documents           *)
(* superseded longer ago than the two TTLs and two requests add up to,     *)
(* whatever the numbers of threads, questions, searches, documents and     *)
(* cache entries, however the TTLs are set.                                *)
THEOREM AnswersAgeOut == Spec => []StalenessBound
<1>1. TInv /\ AgeInv => StalenessBound
  <2> SUFFICES ASSUME TInv, AgeInv, ~ UseHybrid, NEW i \in DOMAIN answers,
                      ~ Expired(answers[i], AnswerTTL), NEW v \in answers[i].val
               PROVE  outdated[v] <= 2 * MaxLatency + RetrievalTTL + AnswerTTL
    BY DEF StalenessBound, LiveSources
  <2>1. outdated[v] <= 2 * MaxLatency + RetrievalTTL + answers[i].age
    BY DEF AgeInv, StaleInv, Served, Within
  <2>2. /\ MaxLatency \in Nat /\ RetrievalTTL \in Nat /\ AnswerTTL \in Nat \ {0}
        /\ answers[i].val \subseteq Version /\ answers[i].age \in 0 .. (AnswerTTL + 1)
    BY Numbers, EntryNumbers DEF TInv
  <2>3. outdated[v] \in Nat
    BY <2>2, Numbers DEF TInv
  <2>4. answers[i].age <= AnswerTTL
    BY <2>2 DEF Expired
  <2> QED BY <2>1, <2>2, <2>3, <2>4
<1> QED BY <1>1, AlwaysTInv, AlwaysAgeInv, PTL

(* In every mode the dense half of a cached search is within its bound,    *)
(* and in a process that alone adds documents, none of them failing, the   *)
(* BM25 half lags only after a scroll that outlasted add_documents.        *)
THEOREM HybridStaysFresh == Spec => []HybridFreshness
<1>1. TInv /\ AgeInv => DenseHalfBounded
  <2> SUFFICES ASSUME TInv, AgeInv, NEW i \in DOMAIN retrieval,
                      ~ Expired(retrieval[i], RetrievalTTL)
               PROVE  \E v \in retrieval[i].val : outdated[v] <= MaxLatency + RetrievalTTL
    BY DEF DenseHalfBounded
  <2>1. PICK v \in retrieval[i].val : outdated[v] <= MaxLatency + retrieval[i].age
    BY DEF AgeInv, HalfInv, OneServed, OneWithin
  <2>2. /\ MaxLatency \in Nat /\ RetrievalTTL \in Nat \ {0}
        /\ retrieval[i].val \subseteq Version /\ retrieval[i].age \in 0 .. (RetrievalTTL + 1)
    BY Numbers, EntryNumbers DEF TInv
  <2>3. outdated[v] \in Nat
    BY <2>2, Numbers DEF TInv
  <2>4. retrieval[i].age <= RetrievalTTL
    BY <2>2 DEF Expired
  <2> QED BY <2>1, <2>2, <2>3, <2>4
<1>2. AgeInv => CorpusStaleOnlyByRace
  BY DEF AgeInv, RaceInv, CorpusStaleOnlyByRace
<1>3. TInv /\ AgeInv => HybridFreshness
  BY <1>1, <1>2 DEF HybridFreshness
<1> QED BY <1>3, AlwaysTInv, AlwaysAgeInv, PTL
=============================================================================

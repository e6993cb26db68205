-------------------------- MODULE AgentLoopProofs --------------------------
(***************************************************************************)
(* Why an answer that is served is what the checks said it is: for any     *)
(* number of request threads, models, questions, replies and passages, and *)
(* for every way the two caches may forget.                                *)
(***************************************************************************)
EXTENDS AgentLoop, AlgorithmsProofs

Labels == {"idle", "lookup", "screen", "think", "build", "rget", "query", "rset"}

ContextLists == Seq(Seq(Passage))

Locals ==
  [question : Questions \cup {None}, spec : Specs \cup {None}, stream : BOOLEAN,
   steps : 0 .. MaxSteps, contexts : ContextLists, search : Searches \cup {None},
   manager : Threads \cup {None}, texts : Seq(Passages)]

(* Where a request is, it has what it needs there: a model, a query, a     *)
(* manager somebody built.                                                 *)
RequestOK(t) ==
  /\ IF pc[t] = "idle" THEN req[t] = Gone ELSE req[t].spec \in Specs
  /\ pc[t] \in {"build", "rget", "query", "rset"} => req[t].search \in Searches
  /\ pc[t] \in {"rget", "query", "rset"} => req[t].manager \in built

Requests ==
  /\ pc \in [Threads -> Labels] /\ req \in [Threads -> Locals]
  /\ \A t \in Threads : RequestOK(t)

Stores ==
  /\ champion \in Specs \cup {None} /\ promotions \in 0 .. MaxPromotions
  /\ built \subseteq Threads /\ index \in [Threads -> SUBSET Passages]
  /\ IF manager = None THEN built = {} ELSE manager \in built
  /\ \A s \in DOMAIN retrieval : s \in Searches /\ retrieval[s] \in Seq(Passages)

(* A result that went through the checks, whoever holds it.                *)
Checked(r) ==
  /\ ResultOK(r)
  /\ ~ Leaks([r.answer EXCEPT !.cites = <<>>])
  /\ ~ r.blocked => r.grounded = Grounded(r.answer, r.contexts)
  /\ Warning(r) = "none" =>
       /\ r.answer.abstains \/ r.contexts # <<>>
       /\ r.answer.cites = <<>> \/ \E s \in ToSet(r.answer.cites) : Supports(r.answer, r.contexts, s)
       /\ r.audit.corrected = Unknown

(* The cache holds checked answers, each under the id of the model that    *)
(* wrote it, and what was sent is one too.                                 *)
Served ==
  /\ \A r \in Held : Checked(r)
  /\ \A k \in DOMAIN answers : ~ answers[k].blocked /\ ModelId[answers[k].by] = k[1]
  /\ BoundToModel

(* There is a manager before there is anything one found, and no thread    *)
(* that is about to make one has made one before.                          *)
Managers ==
  /\ IsFiniteSet(built) /\ \A t \in Threads : pc[t] = "build" => t \notin built
  /\ built = {} => DOMAIN retrieval = {}

(* While one manager was built, its index has every text a search found.   *)
Single == ~ UseHybrid /\ \A m, n \in built : m = n

Indexed ==
  /\ SourcesKnown
  /\ \A m \in built, s \in DOMAIN retrieval : ToSet(retrieval[s]) \subseteq index[m]
  /\ \A t \in Threads : pc[t] = "rset" => ToSet(req[t].texts) \subseteq index[req[t].manager]
-----------------------------------------------------------------------------
(* A rewritten answer is the answer but for the sources it names.          *)
LEMMA RewriteTyped ==
  ASSUME NEW answer \in Answer, NEW s \in Source
  PROVE  /\ Rewrite(answer, s) \in Answer
         /\ [Rewrite(answer, s) EXCEPT !.cites = <<>>] = [answer EXCEPT !.cites = <<>>]
<1> DEFINE all == [i \in DOMAIN answer.cites |-> s]
<1>1. all \in Seq(Source)
  <2>1. answer.cites \in Seq(Source)
    BY DEF Answer
  <2>2. all = [i \in 1 .. Len(answer.cites) |-> s] /\ Len(answer.cites) \in Nat
    BY <2>1
  <2> QED BY <2>2, SeqDef
<1>2. Rewrite(answer, s) = [answer EXCEPT !.cites = all]
  BY DEF Rewrite
<1> HIDE DEF all
<1> QED BY <1>1, <1>2 DEF Answer

(* _finalize: whatever the model wrote, what leaves it went through every  *)
(* check, as the answer and with the contexts it leaves with.              *)
LEMMA FinalizeSound ==
  ASSUME NEW draft \in Answer, NEW found \in ContextLists, NEW spec \in Specs
  PROVE  LET r == Finalize(draft, found, spec) IN
         Checked(r) /\ ~ r.blocked /\ r.by = spec
<1> DEFINE answer   == IF Leaks(draft) THEN Refusal ELSE draft
           contexts == IF Leaks(draft) THEN <<>> ELSE found
           audit    == Audit(answer, contexts)
           served   == IF audit.verdict = "corrected" THEN Rewrite(answer, audit.corrected) ELSE answer
           r        == Finalize(draft, found, spec)
<1>1. answer \in Answer /\ ~ Leaks(answer) /\ contexts \in ContextLists
  BY AgentConstants DEF ContextLists
<1>2. r = Result(served, contexts, audit, Grounded(served, contexts), FALSE, spec)
  BY DEF Finalize
<1> HIDE DEF answer, contexts, r
<1>3. served \in Answer /\ [served EXCEPT !.cites = <<>>] = [answer EXCEPT !.cites = <<>>]
  <2>1. CASE audit.verdict = "corrected"
    <3>1. audit.corrected \in Source
      BY <1>1, <2>1, AuditVerdicts, SupportIsRetrieved, RetrievedTyped DEF ContextLists
    <3>2. served = Rewrite(answer, audit.corrected)
      BY <2>1
    <3> HIDE DEF audit, served
    <3> QED BY <1>1, <3>1, <3>2, RewriteTyped
  <2>2. CASE audit.verdict # "corrected"
    BY <1>1, <2>2
  <2> QED BY <2>1, <2>2
<1>4. ~ Leaks([served EXCEPT !.cites = <<>>])
  BY <1>1, <1>3, LeakIsInTheWords
<1>5. ASSUME audit.verdict \notin {"invented", "unsupported", "corrected"}, Grounded(served, contexts)
      PROVE  /\ served.abstains \/ contexts # <<>>
             /\ served.cites = <<>> \/ \E s \in ToSet(served.cites) : Supports(served, contexts, s)
             /\ audit.corrected = Unknown
  <2>1. served = answer /\ audit.corrected = Unknown
    BY <1>5, AuditVerdicts
  <2>2. ToSet(answer.cites) = {} \/ \E s \in ToSet(answer.cites) : Supports(answer, contexts, s)
    BY <1>5, AuditVerdicts
  <2>3. ToSet(answer.cites) = {} => answer.cites = <<>>
    <3>1. answer.cites \in Seq(Source)
      BY <1>1 DEF Answer
    <3>2. ToSet(answer.cites) = {} => DOMAIN answer.cites = {}
      BY DEF ToSet
    <3>3. \A c \in Seq(Source) : DOMAIN c = {} => c = <<>>
      OBVIOUS
    <3> HIDE DEF answer
    <3> QED BY <3>1, <3>2, <3>3
  <2>4. answer.abstains \/ contexts # <<>>
    BY <1>5, <2>1 DEF Grounded
  <2> HIDE DEF audit, served
  <2> QED BY <2>1, <2>2, <2>3, <2>4
<1> HIDE DEF audit, served
<1>6. /\ r.answer = served /\ r.contexts = contexts /\ r.audit = audit
      /\ r.grounded = Grounded(served, contexts) /\ r.blocked = FALSE /\ r.by = spec
      /\ DOMAIN r = {"answer", "contexts", "audit", "grounded", "blocked", "by"}
  BY <1>2 DEF Result
<1>7. ResultOK(r)
  <2>1. Grounded(served, contexts) \in BOOLEAN
    BY <1>1, <1>3 DEF Grounded, Answer
  <2> QED BY <1>3, <1>6, <2>1, AgentConstants DEF ResultOK
<1>8. Warning(r) = "none" => Grounded(served, contexts)
                             /\ audit.verdict \notin {"invented", "unsupported", "corrected"}
  BY <1>6 DEF Warning
<1>9. Checked(r)
  BY <1>4, <1>5, <1>6, <1>7, <1>8 DEF Checked
<1> QED BY <1>6, <1>9 DEF r

(* A refused question gets the fixed refusal, which says nothing.          *)
LEMMA BlockedSound == Checked(Blocked) /\ Blocked.blocked
<1>1. /\ Blocked.answer = Refusal /\ Blocked.blocked /\ Blocked.grounded /\ Blocked.by = None
      /\ DOMAIN Blocked = {"answer", "contexts", "audit", "grounded", "blocked", "by"}
  BY DEF Blocked, Result
<1>2. ResultOK(Blocked)
  BY <1>1, AgentConstants DEF ResultOK, Blocked, Result
<1>3. Warning(Blocked) = "blocked"
  BY <1>1 DEF Warning
<1>4. ~ Leaks([Refusal EXCEPT !.cites = <<>>])
  BY AgentConstants, LeakIsInTheWords
<1> QED BY <1>1, <1>2, <1>3, <1>4 DEF Checked
-----------------------------------------------------------------------------
(* The locals of a request that starts, and of no request.                 *)
LEMMA FreshTyped ==
  ASSUME NEW q \in Questions \cup {None}, NEW s \in Specs \cup {None}, NEW b \in BOOLEAN
  PROVE  Fresh(q, s, b) \in Locals /\ Fresh(q, s, b).spec = s /\ Fresh(q, s, b).contexts = <<>>
BY AgentConstants DEF Fresh, Locals, ContextLists

(* A finished request is a request.                                        *)
LEMMA GoneTyped == Gone \in Locals /\ Gone.contexts = <<>>
BY FreshTyped DEF Gone

(* One thread moves: it has what it needs where it arrives, and no manager *)
(* the others use is taken away.                                           *)
LEMMA OneMoves ==
  ASSUME Requests, NEW t \in Threads, NEW to \in Labels, NEW new \in Locals,
         pc' = [pc EXCEPT ![t] = to], req' = [req EXCEPT ![t] = new], built \subseteq built',
         IF to = "idle" THEN new = Gone ELSE new.spec \in Specs,
         to \in {"build", "rget", "query", "rset"} => new.search \in Searches,
         to \in {"rget", "query", "rset"} => new.manager \in built'
  PROVE  Requests'
<1>1. pc' \in [Threads -> Labels] /\ req' \in [Threads -> Locals]
  BY DEF Requests
<1>2. ASSUME NEW u \in Threads PROVE RequestOK(u)'
  <2>1. CASE u = t
    <3>1. pc'[u] = to /\ req'[u] = new
      BY <2>1 DEF Requests
    <3> QED BY <3>1 DEF RequestOK
  <2>2. CASE u # t
    <3>1. pc'[u] = pc[u] /\ req'[u] = req[u] /\ RequestOK(u)
      BY <2>2 DEF Requests
    <3> QED BY <3>1 DEF RequestOK
  <2> QED BY <2>1, <2>2
<1> QED BY <1>1, <1>2 DEF Requests

(* A request that is over leaves its thread idle.                          *)
LEMMA RespondRequests ==
  ASSUME Requests, NEW t \in Threads, pc' = [pc EXCEPT ![t] = "idle"],
         req' = [req EXCEPT ![t] = Gone], built' = built
  PROVE  Requests'
<1>1. "idle" \in Labels
  BY DEF Labels
<1> QED BY <1>1, GoneTyped, OneMoves

(* The chunks a search found, tagged, are a context.                       *)
LEMMA TaggedTyped ==
  ASSUME NEW m, NEW texts \in Seq(Passages)
  PROVE  [i \in DOMAIN texts |-> SourceTag(m, texts[i])] \in Seq(Passage)
<1> DEFINE tagged == [i \in DOMAIN texts |-> SourceTag(m, texts[i])]
<1>1. ASSUME NEW p \in Passages PROVE SourceTag(m, p) \in Passage
  <2>1. p \in Passage
    BY AgentConstants
  <2> QED BY <2>1, GuardrailConstants DEF SourceTag, Passage
<1>2. \A i \in DOMAIN texts : SourceTag(m, texts[i]) \in Passage
  BY <1>1, ElementOfSeq
<1>3. tagged \in [1 .. Len(texts) -> Passage] /\ Len(texts) \in Nat
  BY <1>2
<1> QED BY <1>3, SeqDef

(* What the tool returns is added to the contexts, and the search is over. *)
LEMMA FoundTyped ==
  ASSUME Requests, NEW t \in Threads, NEW texts \in Seq(Passages), Found(t, texts)
  PROVE  LET tagged == [i \in DOMAIN texts |-> SourceTag(req[t].manager, texts[i])]
             new    == req'[t] IN
         /\ req' = [req EXCEPT ![t] = new] /\ new \in Locals /\ new.spec = req[t].spec
         /\ new.contexts = Append(req[t].contexts, tagged)
<1> DEFINE tagged == [i \in DOMAIN texts |-> SourceTag(req[t].manager, texts[i])]
           new    == [req[t] EXCEPT !.contexts = Append(@, tagged), !.texts = <<>>,
                                    !.search = None, !.manager = None]
<1>1. tagged \in Seq(Passage)
  BY TaggedTyped
<1>2. req[t] \in Locals
  BY DEF Requests
<1>3. req' = [req EXCEPT ![t] = new]
  <2>1. req' = [req EXCEPT ![t].contexts = Append(@, tagged),
                           ![t].texts = <<>>, ![t].search = None, ![t].manager = None]
    BY DEF Found
  <2> HIDE DEF tagged
  <2> QED BY <2>1 DEF Requests, Locals
<1> HIDE DEF tagged
<1>4. new \in Locals /\ new.spec = req[t].spec /\ new.contexts = Append(req[t].contexts, tagged)
  <2>1. Append(req[t].contexts, tagged) \in ContextLists
    BY <1>1, <1>2, AppendProperties DEF Locals, ContextLists
  <2>2. ASSUME NEW c \in ContextLists, NEW e \in Seq(Passages)
        PROVE  LET n == [req[t] EXCEPT !.contexts = c, !.texts = e, !.search = None,
                                       !.manager = None] IN
               n \in Locals /\ n.spec = req[t].spec /\ n.contexts = c
    BY <1>2 DEF Locals
  <2>3. <<>> \in Seq(Passages)
    OBVIOUS
  <2> QED BY <2>1, <2>2, <2>3
<1> HIDE DEF new
<1>5. req'[t] = new
  BY <1>3 DEF Requests
<1> QED BY <1>3, <1>4, <1>5 DEF tagged

(* Every step keeps the requests well-formed: no thread goes where it      *)
(* lacks what the code there uses.                                         *)
LEMMA StepRequests ==
  ASSUME Requests, Stores, [Next]_vars
  PROVE  Requests'
<1> USE DEF shared, stores, Goto
<1>0. /\ Labels = {"idle", "lookup", "screen", "think", "build", "rget", "query", "rset"}
      /\ \A u \in Threads : pc[u] \in Labels /\ req[u] \in Locals
      /\ \A u \in Threads : pc[u] # "idle" => req[u].spec \in Specs
  BY DEF Requests, RequestOK, Labels
<1>1. ASSUME NEW t \in Threads, NEW result, Finish(t, result), built' = built PROVE Requests'
  BY <1>1, RespondRequests DEF Finish, Respond
<1>2. ASSUME NEW t \in Threads, Screen(t), pc[t] # "idle" PROVE Requests'
  <2>1. CASE Goto(t, pc[t], "think") /\ UNCHANGED req
    <3>1. req' = [req EXCEPT ![t] = req[t]] /\ built' = built
      BY <1>2, <2>1 DEF Requests, Screen
    <3> QED BY <1>0, <1>2, <2>1, <3>1, OneMoves
  <2>2. CASE Finish(t, Blocked)
    BY <1>1, <1>2, <2>2 DEF Screen
  <2> QED BY <1>2, <2>1, <2>2 DEF Screen
<1>3. ASSUME NEW t \in Threads, LookupAnswer(t) PROVE Requests'
  BY <1>2, <1>3, RespondRequests DEF LookupAnswer, Respond
<1>4. ASSUME NEW t \in Threads, ScreenStream(t) PROVE Requests'
  BY <1>2, <1>4 DEF ScreenStream
<1>5. ASSUME NEW t \in Threads, CallCalculator(t) PROVE Requests'
  <2> DEFINE new == [req[t] EXCEPT !.steps = req[t].steps + 1]
  <2>1. new \in Locals /\ new.spec = req[t].spec
    BY <1>0, <1>5, AgentConstants DEF CallCalculator, Locals
  <2>2. req' = [req EXCEPT ![t] = new] /\ pc' = [pc EXCEPT ![t] = "think"] /\ built' = built
    BY <1>5 DEF CallCalculator, Requests
  <2> HIDE DEF new
  <2> QED BY <1>0, <1>5, <2>1, <2>2, OneMoves DEF CallCalculator
<1>6. ASSUME NEW t \in Threads, NEW s \in Searches, CallSearch(t, s) PROVE Requests'
  <2> DEFINE new == [req[t] EXCEPT !.search = s, !.manager = manager, !.steps = req[t].steps + 1]
             to  == IF manager = None THEN "build" ELSE "rget"
  <2>1. new \in Locals /\ new.spec = req[t].spec /\ new.search = s /\ new.manager = manager
    <3>1. manager \in Threads \cup {None}
      BY DEF Stores
    <3>2. req[t].steps + 1 \in 0 .. MaxSteps
      BY <1>0, <1>6, AgentConstants DEF CallSearch, Locals
    <3> QED BY <1>0, <3>1, <3>2 DEF Locals
  <2>2. pc' = [pc EXCEPT ![t] = to] /\ built' = built /\ pc[t] = "think" /\ pc[t] \in Labels
    BY <1>0, <1>6 DEF CallSearch
  <2>3. req' = [req EXCEPT ![t] = new]
    BY <1>6 DEF CallSearch, Requests, Locals
  <2>4. to \in Labels /\ (to = "rget" => manager \in built) /\ to \in {"build", "rget"}
    BY <1>0 DEF Stores
  <2>5. new.spec \in Specs
    BY <1>0, <2>1, <2>2
  <2> HIDE DEF new, to
  <2> QED BY <2>1, <2>2, <2>3, <2>4, <2>5, OneMoves
<1>7. ASSUME NEW t \in Threads, FinalAnswer(t) PROVE Requests'
  BY <1>1, <1>7 DEF FinalAnswer, Conclude
<1>8. ASSUME NEW t \in Threads, OutOfSteps(t) PROVE Requests'
  BY <1>1, <1>8 DEF OutOfSteps, Conclude
<1>9. ASSUME NEW t \in Threads, BuildManager(t) PROVE Requests'
  <2> DEFINE new == [req[t] EXCEPT !.manager = t]
  <2>1. new \in Locals /\ new.spec = req[t].spec /\ new.manager = t /\ new.search = req[t].search
    BY <1>0 DEF Locals
  <2>2. req' = [req EXCEPT ![t] = new] /\ built' = built \cup {t}
        /\ pc[t] = "build" /\ pc' = [pc EXCEPT ![t] = "rget"]
    BY <1>9 DEF BuildManager, Requests
  <2>3. req[t].search \in Searches
    BY <2>2 DEF Requests, RequestOK
  <2> HIDE DEF new
  <2> QED BY <1>0, <2>1, <2>2, <2>3, OneMoves
<1>10. ASSUME NEW t \in Threads, LookupRetrieval(t) PROVE Requests'
  <2> DEFINE s == req[t].search
  <2>1. pc[t] = "rget" /\ s \in Searches /\ req[t].manager \in built /\ built' = built
    BY <1>10 DEF LookupRetrieval, Requests, RequestOK
  <2>2. CASE s \in DOMAIN retrieval
    <3>1. Found(t, retrieval[s]) /\ retrieval[s] \in Seq(Passages) /\ pc' = [pc EXCEPT ![t] = "think"]
      BY <1>10, <2>2 DEF LookupRetrieval, Stores
    <3>2. req' = [req EXCEPT ![t] = req'[t]] /\ req'[t] \in Locals /\ req'[t].spec = req[t].spec
      BY <3>1, FoundTyped
    <3> HIDE DEF s
    <3> QED BY <1>0, <2>1, <3>1, <3>2, OneMoves
  <2>3. CASE s \notin DOMAIN retrieval
    <3>1. req' = [req EXCEPT ![t] = req[t]] /\ pc' = [pc EXCEPT ![t] = "query"]
      BY <1>10, <2>3 DEF LookupRetrieval, Requests
    <3> QED BY <1>0, <2>1, <3>1, OneMoves
  <2> QED BY <2>2, <2>3
<1>11. ASSUME NEW t \in Threads, QueryVectors(t) PROVE Requests'
  <2>1. PICK hits \in SUBSET Passages :
          \E texts \in SeqOf(IF UseHybrid THEN Passages ELSE hits, TopK) :
             req' = [req EXCEPT ![t].texts = texts]
    BY <1>11 DEF QueryVectors
  <2>2. PICK texts \in SeqOf(IF UseHybrid THEN Passages ELSE hits, TopK) :
          req' = [req EXCEPT ![t].texts = texts]
    BY <2>1
  <2> DEFINE new == [req[t] EXCEPT !.texts = texts]
  <2>3. texts \in Seq(Passages)
    <3>1. PICK n \in 0 .. TopK : texts \in [1 .. n -> IF UseHybrid THEN Passages ELSE hits]
      BY <2>2 DEF SeqOf
    <3>2. n \in Nat /\ texts \in [1 .. n -> Passages]
      BY <3>1
    <3> QED BY <3>2, SeqDef
  <2>4. /\ new \in Locals /\ new.spec = req[t].spec
        /\ new.manager = req[t].manager /\ new.search = req[t].search
    BY <1>0, <2>3 DEF Locals
  <2>5. req' = [req EXCEPT ![t] = new]
    BY <2>2 DEF Requests
  <2>6. pc[t] = "query" /\ pc' = [pc EXCEPT ![t] = "rset"] /\ built' = built
        /\ req[t].search \in Searches /\ req[t].manager \in built
    BY <1>11 DEF QueryVectors, Requests, RequestOK
  <2> HIDE DEF new
  <2> QED BY <1>0, <2>4, <2>5, <2>6, OneMoves
<1>12. ASSUME NEW t \in Threads, StoreRetrieval(t) PROVE Requests'
  <2>1. Found(t, req[t].texts) /\ req[t].texts \in Seq(Passages) /\ built' = built
        /\ pc[t] = "rset" /\ pc' = [pc EXCEPT ![t] = "think"]
    BY <1>0, <1>12 DEF StoreRetrieval, Locals
  <2>2. req' = [req EXCEPT ![t] = req'[t]] /\ req'[t] \in Locals /\ req'[t].spec = req[t].spec
    BY <2>1, FoundTyped
  <2> QED BY <1>0, <2>1, <2>2, OneMoves
<1>13. ASSUME NEW t \in Threads, Abandon(t) PROVE Requests'
  BY <1>13, RespondRequests DEF Abandon
<1>14. ASSUME NEW t \in Threads, NEW q \in Questions, NEW b \in BOOLEAN, Ask(t, q, b) PROVE Requests'
  <2> DEFINE s  == IF champion = None THEN Configured ELSE champion
             to == IF b THEN "screen" ELSE "lookup"
  <2>1. s \in Specs
    BY AgentConstants DEF Stores
  <2>2. req' = [req EXCEPT ![t] = Fresh(q, s, b)] /\ pc' = [pc EXCEPT ![t] = to] /\ built' = built
    BY <1>14 DEF Ask
  <2>3. to \in {"screen", "lookup"}
    OBVIOUS
  <2> HIDE DEF s, to
  <2>4. Fresh(q, s, b) \in Locals /\ Fresh(q, s, b).spec = s
    BY <2>1, FreshTyped
  <2> QED BY <1>0, <2>1, <2>2, <2>3, <2>4, OneMoves
<1>15. ASSUME pc' = pc, req' = req, built' = built PROVE Requests'
  BY <1>15 DEF Requests, RequestOK
<1>16. CASE Next
  BY <1>3, <1>4, <1>5, <1>6, <1>7, <1>8, <1>9, <1>10, <1>11, <1>12, <1>13, <1>14, <1>15, <1>16
     DEF Next, ThreadStep, Promote, ForgetAnswer, ForgetRetrieval
<1>17. CASE UNCHANGED vars
  BY <1>15, <1>17 DEF vars
<1> QED BY <1>16, <1>17

(* ... and the stores, the champion and the managers.                      *)
LEMMA StepStores ==
  ASSUME Requests, Stores, [Next]_vars
  PROVE  Stores'
<1> USE DEF shared, stores
<1>1. ASSUME NEW t \in Threads, BuildManager(t) PROVE Stores'
  <2>1. t # None
    BY AgentConstants
  <2> QED BY <1>1, <2>1 DEF BuildManager, Stores
<1>2. ASSUME NEW t \in Threads, QueryVectors(t) PROVE Stores'
  <2>1. PICK hits \in SUBSET Passages : Remember(req[t].manager, hits)
    BY <1>2 DEF QueryVectors
  <2>2. index' \in [Threads -> SUBSET Passages]
    BY <2>1 DEF Remember, Stores
  <2> QED BY <1>2, <2>2 DEF QueryVectors, Stores
<1>3. ASSUME NEW t \in Threads, StoreRetrieval(t) PROVE Stores'
  <2>1. req[t].search \in Searches /\ req[t].texts \in Seq(Passages)
    BY <1>3 DEF StoreRetrieval, Goto, Requests, RequestOK, Locals
  <2>2. \A s \in DOMAIN retrieval' : s \in Searches /\ retrieval'[s] \in Seq(Passages)
    BY <1>3, <2>1 DEF StoreRetrieval, Stores
  <2> QED BY <1>3, <2>2 DEF StoreRetrieval, Stores
<1>4. ASSUME NEW s \in Specs, Promote(s) PROVE Stores'
  BY <1>4, AgentConstants DEF Promote, Stores
<1>5. CASE ForgetRetrieval
  BY <1>5 DEF ForgetRetrieval, Restrict, Stores
<1>6. ASSUME UNCHANGED <<champion, promotions, built, index, manager, retrieval>> PROVE Stores'
  BY <1>6 DEF Stores
<1>7. ASSUME NEW t \in Threads, ThreadStep(t), ~ BuildManager(t), ~ QueryVectors(t), ~ StoreRetrieval(t)
      PROVE  UNCHANGED <<champion, promotions, built, index, manager, retrieval>>
  BY <1>7 DEF ThreadStep, LookupAnswer, ScreenStream, Screen, CallCalculator, CallSearch, FinalAnswer,
     OutOfSteps, Conclude, LookupRetrieval, Abandon
<1>8. CASE Next
  BY <1>1, <1>2, <1>3, <1>4, <1>5, <1>6, <1>7, <1>8 DEF Next, Ask, ForgetAnswer
<1>9. CASE UNCHANGED vars
  BY <1>6, <1>9 DEF vars
<1> QED BY <1>8, <1>9
-----------------------------------------------------------------------------
(* What goes out when nothing is cached, or what was cached stays.         *)
LEMMA SendsServed ==
  ASSUME Served, answers' = answers, NEW result, Checked(result), NEW to,
         sent' = None \/ sent' = [to |-> to, result |-> result],
         result.blocked \/ ModelId[result.by] = ModelId[to]
  PROVE  Served'
BY DEF Served, Held, BoundToModel

(* The end of a run: the result is checked, and cached, if it is, under    *)
(* the model that wrote it, whatever else the cache drops for it.          *)
LEMMA FinishServed ==
  ASSUME Served, NEW t \in Threads, NEW result, Checked(result), Finish(t, result),
         result.blocked \/ result.by = req[t].spec
  PROVE  Served'
<1>1. sent' = [to |-> req[t].spec, result |-> result]
  BY DEF Finish, Respond
<1>2. CASE answers' = answers
  BY <1>1, <1>2, SendsServed
<1>3. CASE ~ result.blocked /\ Cache(AnswerKey(req[t]), result)
  <2> DEFINE key == AnswerKey(req[t])
  <2>1. key[1] = ModelId[req[t].spec]
    BY DEF AnswerKey
  <2>2. PICK kept \in SUBSET (DOMAIN answers \ {key}) :
          answers' = [k \in kept \cup {key} |-> IF k = key THEN result ELSE answers[k]]
    BY <1>3 DEF Cache
  <2> HIDE DEF key
  <2>3. \A k \in DOMAIN answers' : IF k = key THEN answers'[k] = result
                                  ELSE k \in DOMAIN answers /\ answers'[k] = answers[k]
    BY <2>2
  <2>4. \A k \in DOMAIN answers' : ~ answers'[k].blocked /\ ModelId[answers'[k].by] = k[1]
    BY <1>3, <2>1, <2>3 DEF Served
  <2>5. \A r \in Held' : r \in Held \/ r = result
    BY <1>1, <2>3 DEF Held
  <2> QED BY <1>1, <2>4, <2>5 DEF Served, BoundToModel
<1>4. answers' = answers \/ (~ result.blocked /\ Cache(AnswerKey(req[t]), result))
  BY DEF Finish
<1> QED BY <1>2, <1>3, <1>4

(* Nothing unchecked is cached or sent by any step.                        *)
LEMMA StepServed ==
  ASSUME Requests, Stores, Served, [Next]_vars
  PROVE  Served'
<1> USE DEF shared, stores, Goto
<1>1. ASSUME answers' = answers, sent' = None PROVE Served'
  BY <1>1 DEF Served, Held, BoundToModel
<1>2. ASSUME NEW t \in Threads, Screen(t) PROVE Served'
  <2>1. CASE Finish(t, Blocked)
    BY <2>1, BlockedSound, FinishServed
  <2>2. CASE Goto(t, pc[t], "think") /\ UNCHANGED answers
    BY <1>1, <2>2
  <2> QED BY <1>2, <2>1, <2>2 DEF Screen
<1>3. ASSUME NEW t \in Threads, LookupAnswer(t) PROVE Served'
  <2> DEFINE key == AnswerKey(req[t])
  <2>1. CASE key \in DOMAIN answers
    <3>1. answers' = answers /\ sent' = [to |-> req[t].spec, result |-> answers[key]]
      BY <1>3, <2>1 DEF LookupAnswer, Respond
    <3>2. Checked(answers[key]) /\ ModelId[answers[key].by] = key[1]
      BY <2>1 DEF Served, Held
    <3>3. key[1] = ModelId[req[t].spec]
      BY DEF AnswerKey
    <3> HIDE DEF key
    <3> QED BY <3>1, <3>2, <3>3, SendsServed
  <2>2. CASE key \notin DOMAIN answers
    BY <1>2, <1>3, <2>2 DEF LookupAnswer
  <2> QED BY <2>1, <2>2
<1>4. ASSUME NEW t \in Threads, NEW draft \in Answer, Conclude(t, draft) PROVE Served'
  <2>1. req[t].contexts \in ContextLists /\ req[t].spec \in Specs
    BY <1>4 DEF Conclude, Requests, RequestOK, Locals
  <2> QED BY <1>4, <2>1, FinalizeSound, FinishServed DEF Conclude
<1>5. ASSUME NEW t \in Threads, FinalAnswer(t) PROVE Served'
  BY <1>4, <1>5, AgentConstants DEF FinalAnswer
<1>6. ASSUME NEW t \in Threads, OutOfSteps(t) PROVE Served'
  BY <1>4, <1>6, AgentConstants DEF OutOfSteps
<1>7. CASE ForgetAnswer
  <2>1. \A k \in DOMAIN answers' : k \in DOMAIN answers /\ answers'[k] = answers[k]
    BY <1>7 DEF ForgetAnswer, Restrict
  <2> QED BY <1>7, <2>1 DEF ForgetAnswer, Served, Held, BoundToModel
<1>8. ASSUME NEW t \in Threads, ThreadStep(t) PROVE Served'
  <2>1. CASE \/ CallCalculator(t) \/ (\E s \in Searches : CallSearch(t, s)) \/ BuildManager(t)
             \/ LookupRetrieval(t) \/ QueryVectors(t) \/ StoreRetrieval(t) \/ Abandon(t)
    BY <1>1, <2>1 DEF CallCalculator, CallSearch, BuildManager, LookupRetrieval, QueryVectors,
       StoreRetrieval, Abandon
  <2> QED BY <1>2, <1>3, <1>5, <1>6, <1>8, <2>1 DEF ThreadStep, ScreenStream
<1>9. CASE Next
  BY <1>1, <1>7, <1>8, <1>9 DEF Next, Ask, Promote, ForgetRetrieval
<1>10. CASE UNCHANGED vars
  BY <1>10 DEF vars, Served, Held, BoundToModel
<1> QED BY <1>9, <1>10

(* All of it holds initially.                                              *)
LEMMA InitServed == Init => Requests /\ Stores /\ Served
<1> SUFFICES ASSUME Init PROVE Requests /\ Stores /\ Served
  OBVIOUS
<1>1. Requests
  <2>1. "idle" \in Labels
    BY DEF Labels
  <2> QED BY <2>1, GoneTyped DEF Init, Requests, RequestOK
<1>2. Stores
  BY AgentConstants DEF Init, Stores
<1>3. Served
  BY DEF Init, Served, Held, BoundToModel
<1> QED BY <1>1, <1>2, <1>3

(* The inductive invariant of what is served, in every reachable state.    *)
LEMMA ServedAlways == Spec => [](Requests /\ Stores /\ Served)
<1>1. Requests /\ Stores /\ Served /\ [Next]_vars => (Requests /\ Stores /\ Served)'
  BY StepRequests, StepStores, StepServed
<1> QED BY <1>1, InitServed, PTL DEF Spec

(* Every thread is where the code has a line for it, its locals and the    *)
(* stores hold what the code puts there, and a result that is cached or    *)
(* sent is well-formed.                                                    *)
THEOREM AgentTypes == Spec => []TypeOK
<1>1. Requests /\ Stores /\ Served => TypeOK
  <2> SUFFICES ASSUME Requests, Stores, Served PROVE TypeOK
    OBVIOUS
  <2>1. \A s \in DOMAIN retrieval : s \in Searches /\ ToSet(retrieval[s]) \subseteq Passages
    <3> SUFFICES ASSUME NEW s \in DOMAIN retrieval, NEW i \in DOMAIN retrieval[s]
                 PROVE  s \in Searches /\ retrieval[s][i] \in Passages
      BY DEF ToSet, Stores
    <3> QED BY ElementOfSeq DEF Stores
  <2>2. \A t \in Threads : req[t].steps \in 0 .. MaxSteps /\ (pc[t] = "idle") = (req[t] = Gone)
    <3>1. Gone.spec = None
      BY DEF Gone, Fresh
    <3> QED BY <3>1, AgentConstants DEF Requests, RequestOK, Locals
  <2>3. manager \in Threads \cup {None}
    BY DEF Stores
  <2> QED BY <2>1, <2>2, <2>3 DEF TypeOK, Requests, Stores, Served, Checked, Labels
<1> QED BY <1>1, ServedAlways, PTL

(* Whatever a benchmark promotes while requests run, and whatever the      *)
(* cache drops or keeps, an answer that goes out was written by the model  *)
(* the request was made with, or one with the same id.                     *)
THEOREM AnswersOfTheirModel == Spec => []BoundToModel
BY ServedAlways, PTL DEF Served

(* The leak filter has no way around it: not the cache, not a correction   *)
(* of the citation after it ran, not the two answers no model wrote.       *)
THEOREM NothingLeaks == Spec => []NothingLeaked
<1>1. Served => NothingLeaked
  BY DEF Served, Checked, NothingLeaked
<1> QED BY <1>1, ServedAlways, PTL

(* The grounding verdict that goes out is the one of the answer and the    *)
(* contexts it goes out with.                                              *)
THEOREM VerdictsAreTheirs == Spec => []VerdictIsOfAnswer
<1>1. Served => VerdictIsOfAnswer
  BY DEF Served, Checked, VerdictIsOfAnswer
<1> QED BY <1>1, ServedAlways, PTL

(* No warning means what a reader takes it for.                            *)
THEOREM SilenceIsSupport == Spec => []SilenceMeansSupported
<1>1. Served => SilenceMeansSupported
  BY DEF Served, Checked, SilenceMeansSupported
<1> QED BY <1>1, ServedAlways, PTL
-----------------------------------------------------------------------------
(* A context every chunk of which has a source.                            *)
LEMMA TaggedKnown ==
  ASSUME NEW m \in Threads, NEW texts \in Seq(Passages), ToSet(texts) \subseteq index[m]
  PROVE  LET tagged == [i \in DOMAIN texts |-> SourceTag(m, texts[i])] IN
         Unknown \notin {tagged[i].source : i \in DOMAIN tagged}
<1> SUFFICES ASSUME NEW i \in DOMAIN texts PROVE SourceTag(m, texts[i]).source # Unknown
  OBVIOUS
<1>1. texts[i] \in Passages /\ texts[i] \in index[m]
  BY ElementOfSeq DEF ToSet
<1>2. SourceTag(m, texts[i]) = texts[i]
  BY <1>1 DEF SourceTag
<1> QED BY <1>1, <1>2, AgentConstants

(* A search found what the index knows: the contexts stay known.           *)
LEMMA FoundKnown ==
  ASSUME Requests, SourcesKnown, NEW t \in Threads, NEW texts \in Seq(Passages), Found(t, texts),
         req[t].manager \in Threads, ToSet(texts) \subseteq index[req[t].manager]
  PROVE  SourcesKnown'
<1> DEFINE tagged == [i \in DOMAIN texts |-> SourceTag(req[t].manager, texts[i])]
<1>1. req' = [req EXCEPT ![t] = req'[t]] /\ req'[t].contexts = Append(req[t].contexts, tagged)
  BY FoundTyped
<1>2. req[t].contexts \in Seq(Seq(Passage)) /\ tagged \in Seq(Passage)
  BY TaggedTyped DEF Requests, Locals, ContextLists
<1>3. Unknown \notin {tagged[i].source : i \in DOMAIN tagged}
  BY TaggedKnown
<1> HIDE DEF tagged
<1>4. ToSet(req'[t].contexts) \subseteq ToSet(req[t].contexts) \cup {tagged}
  BY <1>1, <1>2, AppendProperties DEF ToSet
<1>5. \A u \in Threads : u # t => req'[u] = req[u]
  BY <1>1 DEF Requests
<1> QED BY <1>3, <1>4, <1>5 DEF SourcesKnown

(* A request that starts or ends has no contexts yet.                      *)
LEMMA EmptyKnown ==
  ASSUME Requests, SourcesKnown, NEW t \in Threads, NEW new, new.contexts = <<>>,
         req' = [req EXCEPT ![t] = new]
  PROVE  SourcesKnown'
<1>1. ToSet(new.contexts) = {}
  BY DEF ToSet
<1>2. \A u \in Threads : req'[u] = IF u = t THEN new ELSE req[u]
  BY DEF Requests
<1> QED BY <1>1, <1>2 DEF SourcesKnown

(* The managers, whoever makes, looks up or stores.                        *)
LEMMA StepManagers ==
  ASSUME Requests, Stores, Managers, [Next]_vars
  PROVE  Managers'
<1> USE DEF shared, stores, Goto
<1>0. pc \in [Threads -> Labels]
  BY DEF Requests
<1>1. ASSUME NEW t \in Threads, NEW s, CallSearch(t, s) PROVE Managers'
  <2>1. (manager = None => t \notin built) /\ built' = built /\ retrieval' = retrieval
    BY <1>1 DEF CallSearch, Stores
  <2>2. pc' = [pc EXCEPT ![t] = IF manager = None THEN "build" ELSE "rget"]
    BY <1>1 DEF CallSearch
  <2> QED BY <1>0, <2>1, <2>2 DEF Managers
<1>2. ASSUME NEW t \in Threads, BuildManager(t) PROVE Managers'
  <2>1. IsFiniteSet(built')
    BY <1>2, FS_AddElement DEF BuildManager, Managers
  <2>2. \A u \in Threads : pc'[u] = "build" => u # t /\ pc[u] = "build"
    BY <1>0, <1>2 DEF BuildManager
  <2> QED BY <1>2, <2>1, <2>2 DEF BuildManager, Managers
<1>3. ASSUME NEW t \in Threads, StoreRetrieval(t) PROVE Managers'
  <2>1. req[t].manager \in built
    BY <1>3 DEF StoreRetrieval, Requests, RequestOK
  <2>2. pc' = [pc EXCEPT ![t] = "think"] /\ built' = built
    BY <1>3 DEF StoreRetrieval
  <2> QED BY <1>0, <2>1, <2>2 DEF Managers
<1>4. ASSUME \A u \in Threads : pc'[u] = "build" => pc[u] = "build", built' = built,
             DOMAIN retrieval' \subseteq DOMAIN retrieval
      PROVE  Managers'
  BY <1>4 DEF Managers
<1>5. ASSUME NEW t \in Threads, NEW to \in {"idle", "lookup", "screen", "think", "query", "rset"},
             pc' = [pc EXCEPT ![t] = to], built' = built, retrieval' = retrieval
      PROVE  Managers'
  BY <1>0, <1>4, <1>5
<1>6. ASSUME NEW t \in Threads, ThreadStep(t), ~ BuildManager(t), ~ StoreRetrieval(t),
             ~ \E s \in Searches : CallSearch(t, s)
      PROVE  Managers'
  <2>1. CASE CallCalculator(t)
    BY <1>4, <2>1 DEF CallCalculator
  <2>2. CASE LookupRetrieval(t)
    <3>1. pc' = [pc EXCEPT ![t] = IF req[t].search \in DOMAIN retrieval THEN "think" ELSE "query"]
      BY <2>2 DEF LookupRetrieval
    <3> QED BY <1>5, <2>2, <3>1 DEF LookupRetrieval
  <2>3. CASE LookupAnswer(t) \/ ScreenStream(t) \/ FinalAnswer(t) \/ OutOfSteps(t)
             \/ QueryVectors(t) \/ Abandon(t)
    <3>1. ASSUME NEW result, Respond(t, result), built' = built, retrieval' = retrieval PROVE Managers'
      BY <1>5, <3>1 DEF Respond
    <3>2. ASSUME Screen(t) PROVE Managers'
      BY <1>5, <3>1, <3>2 DEF Screen, Finish
    <3>3. CASE LookupAnswer(t)
      BY <3>1, <3>2, <3>3 DEF LookupAnswer
    <3>4. CASE FinalAnswer(t) \/ OutOfSteps(t)
      BY <3>1, <3>4 DEF FinalAnswer, OutOfSteps, Conclude, Finish
    <3>5. CASE QueryVectors(t) \/ Abandon(t)
      BY <1>5, <3>5 DEF QueryVectors, Abandon
    <3> QED BY <2>3, <3>2, <3>3, <3>4, <3>5 DEF ScreenStream
  <2> QED BY <1>6, <2>1, <2>2, <2>3 DEF ThreadStep
<1>7. CASE Next
  <2>1. ASSUME NEW t \in Threads, NEW q \in Questions, NEW b \in BOOLEAN, Ask(t, q, b) PROVE Managers'
    <3>1. pc' = [pc EXCEPT ![t] = IF b THEN "screen" ELSE "lookup"]
      BY <2>1 DEF Ask
    <3> QED BY <1>5, <2>1, <3>1 DEF Ask
  <2>2. CASE ForgetRetrieval
    BY <1>4, <2>2 DEF ForgetRetrieval, Restrict
  <2>3. CASE ForgetAnswer \/ \E s \in Specs \ {Configured} : Promote(s)
    BY <1>4, <2>3 DEF ForgetAnswer, Promote
  <2> QED BY <1>1, <1>2, <1>3, <1>6, <1>7, <2>1, <2>2, <2>3 DEF Next
<1>8. CASE UNCHANGED vars
  BY <1>4, <1>8 DEF vars
<1> QED BY <1>7, <1>8

(* With one manager, what a search found is in its index when it is stored *)
(* and stays there, and so a cached search is known, too.                  *)
LEMMA StepIndexed ==
  ASSUME Requests, Stores, Managers, Single => Indexed, [Next]_vars, Single'
  PROVE  Indexed'
<1> USE DEF shared, stores, Goto
<1>1. built \subseteq built'
  BY DEF Next, vars, ThreadStep, LookupAnswer, ScreenStream, Screen, CallCalculator, CallSearch,
     FinalAnswer, OutOfSteps, Conclude, BuildManager, LookupRetrieval, QueryVectors, StoreRetrieval,
     Abandon, Ask, Promote, ForgetAnswer, ForgetRetrieval
<1>2. Single /\ Indexed /\ (\A m, n \in built' : m = n) /\ ~ UseHybrid
  BY <1>1 DEF Single
<1>3. pc \in [Threads -> Labels] /\ req \in [Threads -> Locals] /\ built \subseteq Threads
      /\ index \in [Threads -> SUBSET Passages]
  BY DEF Requests, Stores
<1>4. ASSUME SourcesKnown', UNCHANGED <<built, index>>,
             \A s \in DOMAIN retrieval' : s \in DOMAIN retrieval /\ retrieval'[s] = retrieval[s],
             \A u \in Threads : pc'[u] = "rset" => pc[u] = "rset" /\ req'[u] = req[u]
      PROVE  Indexed'
  BY <1>2, <1>4 DEF Indexed
<1>5. ASSUME NEW t \in Threads, pc' = [pc EXCEPT ![t] = "idle"], req' = [req EXCEPT ![t] = Gone],
             UNCHANGED <<built, index, retrieval>>
      PROVE  Indexed'
  <2>1. SourcesKnown'
    BY <1>2, <1>5, GoneTyped, EmptyKnown DEF Indexed
  <2>2. \A u \in Threads : pc'[u] = "rset" => pc[u] = "rset" /\ req'[u] = req[u]
    BY <1>3, <1>5
  <2> QED BY <1>4, <1>5, <2>1, <2>2
<1>6. ASSUME NEW t \in Threads, NEW to \in Labels \ {"rset"}, pc' = [pc EXCEPT ![t] = to],
             \A u \in Threads : req'[u].contexts = req[u].contexts /\ (u # t => req'[u] = req[u]),
             UNCHANGED <<built, index, retrieval>>
      PROVE  Indexed'
  <2>1. SourcesKnown'
    BY <1>2, <1>6 DEF Indexed, SourcesKnown
  <2>2. \A u \in Threads : pc'[u] = "rset" => pc[u] = "rset" /\ req'[u] = req[u]
    BY <1>3, <1>6
  <2> QED BY <1>4, <1>6, <2>1, <2>2
<1>7. ASSUME NEW t \in Threads, Screen(t) PROVE Indexed'
  <2>1. "think" \in Labels \ {"rset"}
    BY DEF Labels
  <2>2. CASE Finish(t, Blocked)
    BY <1>5, <1>7, <2>2 DEF Screen, Finish, Respond
  <2>3. CASE Goto(t, pc[t], "think") /\ UNCHANGED req
    BY <1>6, <1>7, <2>1, <2>3 DEF Screen
  <2> QED BY <1>7, <2>2, <2>3 DEF Screen
<1>8. ASSUME NEW t \in Threads, LookupAnswer(t) PROVE Indexed'
  BY <1>5, <1>7, <1>8 DEF LookupAnswer, Respond
<1>9. ASSUME NEW t \in Threads, FinalAnswer(t) \/ OutOfSteps(t) PROVE Indexed'
  BY <1>5, <1>9 DEF FinalAnswer, OutOfSteps, Conclude, Finish, Respond
<1>10. ASSUME NEW t \in Threads, CallCalculator(t) PROVE Indexed'
  <2>1. \A u \in Threads : req'[u].contexts = req[u].contexts /\ (pc[u] = "rset" => req'[u] = req[u])
    BY <1>3, <1>10 DEF CallCalculator, Locals
  <2>2. SourcesKnown'
    BY <1>2, <2>1 DEF Indexed, SourcesKnown
  <2> QED BY <1>4, <1>10, <2>1, <2>2 DEF CallCalculator
<1>11. ASSUME NEW t \in Threads, NEW s \in Searches, CallSearch(t, s) PROVE Indexed'
  <2> DEFINE to == IF manager = None THEN "build" ELSE "rget"
  <2>1. to \in Labels \ {"rset"} /\ pc' = [pc EXCEPT ![t] = to]
    BY <1>11 DEF CallSearch, Labels
  <2>2. \A u \in Threads : req'[u].contexts = req[u].contexts /\ (u # t => req'[u] = req[u])
    BY <1>3, <1>11 DEF CallSearch, Locals
  <2> HIDE DEF to
  <2> QED BY <1>6, <1>11, <2>1, <2>2 DEF CallSearch
<1>12. ASSUME NEW t \in Threads, BuildManager(t) PROVE Indexed'
  <2>1. t \notin built /\ t \in built' /\ built' = built \cup {t} /\ retrieval' = retrieval
    BY <1>12 DEF BuildManager, Managers
  <2>2. built = {}
    BY <1>2, <2>1
  <2>3. DOMAIN retrieval' = {}
    BY <2>1, <2>2 DEF Managers
  <2>4. \A u \in Threads : pc'[u] # "rset"
    BY <1>3, <1>12, <2>2 DEF BuildManager, Requests, RequestOK
  <2>5. \A u \in Threads : req'[u].contexts = req[u].contexts
    BY <1>3, <1>12 DEF BuildManager, Locals
  <2>6. SourcesKnown'
    BY <1>2, <2>5 DEF Indexed, SourcesKnown
  <2> QED BY <2>3, <2>4, <2>6 DEF Indexed
<1>13. ASSUME NEW t \in Threads, LookupRetrieval(t) PROVE Indexed'
  <2>1. req[t].manager \in built
    BY <1>13 DEF LookupRetrieval, Requests, RequestOK
  <2>2. CASE req[t].search \in DOMAIN retrieval
    <3> DEFINE texts == retrieval[req[t].search]
    <3>1. texts \in Seq(Passages) /\ Found(t, texts) /\ pc' = [pc EXCEPT ![t] = "think"]
      BY <1>13, <2>2 DEF LookupRetrieval, Stores
    <3>2. ToSet(texts) \subseteq index[req[t].manager]
      BY <1>2, <2>1, <2>2 DEF Indexed
    <3> HIDE DEF texts
    <3>3. SourcesKnown' /\ req' = [req EXCEPT ![t] = req'[t]]
      BY <1>2, <1>3, <2>1, <3>1, <3>2, FoundKnown, FoundTyped DEF Indexed
    <3>4. \A u \in Threads : pc'[u] = "rset" => pc[u] = "rset" /\ req'[u] = req[u]
      BY <1>3, <3>1, <3>3
    <3> QED BY <1>4, <1>13, <3>3, <3>4 DEF LookupRetrieval
  <2>3. CASE req[t].search \notin DOMAIN retrieval
    <3>1. "query" \in Labels \ {"rset"} /\ pc' = [pc EXCEPT ![t] = "query"] /\ req' = req
      BY <1>13, <2>3 DEF LookupRetrieval, Labels
    <3> QED BY <1>6, <1>13, <3>1 DEF LookupRetrieval
  <2> QED BY <2>2, <2>3
<1>14. ASSUME NEW t \in Threads, QueryVectors(t) PROVE Indexed'
  <2> DEFINE m == req[t].manager
  <2>1. m \in built /\ pc' = [pc EXCEPT ![t] = "rset"] /\ built' = built /\ retrieval' = retrieval
    BY <1>14 DEF QueryVectors, Requests, RequestOK
  <2>2. PICK hits \in SUBSET Passages :
          /\ index' = [index EXCEPT ![m] = @ \cup hits]
          /\ \E texts \in SeqOf(hits, TopK) : req' = [req EXCEPT ![t].texts = texts]
    BY <1>2, <1>14 DEF QueryVectors, Remember
  <2>3. PICK texts \in SeqOf(hits, TopK) : req' = [req EXCEPT ![t].texts = texts]
    BY <2>2
  <2>4. ToSet(texts) \subseteq hits
    <3>1. PICK n \in 0 .. TopK : texts \in [1 .. n -> hits]
      BY <2>3 DEF SeqOf
    <3> QED BY <3>1 DEF ToSet
  <2>5. /\ \A u \in Threads : req'[u].contexts = req[u].contexts /\ req'[u].manager = req[u].manager
        /\ \A u \in Threads : u # t => req'[u] = req[u]
        /\ req'[t].texts = texts
    BY <1>3, <2>3 DEF Locals
  <2>6. \A u \in Threads : index[u] \subseteq index'[u]
    BY <1>3, <2>2
  <2>7. SourcesKnown'
    BY <1>2, <2>5 DEF Indexed, SourcesKnown
  <2>8. \A n \in built', s \in DOMAIN retrieval' : ToSet(retrieval'[s]) \subseteq index'[n]
    BY <1>2, <1>3, <2>1, <2>6 DEF Indexed
  <2>9. ASSUME NEW u \in Threads, pc'[u] = "rset"
        PROVE  ToSet(req'[u].texts) \subseteq index'[req'[u].manager]
    <3>1. CASE u = t
      <4>1. hits \subseteq index'[m]
        BY <1>3, <2>1, <2>2
      <4> QED BY <2>4, <2>5, <3>1, <4>1
    <3>2. CASE u # t
      <4>1. pc[u] = "rset" /\ req[u].manager \in built /\ req'[u] = req[u]
        BY <1>3, <2>1, <2>5, <2>9, <3>2 DEF Requests, RequestOK
      <4> QED BY <1>2, <1>3, <2>6, <4>1 DEF Indexed
    <3> QED BY <3>1, <3>2
  <2> QED BY <2>7, <2>8, <2>9 DEF Indexed
<1>15. ASSUME NEW t \in Threads, StoreRetrieval(t) PROVE Indexed'
  <2> DEFINE s     == req[t].search
             texts == req[t].texts
  <2>1. /\ req[t].manager \in built /\ Found(t, texts) /\ texts \in Seq(Passages)
        /\ pc[t] = "rset" /\ pc' = [pc EXCEPT ![t] = "think"] /\ UNCHANGED <<built, index>>
        /\ retrieval' = [q \in DOMAIN retrieval \cup {s} |-> IF q = s THEN texts ELSE retrieval[q]]
    BY <1>3, <1>15 DEF StoreRetrieval, Requests, RequestOK, Locals
  <2>2. ToSet(texts) \subseteq index[req[t].manager]
    BY <1>2, <2>1 DEF Indexed
  <2> HIDE DEF s, texts
  <2>3. SourcesKnown' /\ req' = [req EXCEPT ![t] = req'[t]]
    BY <1>2, <1>3, <2>1, <2>2, FoundKnown, FoundTyped DEF Indexed
  <2>4. \A u \in Threads : pc'[u] = "rset" => pc[u] = "rset" /\ req'[u] = req[u]
    BY <1>3, <2>1, <2>3
  <2>5. \A n \in built', q \in DOMAIN retrieval' : ToSet(retrieval'[q]) \subseteq index'[n]
    BY <1>2, <2>1, <2>2 DEF Indexed
  <2> QED BY <1>2, <2>1, <2>3, <2>4, <2>5 DEF Indexed
<1>16. ASSUME NEW t \in Threads, Abandon(t) PROVE Indexed'
  BY <1>5, <1>16 DEF Abandon
<1>17. ASSUME NEW t \in Threads, NEW q \in Questions, NEW b \in BOOLEAN, Ask(t, q, b) PROVE Indexed'
  <2> DEFINE new == Fresh(q, IF champion = None THEN Configured ELSE champion, b)
  <2>1. new.contexts = <<>>
    BY DEF Fresh
  <2>2. req' = [req EXCEPT ![t] = new] /\ pc' = [pc EXCEPT ![t] = IF b THEN "screen" ELSE "lookup"]
    BY <1>17 DEF Ask
  <2> HIDE DEF new
  <2>3. SourcesKnown'
    BY <1>2, <2>1, <2>2, EmptyKnown DEF Indexed
  <2>4. \A u \in Threads : pc'[u] = "rset" => pc[u] = "rset" /\ req'[u] = req[u]
    BY <1>3, <2>2
  <2> QED BY <1>4, <1>17, <2>3, <2>4 DEF Ask
<1>18. ASSUME UNCHANGED <<pc, req, built, index>>,
              \A s \in DOMAIN retrieval' : s \in DOMAIN retrieval /\ retrieval'[s] = retrieval[s]
       PROVE  Indexed'
  <2>1. SourcesKnown'
    BY <1>2, <1>18 DEF Indexed, SourcesKnown
  <2> QED BY <1>4, <1>18, <2>1
<1>19. CASE ForgetRetrieval
  BY <1>18, <1>19 DEF ForgetRetrieval, Restrict
<1>20. CASE Next
  BY <1>7, <1>8, <1>9, <1>10, <1>11, <1>12, <1>13, <1>14, <1>15, <1>16, <1>17, <1>18, <1>19, <1>20
     DEF Next, ThreadStep, ScreenStream, Promote, ForgetAnswer
<1>21. CASE UNCHANGED vars
  BY <1>18, <1>21 DEF vars
<1> QED BY <1>20, <1>21

(* RetrievalEngine's comment on its index is true of a process that made   *)
(* one manager and searches by vectors only: every chunk a model was shown *)
(* has its source, whatever was found in the retrieval cache.              *)
THEOREM SourcesAreKnown == Spec => []SourcesKnownOfOne
<1>1. Init => Managers /\ (Single => Indexed)
  <2>1. Init => SourcesKnown
    BY GoneTyped DEF Init, SourcesKnown, ToSet
  <2> QED BY <2>1, FS_EmptySet DEF Init, Managers, Indexed
<1>2. Requests /\ Stores /\ Managers /\ (Single => Indexed) /\ [Next]_vars
      => (Managers /\ (Single => Indexed))'
  BY StepManagers, StepIndexed
<1>3. Managers /\ (Single => Indexed) => SourcesKnownOfOne
  <2> SUFFICES ASSUME Managers, Single => Indexed, ~ UseHybrid, Cardinality(built) <= 1
               PROVE  SourcesKnown
    BY DEF SourcesKnownOfOne
  <2>1. \A m, n \in built : m = n
    <3>1. IsFiniteSet(built) /\ Cardinality(built) \in Nat
      BY FS_CardinalityType DEF Managers
    <3>2. CASE Cardinality(built) = 0
      BY <3>1, <3>2, FS_EmptySet
    <3>3. CASE Cardinality(built) = 1
      BY <3>1, <3>3, FS_Singleton
    <3> QED BY <3>1, <3>2, <3>3
  <2> QED BY <2>1 DEF Single, Indexed
<1> QED BY <1>1, <1>2, <1>3, ServedAlways, PTL DEF Spec
=============================================================================

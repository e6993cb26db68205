--------------------------- MODULE QualityProofs ---------------------------
(***************************************************************************)
(* Why the quality loop keeps its promises: for any number of voters,      *)
(* traced threads, runs, questions and corrections, in either storage *)
(* mode, with every fault of Feedback, Traces and Quality.                 *)
(***************************************************************************)
EXTENDS Quality, FiniteSetTheorems, TLAPS

Votes ==
  [at : {"idle", "saving", "promoting"}, id : Nat, question : Questions \cup {NoCase},
   down : BOOLEAN, reference : References \cup {NoReference}]

(* A vote in flight has an id of its own, and is promoted if it is a       *)
(* down-vote.                                                              *)
VotesOK ==
  /\ entries \in Nat /\ vote \in [Voters -> Votes]
  /\ \A v \in Voters : vote[v] = NoVote \/
       /\ vote[v].at # "idle" /\ vote[v].id \in 1 .. entries /\ vote[v].question \in Questions
       /\ vote[v].at = "promoting" => vote[v].down
  /\ cases \in [Questions -> References \cup {NoReference, NoCase}]
  /\ torn \in BOOLEAN /\ garbled \in BOOLEAN /\ durable \in BOOLEAN
  /\ durable => ~ torn /\ ~ garbled
  /\ saved \subseteq 1 .. entries
  /\ promised \subseteq Questions /\ standing \subseteq promised

(* A standing correction is in the regression set, and nobody is about to  *)
(* replace it by nothing.                                                  *)
Standing ==
  /\ PromisesKept
  /\ garbled \/ standing \subseteq Corrected
  /\ \A v \in Voters : vote[v].at # "idle" /\ vote[v].down /\ vote[v].reference = NoReference
       => vote[v].question \notin standing

Busy      == {t \in Tracers : tracing[t] # "running"}
Appending == {t \in Tracers : tracing[t] = "append"}

(* What was counted is what ended and what is between the two stores; the  *)
(* piece of a line at the end of the file is the loss still to come.       *)
Counted ==
  /\ tracing \in [Tracers -> {"running", "insert", "append"}] /\ piece \in BOOLEAN
  /\ {rows, lines, ended, fellBack, failures} \subseteq Nat
  /\ IsFiniteSet(Busy) /\ IsFiniteSet(Appending)
  /\ rows <= ended + Cardinality(Appending) /\ lines <= ended
  /\ fellBack <= ended /\ failures <= ended
  /\ rows + lines >= ended - 2 * failures + (IF piece THEN 1 ELSE 0)
  /\ durable => rows >= ended - fellBack - failures

Pipes ==
  [at : {"idle", "reading", "scoring", "gating", "saving", "dumping"},
   mode : {"gate", "set", "compare", "watch"}, asked : SUBSET Questions,
   scores : Outcomes \cup {NoFile}, intent : BOOLEAN]

Verdicts ==
  [verdict : {"none", "saved", "passed", "drifted"}, scores : Outcomes \cup {NoFile},
   against : Readable \cup {NoFile}]

PipesOK ==
  /\ pipe \in [Runners -> Pipes] /\ started \in Nat /\ disturbed \in BOOLEAN
  /\ \A p \in Runners : pipe[p].at \in {"gating", "saving", "dumping"} => pipe[p].scores \in Outcomes
  /\ baseline \in Readable \cup {NoFile, Unreadable} /\ shown \in Readable \cup {NoFile}
  /\ last \in Verdicts
  /\ last.verdict \in {"passed", "drifted"} => last.scores \in Outcomes
  /\ wanted \subseteq Readable /\ owed \in [Runners -> SUBSET Questions]

(* What a pipeline owes still stands, and is asked once it has read.       *)
Owed == CorrectionsAsked /\ \A p \in Runners : owed[p] \subseteq standing

(* Whoever may save was asked to, or found no baseline where there had     *)
(* never been one: what is in the file is what was wanted.                 *)
Wanted ==
  /\ NoCreep
  /\ baseline \in wanted \cup {NoFile, Unreadable} /\ (baseline = NoFile => wanted = {})
  /\ \A p \in Runners : pipe[p].at \in {"saving", "dumping"} => pipe[p].intent
  /\ \A p \in Runners : pipe[p].at = "dumping" => FiniteOnly(pipe[p].scores) \in wanted

(* Undisturbed, one pipeline runs at a time, it is judged by the scores    *)
(* that are shown, and what was saved was said to be.                      *)
Explained ==
  ~ disturbed =>
     /\ \A p, q \in Runners : pipe[p].at # "idle" /\ pipe[q].at # "idle" => p = q
     /\ \A p \in Runners : pipe[p].at = "gating" => shown = FiniteOnly(pipe[p].scores)
     /\ \A p \in Runners : pipe[p].at \in {"saving", "dumping"} => last.verdict = "saved"
     /\ EvalExplainsGate
-----------------------------------------------------------------------------
(* Votes: what a thread is recording, step by step.                        *)
LEMMA StepVotes ==
  ASSUME VotesOK, UNCHANGED durable, NEW v \in Voters, Rate(v) \/ RecordStep(v)
  PROVE  VotesOK'
<1> USE FeedbackConstants
<1>1. NoVote \in Votes /\ NoVote.at = "idle"
  BY DEF NoVote, Votes
<1>2. ASSUME NEW new \in Votes, vote' = [vote EXCEPT ![v] = new], entries' \in Nat, entries <= entries',
             new = NoVote \/ (/\ new.at # "idle" /\ new.id \in 1 .. entries' /\ new.question \in Questions
                              /\ new.at = "promoting" => new.down)
      PROVE  /\ entries' \in Nat /\ vote' \in [Voters -> Votes]
             /\ \A w \in Voters : vote'[w] = NoVote \/
                  /\ vote'[w].at # "idle" /\ vote'[w].id \in 1 .. entries' /\ vote'[w].question \in Questions
                  /\ vote'[w].at = "promoting" => vote'[w].down
  <2>1. vote' \in [Voters -> Votes] /\ \A w \in Voters : vote'[w] = IF w = v THEN new ELSE vote[w]
    BY <1>2 DEF VotesOK
  <2> QED BY <1>2, <2>1 DEF VotesOK
<1>3. vote[v] \in Votes /\ (vote[v].at # "idle" => vote[v].id \in 1 .. entries /\ vote[v].question \in Questions)
  BY <1>1 DEF VotesOK
<1>4. CASE Rate(v)
  <2>1. PICK q \in Questions, down \in BOOLEAN, reference \in References \cup {NoReference} :
          /\ vote' = [vote EXCEPT ![v] = [at |-> "saving", id |-> entries + 1, question |-> q,
                                          down |-> down, reference |-> reference]]
          /\ Withdraw(q, down, reference)
    BY <1>4 DEF Rate
  <2> DEFINE new == [at |-> "saving", id |-> entries + 1, question |-> q, down |-> down,
                     reference |-> reference]
  <2>2. new \in Votes /\ new.at = "saving" /\ new.id = entries + 1 /\ new.question = q
    BY DEF VotesOK, Votes
  <2>3. entries' = entries + 1 /\ entries \in Nat
    BY <1>4 DEF Rate, VotesOK
  <2>4. standing' \subseteq standing
    BY <2>1 DEF Withdraw
  <2> HIDE DEF new
  <2> QED BY <1>2, <1>4, <2>1, <2>2, <2>3, <2>4 DEF Rate, VotesOK, new
<1>5. CASE SaveFeedback(v)
  <2> DEFINE new == IF vote[v].down THEN [vote[v] EXCEPT !.at = "promoting"] ELSE NoVote
  <2>1. new \in Votes /\ (new = NoVote \/ (/\ new.at # "idle" /\ new.id \in 1 .. entries
                                           /\ new.question \in Questions /\ new.down))
    <3>1. vote[v].at = "saving"
      BY <1>5 DEF SaveFeedback
    <3> QED BY <1>1, <1>3, <3>1 DEF Votes
  <2>2. vote' = [vote EXCEPT ![v] = new] /\ entries' = entries /\ entries \in Nat
    BY <1>5 DEF SaveFeedback, VotesOK
  <2>3. saved' \subseteq 1 .. entries
    BY <1>3, <1>5 DEF SaveFeedback, VotesOK
  <2> HIDE DEF new
  <2>4. /\ new = NoVote \/ (/\ new.at # "idle" /\ new.id \in 1 .. entries' /\ new.question \in Questions
                             /\ new.at = "promoting" => new.down)
        /\ entries' \in Nat /\ entries <= entries'
    BY <2>1, <2>2
  <2>5. /\ entries' \in Nat /\ vote' \in [Voters -> Votes]
        /\ \A w \in Voters : vote'[w] = NoVote \/
             /\ vote'[w].at # "idle" /\ vote'[w].id \in 1 .. entries' /\ vote'[w].question \in Questions
             /\ vote'[w].at = "promoting" => vote'[w].down
    BY <1>2, <2>1, <2>2, <2>4, Zenon
  <2> QED BY <1>5, <2>2, <2>3, <2>5 DEF SaveFeedback, VotesOK
<1>6. ASSUME vote[v].at = "promoting", PutCase(v) PROVE cases' \in [Questions -> References \cup {NoReference, NoCase}]
  BY <1>3, <1>6 DEF PutCase, VotesOK, Votes
<1>7. CASE SaveCase(v)
  <2>1. /\ vote' = [vote EXCEPT ![v] = NoVote] /\ entries' = entries /\ entries \in Nat
        /\ promised' \subseteq Questions /\ standing' \subseteq promised'
    BY <1>3, <1>7 DEF SaveCase, Acknowledge, VotesOK
  <2> QED BY <1>1, <1>2, <1>6, <1>7, <2>1 DEF SaveCase, VotesOK
<1>8. CASE SaveRaises(v)
  <2>1. vote' = [vote EXCEPT ![v] = NoVote] /\ entries' = entries /\ entries \in Nat
    BY <1>8 DEF SaveRaises, VotesOK
  <2>2. torn' \in BOOLEAN /\ (durable => ~ torn')
    <3>1. torn' = torn \/ (~ durable /\ torn' = TRUE)
      BY <1>8, Zenon DEF SaveRaises
    <3>2. torn \in BOOLEAN /\ (durable => ~ torn)
      BY DEF VotesOK
    <3>3. CASE torn' = torn
      BY <3>2, <3>3
    <3>4. CASE ~ durable /\ torn' = TRUE
      BY <3>4
    <3> QED BY <3>1, <3>3, <3>4
  <2>3. cases' \in [Questions -> References \cup {NoReference, NoCase}]
    BY <1>6, <1>8 DEF SaveRaises, VotesOK
  <2>4. saved' \subseteq 1 .. entries
    <3>1. vote[v].at # "idle" /\ (saved' = saved \/ saved' = saved \cup {vote[v].id})
      BY <1>8 DEF SaveRaises
    <3> QED BY <1>3, <3>1 DEF VotesOK
  <2> QED BY <1>1, <1>2, <1>8, <2>1, <2>2, <2>3, <2>4 DEF SaveRaises, VotesOK
<1> QED BY <1>4, <1>5, <1>7, <1>8 DEF RecordStep

(* Corrections: what stands stays in the set.                              *)
LEMMA StepStanding ==
  ASSUME VotesOK, Standing, UNCHANGED durable, NEW v \in Voters, Rate(v) \/ RecordStep(v)
  PROVE  Standing'
<1> USE FeedbackConstants
<1>1. /\ NoVote.at = "idle" /\ vote \in [Voters -> Votes]
      /\ cases \in [Questions -> References \cup {NoReference, NoCase}]
      /\ vote[v].at # "idle" => vote[v].question \in Questions
      /\ vote[v].reference \in References \cup {NoReference}
      /\ promised \subseteq Questions /\ standing \subseteq promised
  BY DEF VotesOK, NoVote, Votes
<1>2. CASE Rate(v)
  <2>1. PICK q \in Questions, down \in BOOLEAN, reference \in References \cup {NoReference} :
          /\ vote' = [vote EXCEPT ![v] = [at |-> "saving", id |-> entries + 1, question |-> q,
                                          down |-> down, reference |-> reference]]
          /\ Withdraw(q, down, reference)
    BY <1>2 DEF Rate
  <2>2. standing' \subseteq standing /\ (down /\ reference = NoReference => q \notin standing')
    BY <2>1 DEF Withdraw
  <2>3. ASSUME NEW w \in Voters, vote'[w].at # "idle", vote'[w].down, vote'[w].reference = NoReference
        PROVE  vote'[w].question \notin standing'
    <3>1. CASE w = v
      BY <1>1, <2>1, <2>2, <2>3, <3>1
    <3>2. CASE w # v
      BY <1>1, <2>1, <2>2, <2>3, <3>2 DEF Standing
    <3> QED BY <3>1, <3>2
  <2> QED BY <1>2, <2>2, <2>3 DEF Rate, Standing, PromisesKept, Corrected
<1>3. CASE SaveFeedback(v)
  <2>1. ASSUME NEW w \in Voters, vote'[w].at # "idle"
        PROVE  /\ vote[w].at # "idle" /\ vote'[w].question = vote[w].question
               /\ vote'[w].down = vote[w].down /\ vote'[w].reference = vote[w].reference
    BY <1>1, <1>3, <2>1 DEF SaveFeedback, Votes
  <2> QED BY <1>3, <2>1 DEF SaveFeedback, Standing, PromisesKept, Corrected
<1>4. ASSUME vote[v].at = "promoting", PutCase(v), ~ garbled
      PROVE  /\ \A q \in promised : cases'[q] # NoCase
             /\ standing \subseteq {q \in Questions : cases'[q] \in References}
  <2>1. vote[v].reference = NoReference => vote[v].question \notin standing
    BY <1>4 DEF Standing, VotesOK, NoVote
  <2> QED BY <1>1, <1>4, <2>1 DEF PutCase, Standing, PromisesKept, Corrected
<1>5. ASSUME vote' = [vote EXCEPT ![v] = NoVote], NEW w \in Voters, vote'[w].at # "idle"
      PROVE  w # v /\ vote'[w] = vote[w]
  BY <1>1, <1>5
<1>6. CASE SaveCase(v)
  <2> DEFINE q == vote[v].question
  <2>1. vote' = [vote EXCEPT ![v] = NoVote] /\ promised' = promised \cup {q} /\ q \in Questions
    BY <1>1, <1>6 DEF SaveCase, Acknowledge
  <2>2. standing' = standing \/ (standing' = standing \cup {q} /\ vote[v].reference # NoReference
                                 /\ ~ Undermined(v))
    BY <1>6 DEF SaveCase, Acknowledge
  <2>3. ~ garbled' => ~ garbled /\ cases' = [cases EXCEPT ![q] = vote[v].reference]
    BY <1>6 DEF SaveCase, PutCase, VotesOK
  <2>4. garbled' \/ \A p \in promised' : cases'[p] # NoCase
    <3>1. ~ garbled' => cases'[q] = vote[v].reference
      BY <1>1, <2>1, <2>3
    <3> QED BY <1>1, <1>4, <1>6, <2>1, <2>3, <3>1 DEF SaveCase
  <2>5. garbled' \/ standing' \subseteq {p \in Questions : cases'[p] \in References}
    <3>1. ~ garbled' => cases'[q] = vote[v].reference
      BY <1>1, <2>1, <2>3
    <3> QED BY <1>1, <1>4, <1>6, <2>1, <2>2, <2>3, <3>1 DEF SaveCase
  <2>6. ASSUME NEW w \in Voters, vote'[w].at # "idle", vote'[w].down, vote'[w].reference = NoReference
        PROVE  vote'[w].question \notin standing'
    <3>1. w # v /\ vote'[w] = vote[w]
      BY <1>5, <2>1, <2>6
    <3> QED BY <2>2, <2>6, <3>1 DEF Standing, Undermined
  <2> QED BY <2>4, <2>5, <2>6 DEF Standing, PromisesKept, Corrected
<1>7. CASE SaveRaises(v)
  <2>1. vote' = [vote EXCEPT ![v] = NoVote] /\ UNCHANGED <<garbled, promised, standing>>
    BY <1>7 DEF SaveRaises
  <2>2. garbled \/ (/\ \A q \in promised : cases'[q] # NoCase
                    /\ standing \subseteq {q \in Questions : cases'[q] \in References})
    BY <1>4, <1>7 DEF SaveRaises, Standing, PromisesKept, Corrected
  <2> QED BY <1>5, <2>1, <2>2 DEF Standing, PromisesKept, Corrected
<1> QED BY <1>2, <1>3, <1>6, <1>7 DEF RecordStep

(* Traces: an operation is counted when it ends, by one of the stores.     *)
LEMMA StepCounted ==
  ASSUME Counted, durable \in BOOLEAN, UNCHANGED durable, NEW t \in Tracers, EndRun(t) \/ TraceStep(t)
  PROVE  /\ Counted'
         /\ EndRun(t)    => ended' = ended /\ Cardinality(Busy') = Cardinality(Busy) + 1
         /\ TraceStep(t) => \/ ended' = ended /\ Cardinality(Busy') = Cardinality(Busy)
                            \/ ended' = ended + 1 /\ Cardinality(Busy') = Cardinality(Busy) - 1
<1>0. /\ tracing \in [Tracers -> {"running", "insert", "append"}]
      /\ {rows, lines, ended, fellBack, failures} \subseteq Nat /\ piece \in BOOLEAN
      /\ IsFiniteSet(Busy) /\ IsFiniteSet(Appending)
      /\ Cardinality(Busy) \in Nat /\ Cardinality(Appending) \in Nat
  BY FS_CardinalityType DEF Counted
<1>1. CASE EndRun(t)
  <2>1. /\ Busy' = Busy \cup {t} /\ t \notin Busy /\ t \notin Appending
        /\ Appending' = Appending \/ Appending' = Appending \cup {t}
    BY <1>0, <1>1 DEF EndRun, Busy, Appending
  <2>2. IsFiniteSet(Busy') /\ Cardinality(Busy') = Cardinality(Busy) + 1
        /\ IsFiniteSet(Appending') /\ Cardinality(Appending) <= Cardinality(Appending')
        /\ Cardinality(Appending') \in Nat
    <3>1. \A S : IsFiniteSet(S) /\ t \notin S =>
            IsFiniteSet(S \cup {t}) /\ Cardinality(S \cup {t}) = Cardinality(S) + 1
      BY FS_AddElement
    <3> HIDE DEF Busy, Appending
    <3> QED BY <1>0, <2>1, <3>1
  <2>3. tracing' \in [Tracers -> {"running", "insert", "append"}]
    BY <1>0, <1>1 DEF EndRun
  <2> QED BY <1>0, <1>1, <2>2, <2>3 DEF EndRun, TraceStep, Insert, InsertRaises, AppendTrace, AppendRaises, Counted
<1>2. CASE InsertRaises(t)
  <2>1. Busy' = Busy /\ Appending' = Appending \cup {t} /\ t \notin Appending
    BY <1>0, <1>2 DEF InsertRaises, Busy, Appending
  <2>2. IsFiniteSet(Appending') /\ Cardinality(Appending') = Cardinality(Appending) + 1
    BY <1>0, <2>1, FS_AddElement
  <2>3. tracing' \in [Tracers -> {"running", "insert", "append"}] /\ tracing[t] # "running"
    BY <1>0, <1>2 DEF InsertRaises
  <2> QED BY <1>0, <1>2, <2>1, <2>2, <2>3 DEF InsertRaises, EndRun, Counted
<1>3. ASSUME Done(t), tracing[t] # "running"
      PROVE  /\ Cardinality(Busy') = Cardinality(Busy) - 1 /\ ended' = ended + 1
             /\ IsFiniteSet(Busy') /\ IsFiniteSet(Appending') /\ Cardinality(Appending') \in Nat
             /\ tracing' \in [Tracers -> {"running", "insert", "append"}]
             /\ Cardinality(Appending) <= Cardinality(Appending') + 1
             /\ tracing[t] = "insert" => Appending' = Appending
  <2>1. Busy' = Busy \ {t} /\ t \in Busy /\ Appending' = Appending \ {t}
    BY <1>0, <1>3 DEF Done, Busy, Appending
  <2>2. IsFiniteSet(Busy') /\ Cardinality(Busy') = Cardinality(Busy) - 1
    BY <1>0, <2>1, FS_RemoveElement
  <2>3. IsFiniteSet(Appending') /\ Cardinality(Appending') \in Nat
        /\ Cardinality(Appending) <= Cardinality(Appending') + 1
    <3>1. \A S : IsFiniteSet(S) =>
            /\ IsFiniteSet(S \ {t}) /\ Cardinality(S \ {t}) \in Nat /\ Cardinality(S) \in Nat
            /\ Cardinality(S) <= Cardinality(S \ {t}) + 1
      <4> SUFFICES ASSUME NEW S, IsFiniteSet(S)
                   PROVE  /\ IsFiniteSet(S \ {t}) /\ Cardinality(S \ {t}) \in Nat /\ Cardinality(S) \in Nat
                          /\ Cardinality(S) <= Cardinality(S \ {t}) + 1
        OBVIOUS
      <4>1. /\ IsFiniteSet(S \ {t})
            /\ Cardinality(S \ {t}) = IF t \in S THEN Cardinality(S) - 1 ELSE Cardinality(S)
        BY FS_RemoveElement
      <4>2. Cardinality(S \ {t}) \in Nat /\ Cardinality(S) \in Nat
        BY <4>1, FS_CardinalityType
      <4> QED BY <4>1, <4>2
    <3> QED BY <1>0, <2>1, <3>1
  <2>4. tracing[t] = "insert" => t \notin Appending
    BY DEF Appending
  <2>5. tracing' \in [Tracers -> {"running", "insert", "append"}]
    BY <1>0, <1>3 DEF Done
  <2> QED BY <1>3, <2>1, <2>2, <2>3, <2>4, <2>5 DEF Done
<1>4. CASE Insert(t)
  BY <1>0, <1>3, <1>4 DEF Insert, EndRun, Counted
<1>5. CASE AppendTrace(t)
  <2>1. /\ tracing[t] = "append" /\ Done(t) /\ piece' = FALSE /\ UNCHANGED <<rows, failures>>
        /\ lines' = lines + (IF piece THEN 0 ELSE 1)
        /\ fellBack' = fellBack + (IF durable THEN 1 ELSE 0)
    BY <1>5 DEF AppendTrace
  <2>2. ended' = ended + 1 /\ tracing[t] # "running"
    BY <2>1 DEF Done
  <2>3. {rows', lines', ended', fellBack', failures'} \subseteq Nat
    BY <1>0, <2>1, <2>2
  <2>4. rows' <= ended' + Cardinality(Appending')
    BY <1>0, <1>3, <2>1, <2>2 DEF Counted
  <2>5. lines' <= ended' /\ fellBack' <= ended' /\ failures' <= ended'
    BY <1>0, <2>1, <2>2 DEF Counted
  <2>6. rows' + lines' >= ended' - 2 * failures' + (IF piece' THEN 1 ELSE 0)
    BY <1>0, <2>1, <2>2 DEF Counted
  <2>7. durable' => rows' >= ended' - fellBack' - failures'
    BY <1>0, <2>1, <2>2 DEF Counted
  <2>8. ~ EndRun(t)
    BY <2>1 DEF EndRun
  <2> QED BY <1>3, <2>1, <2>2, <2>3, <2>4, <2>5, <2>6, <2>7, <2>8 DEF Counted
<1>6. CASE AppendRaises(t)
  <2>1. /\ tracing[t] = "append" /\ Done(t) /\ piece' \in BOOLEAN /\ UNCHANGED <<rows, lines, fellBack>>
        /\ failures' = failures + 1
    BY <1>0, <1>6 DEF AppendRaises
  <2>2. ended' = ended + 1 /\ tracing[t] # "running"
    BY <2>1 DEF Done
  <2>3. {rows', lines', ended', fellBack', failures'} \subseteq Nat
    BY <1>0, <2>1, <2>2
  <2>4. rows' <= ended' + Cardinality(Appending')
    BY <1>0, <1>3, <2>1, <2>2 DEF Counted
  <2>5. lines' <= ended' /\ fellBack' <= ended' /\ failures' <= ended'
    BY <1>0, <2>1, <2>2 DEF Counted
  <2>6. rows' + lines' >= ended' - 2 * failures' + (IF piece' THEN 1 ELSE 0)
    BY <1>0, <2>1, <2>2 DEF Counted
  <2>7. durable' => rows' >= ended' - fellBack' - failures'
    BY <1>0, <2>1, <2>2 DEF Counted
  <2>8. ~ EndRun(t)
    BY <2>1 DEF EndRun
  <2> QED BY <1>3, <2>1, <2>2, <2>3, <2>4, <2>5, <2>6, <2>7, <2>8 DEF Counted
<1> QED BY <1>1, <1>2, <1>4, <1>5, <1>6 DEF TraceStep
-----------------------------------------------------------------------------
(* A run begins: of the pipeline or after changes.                         *)
Begun(p) == Start(p) \/ React(p)

(* Only the pipeline p moves, to a place with these locals.                *)
MovesTo(p, at, scores, asked, intent) ==
  /\ pipe' \in [Runners -> Pipes] /\ \A r \in Runners : r # p => pipe'[r] = pipe[r]
  /\ pipe'[p].at = at /\ pipe'[p].scores = scores /\ pipe'[p].asked = asked /\ pipe'[p].intent = intent

(* Pipelines: where each step takes the one that takes it.                 *)
LEMMA PipeMoves ==
  ASSUME PipesOK, NEW p \in Runners
  PROVE  LET old == pipe[p] IN
         /\ Exit(p)  => MovesTo(p, "idle", NoFile, {}, FALSE)
         /\ Begun(p) => \E at \in {"reading", "scoring"} :
              /\ MovesTo(p, at, NoFile, {}, FALSE) /\ old.at = "idle"
              /\ owed' = [owed EXCEPT ![p] = IF at = "reading" THEN standing ELSE {}]
              /\ started' = started + 1 /\ UNCHANGED <<baseline, shown, last, wanted>>
              /\ disturbed' = (disturbed \/ \E r \in Runners : pipe[r].at # "idle")
         /\ ReadRegressions(p) =>
              MovesTo(p, "scoring", old.scores, Corrected, old.intent) /\ old.at = "reading"
         /\ Evaluate(p) => \E s \in Outcomes : /\ MovesTo(p, "gating", s, old.asked, old.intent)
                                               /\ shown' = FiniteOnly(s) \/ disturbed' = TRUE
         /\ \A b \in BOOLEAN : Save(p, b) => MovesTo(p, "saving", old.scores, old.asked, b)
         /\ Goto(p, "dumping") => MovesTo(p, "dumping", old.scores, old.asked, old.intent)
<1>1. pipe \in [Runners -> Pipes] /\ pipe[p] \in Pipes
  BY DEF PipesOK
<1>2. ASSUME NEW new \in Pipes, pipe' = [pipe EXCEPT ![p] = new]
      PROVE  MovesTo(p, new.at, new.scores, new.asked, new.intent)
  BY <1>1, <1>2 DEF MovesTo
<1>3. ASSUME Exit(p) PROVE MovesTo(p, "idle", NoFile, {}, FALSE)
  <2>1. /\ Idle \in Pipes /\ Idle.at = "idle" /\ Idle.scores = NoFile /\ Idle.asked = {}
        /\ Idle.intent = FALSE
    BY DEF Idle, Pipes
  <2> QED BY <1>2, <1>3, <2>1 DEF Exit
<1>4. ASSUME Begun(p)
      PROVE  \E at \in {"reading", "scoring"} :
               /\ MovesTo(p, at, NoFile, {}, FALSE) /\ pipe[p].at = "idle"
               /\ owed' = [owed EXCEPT ![p] = IF at = "reading" THEN standing ELSE {}]
               /\ started' = started + 1 /\ UNCHANGED <<baseline, shown, last, wanted>>
               /\ disturbed' = (disturbed \/ \E r \in Runners : pipe[r].at # "idle")
  <2>1. ASSUME NEW at \in {"reading", "scoring"}, NEW m \in {"gate", "set", "compare", "watch"},
               NEW promises, Begin(p, at, m, promises)
        PROVE  MovesTo(p, at, NoFile, {}, FALSE)
    <3> DEFINE new == [Idle EXCEPT !.at = at, !.mode = m]
    <3>1. new \in Pipes /\ new.at = at /\ new.scores = NoFile /\ new.asked = {} /\ new.intent = FALSE
      BY DEF Idle, Pipes
    <3>2. pipe' = [pipe EXCEPT ![p] = new]
      BY <2>1 DEF Begin
    <3> HIDE DEF new
    <3> QED BY <1>2, <3>1, <3>2
  <2>2. CASE Start(p)
    <3>1. PICK m \in {"gate", "set", "compare"} : Begin(p, "reading", m, standing)
      BY <2>2 DEF Start
    <3>2. MovesTo(p, "reading", NoFile, {}, FALSE)
      BY <2>1, <3>1
    <3> HIDE DEF MovesTo
    <3> QED BY <3>1, <3>2 DEF Begin
  <2>3. CASE React(p)
    <3>1. MovesTo(p, "scoring", NoFile, {}, FALSE)
      BY <2>1, <2>3 DEF React
    <3> HIDE DEF MovesTo
    <3> QED BY <2>3, <3>1 DEF React, Begin
  <2> QED BY <1>4, <2>2, <2>3 DEF Begun
<1>5. ASSUME ReadRegressions(p)
      PROVE  MovesTo(p, "scoring", pipe[p].scores, Corrected, pipe[p].intent) /\ pipe[p].at = "reading"
  <2> DEFINE new == [pipe[p] EXCEPT !.at = "scoring", !.asked = Corrected]
  <2>1. /\ new \in Pipes /\ new.at = "scoring" /\ new.asked = Corrected
        /\ new.scores = pipe[p].scores /\ new.intent = pipe[p].intent
    <3>1. Corrected \subseteq Questions
      BY DEF Corrected
    <3> QED BY <1>1, <3>1 DEF Pipes
  <2>2. pipe' = [pipe EXCEPT ![p] = new]
    BY <1>1, <1>5 DEF ReadRegressions, Pipes
  <2> HIDE DEF new
  <2> QED BY <1>2, <1>5, <2>1, <2>2 DEF ReadRegressions
<1>6. ASSUME Evaluate(p)
      PROVE  \E s \in Outcomes : /\ MovesTo(p, "gating", s, pipe[p].asked, pipe[p].intent)
                                 /\ shown' = FiniteOnly(s) \/ disturbed' = TRUE
  <2>1. PICK s \in Outcomes : /\ pipe' = [pipe EXCEPT ![p].at = "gating", ![p].scores = s]
                              /\ shown' = FiniteOnly(s) \/ disturbed' = TRUE
    BY <1>6 DEF Evaluate
  <2> DEFINE new == [pipe[p] EXCEPT !.at = "gating", !.scores = s]
  <2>2. /\ new \in Pipes /\ new.at = "gating" /\ new.scores = s
        /\ new.asked = pipe[p].asked /\ new.intent = pipe[p].intent
    BY <1>1 DEF Pipes
  <2>3. pipe' = [pipe EXCEPT ![p] = new]
    BY <1>1, <2>1 DEF Pipes
  <2> HIDE DEF new
  <2>4. MovesTo(p, "gating", s, pipe[p].asked, pipe[p].intent)
    BY <1>2, <2>2, <2>3
  <2> QED BY <2>1, <2>4
<1>7. ASSUME NEW b \in BOOLEAN, Save(p, b)
      PROVE  MovesTo(p, "saving", pipe[p].scores, pipe[p].asked, b)
  <2> DEFINE new == [pipe[p] EXCEPT !.at = "saving", !.intent = b]
  <2>1. /\ new \in Pipes /\ new.at = "saving" /\ new.intent = b
        /\ new.asked = pipe[p].asked /\ new.scores = pipe[p].scores
    BY <1>1 DEF Pipes
  <2>2. pipe' = [pipe EXCEPT ![p] = new]
    BY <1>1, <1>7 DEF Save, Pipes
  <2> HIDE DEF new
  <2> QED BY <1>2, <2>1, <2>2
<1>8. ASSUME Goto(p, "dumping")
      PROVE  MovesTo(p, "dumping", pipe[p].scores, pipe[p].asked, pipe[p].intent)
  <2> DEFINE new == [pipe[p] EXCEPT !.at = "dumping"]
  <2>1. /\ new \in Pipes /\ new.at = "dumping" /\ new.intent = pipe[p].intent
        /\ new.asked = pipe[p].asked /\ new.scores = pipe[p].scores
    BY <1>1 DEF Pipes
  <2>2. pipe' = [pipe EXCEPT ![p] = new]
    BY <1>1, <1>8 DEF Goto, Pipes
  <2> HIDE DEF new
  <2> QED BY <1>2, <2>1, <2>2
<1> QED BY <1>3, <1>4, <1>5, <1>6, <1>7, <1>8

(* Judging a run again by the scores that were kept of it changes nothing. *)
LEMMA ShownPasses == \A s, base : Passes(FiniteOnly(s), base) = Passes(s, base)
<1> TAKE s, base
<1>1. FiniteOnly(FiniteOnly(s)) = FiniteOnly(s) /\ DOMAIN FiniteOnly(s) = DOMAIN s
  BY NoScores DEF FiniteOnly
<1> QED BY <1>1 DEF Passes, PassesGate

(* What an evaluation asks: the corrections that stand, unless a line of   *)
(* the file was lost.                                                      *)
LEMMA StepOwed ==
  ASSUME PipesOK, Standing, Owed, NEW p \in Runners, Begun(p) \/ Pipeline(p),
         UNCHANGED <<durable, feedback>>
  PROVE  Owed'
<1> USE DEF MovesTo
<1>1. /\ owed \in [Runners -> SUBSET Questions]
      /\ \A r \in Runners : owed[r] \subseteq standing
      /\ standing' = standing /\ garbled' = garbled
      /\ garbled \/ standing \subseteq Corrected
  BY DEF PipesOK, Owed, Standing, feedback
<1>2. ASSUME NEW at, NEW s, NEW b, MovesTo(p, at, s, pipe[p].asked, b), owed' = owed,
             pipe[p].at \in {"scoring", "gating", "saving"}
      PROVE  Owed'
  BY <1>1, <1>2 DEF Owed, CorrectionsAsked
<1>3. ASSUME NEW s, NEW q, NEW b, NEW at \in {"idle", "reading", "scoring"}, MovesTo(p, at, s, q, b),
             at = "scoring" => owed'[p] = {},
             \A r \in Runners : owed'[r] \subseteq standing /\ (r # p => owed'[r] = owed[r])
      PROVE  Owed'
  BY <1>1, <1>3 DEF Owed, CorrectionsAsked
<1> HIDE DEF MovesTo
<1>4. CASE Begun(p)
  <2>1. PICK at \in {"reading", "scoring"} :
          /\ MovesTo(p, at, NoFile, {}, FALSE)
          /\ owed' = [owed EXCEPT ![p] = IF at = "reading" THEN standing ELSE {}]
    BY <1>4, PipeMoves
  <2>2. \A r \in Runners : owed'[r] \subseteq standing /\ (r # p => owed'[r] = owed[r])
    BY <1>1, <2>1
  <2>3. at = "scoring" => owed'[p] = {}
    BY <1>1, <2>1
  <2>4. at \in {"idle", "reading", "scoring"} /\ MovesTo(p, at, NoFile, {}, FALSE)
    BY <2>1
  <2> QED BY <1>3, <2>2, <2>3, <2>4
<1> USE DEF MovesTo
<1>5. CASE ReadRegressions(p)
  <2>1. MovesTo(p, "scoring", pipe[p].scores, Corrected, pipe[p].intent) /\ owed' = owed
    BY <1>5, PipeMoves DEF ReadRegressions
  <2> QED BY <1>1, <2>1 DEF Owed, CorrectionsAsked
<1>6. ASSUME Exit(p), owed' = owed PROVE Owed'
  <2>1. MovesTo(p, "idle", NoFile, {}, FALSE)
    BY <1>6, PipeMoves
  <2> HIDE DEF MovesTo
  <2> QED BY <1>1, <1>3, <1>6, <2>1
<1>7. CASE Evaluate(p)
  <2>1. PICK s \in Outcomes : MovesTo(p, "gating", s, pipe[p].asked, pipe[p].intent)
    BY <1>7, PipeMoves
  <2> HIDE DEF MovesTo
  <2> QED BY <1>2, <1>7, <2>1 DEF Evaluate
<1>8. ASSUME NEW b \in BOOLEAN, Save(p, b), owed' = owed, pipe[p].at = "gating" PROVE Owed'
  <2>1. MovesTo(p, "saving", pipe[p].scores, pipe[p].asked, b)
    BY <1>8, PipeMoves
  <2> HIDE DEF MovesTo
  <2> QED BY <1>2, <1>8, <2>1
<1>9. CASE Judge(p)
  BY <1>6, <1>8, <1>9 DEF Judge, Enforce, Announce
<1>10. CASE OpenBaseline(p)
  <2>1. MovesTo(p, "dumping", pipe[p].scores, pipe[p].asked, pipe[p].intent)
    BY <1>10, PipeMoves DEF OpenBaseline
  <2> HIDE DEF MovesTo
  <2> QED BY <1>2, <1>10, <2>1 DEF OpenBaseline
<1>11. CASE Compare(p) \/ DumpBaseline(p) \/ Fail(p)
  BY <1>6, <1>11 DEF Compare, DumpBaseline, Fail
<1> QED BY <1>4, <1>5, <1>7, <1>9, <1>10, <1>11 DEF Pipeline

(* The files a pipeline writes, and what it says.                          *)
LEMMA StepPipes ==
  ASSUME PipesOK, standing \subseteq Questions, NEW p \in Runners, Begun(p) \/ Pipeline(p)
  PROVE  PipesOK'
<1> USE DEF MovesTo
<1>0. \A s \in Outcomes : FiniteOnly(s) \in Readable
  BY DEF Readable
<1>1. ASSUME NEW at, NEW s, NEW q, NEW b, MovesTo(p, at, s, q, b),
             at \in {"gating", "saving", "dumping"} => s \in Outcomes,
             started' \in Nat, disturbed' \in BOOLEAN,
             baseline' \in Readable \cup {NoFile, Unreadable}, shown' \in Readable \cup {NoFile},
             last' \in Verdicts,
             last'.verdict \in {"passed", "drifted"} => last'.scores \in Outcomes,
             wanted' \subseteq Readable, owed' \in [Runners -> SUBSET Questions]
      PROVE  PipesOK'
  <2>1. \A r \in Runners : pipe'[r].at \in {"gating", "saving", "dumping"} => pipe'[r].scores \in Outcomes
    BY <1>1 DEF PipesOK
  <2> QED BY <1>1, <2>1 DEF PipesOK
<1> HIDE DEF MovesTo
<1>2. /\ started \in Nat /\ disturbed \in BOOLEAN
      /\ baseline \in Readable \cup {NoFile, Unreadable} /\ shown \in Readable \cup {NoFile}
      /\ last \in Verdicts
      /\ last.verdict \in {"passed", "drifted"} => last.scores \in Outcomes
      /\ wanted \subseteq Readable /\ owed \in [Runners -> SUBSET Questions]
      /\ pipe[p].at \in {"gating", "saving", "dumping"} => pipe[p].scores \in Outcomes
  BY DEF PipesOK
<1>3. CASE Begun(p)
  <2>1. PICK at \in {"reading", "scoring"} :
          /\ MovesTo(p, at, NoFile, {}, FALSE)
          /\ owed' = [owed EXCEPT ![p] = IF at = "reading" THEN standing ELSE {}]
          /\ started' = started + 1 /\ UNCHANGED <<baseline, shown, last, wanted>>
          /\ disturbed' = (disturbed \/ \E r \in Runners : pipe[r].at # "idle")
    BY <1>3, PipeMoves
  <2>2. owed' \in [Runners -> SUBSET Questions] /\ started' \in Nat
    BY <1>2, <2>1
  <2>3. disturbed' \in BOOLEAN
    BY <1>2, <2>1
  <2> QED BY <1>1, <1>2, <2>1, <2>2, <2>3
<1>4. CASE ReadRegressions(p)
  <2>1. MovesTo(p, "scoring", pipe[p].scores, Corrected, pipe[p].intent)
    BY <1>4, PipeMoves
  <2> QED BY <1>1, <1>2, <1>4, <2>1 DEF ReadRegressions
<1>5. CASE Evaluate(p)
  <2>1. PICK s \in Outcomes : MovesTo(p, "gating", s, pipe[p].asked, pipe[p].intent)
    BY <1>5, PipeMoves
  <2>2. shown' \in Readable \cup {NoFile}
    BY <1>0, <1>2, <1>5 DEF Evaluate
  <2>3. disturbed' = disturbed \/ disturbed' = TRUE
    BY <1>5 DEF Evaluate
  <2>4. disturbed' \in BOOLEAN
    BY <1>2, <2>3
  <2> QED BY <1>1, <1>2, <1>5, <2>1, <2>2, <2>4 DEF Evaluate
<1>6. ASSUME Exit(p), UNCHANGED <<shown, started, wanted, owed>>, disturbed' \in BOOLEAN,
             baseline' \in Readable \cup {NoFile, Unreadable},
             last' \in Verdicts,
             last'.verdict \in {"passed", "drifted"} => last'.scores \in Outcomes
      PROVE  PipesOK'
  <2>1. MovesTo(p, "idle", NoFile, {}, FALSE)
    BY <1>6, PipeMoves
  <2> QED BY <1>1, <1>2, <1>6, <2>1
<1>7. CASE Judge(p)
  <2>1. pipe[p].at = "gating" /\ UNCHANGED <<baseline, shown, started, wanted, owed, disturbed>>
    BY <1>7 DEF Judge
  <2>2. ASSUME NEW b \in BOOLEAN, Save(p, b) PROVE PipesOK'
    <3>1. MovesTo(p, "saving", pipe[p].scores, pipe[p].asked, b)
      BY <2>2, PipeMoves
    <3>2. last' \in Verdicts /\ last'.verdict = "saved"
      BY <2>2 DEF Save, Verdicts
    <3> QED BY <1>1, <1>2, <2>1, <3>1, <3>2
  <2>3. ASSUME Announce(p), baseline # Unreadable PROVE PipesOK'
    <3>1. Exit(p) /\ pipe[p].scores \in Outcomes /\ baseline \in Readable \cup {NoFile}
      BY <1>2, <2>1, <2>3 DEF Announce
    <3>2. last' \in Verdicts /\ last'.scores = pipe[p].scores
      BY <2>3, <3>1 DEF Announce, Verdicts
    <3> QED BY <1>2, <1>6, <2>1, <3>1, <3>2
  <2> QED BY <1>7, <2>2, <2>3 DEF Judge, Enforce
<1>8. CASE OpenBaseline(p)
  <2>1. MovesTo(p, "dumping", pipe[p].scores, pipe[p].asked, pipe[p].intent)
    BY <1>8, PipeMoves DEF OpenBaseline
  <2>2. pipe[p].at = "saving" /\ wanted' \subseteq Readable
    BY <1>0, <1>2, <1>8 DEF OpenBaseline
  <2> QED BY <1>1, <1>2, <1>8, <2>1, <2>2 DEF OpenBaseline
<1>9. CASE DumpBaseline(p)
  <2>1. baseline' \in Readable \cup {NoFile, Unreadable}
    BY <1>0, <1>2, <1>9 DEF DumpBaseline
  <2> QED BY <1>2, <1>6, <1>9, <2>1 DEF DumpBaseline
<1>10. CASE Compare(p) \/ Fail(p)
  BY <1>2, <1>6, <1>10 DEF Compare, Fail
<1> QED BY <1>3, <1>4, <1>5, <1>7, <1>8, <1>9, <1>10 DEF Pipeline

(* The baseline is one somebody wanted, and whoever passes was compared    *)
(* with it.                                                                *)
LEMMA StepWanted ==
  ASSUME PipesOK, Wanted, NEW p \in Runners, Begun(p) \/ Pipeline(p)
  PROVE  Wanted'
<1> USE DEF MovesTo
<1>1. ASSUME NEW at, NEW s, NEW q, NEW b, MovesTo(p, at, s, q, b), wanted \subseteq wanted',
             at \in {"saving", "dumping"} => b = TRUE, at = "dumping" => FiniteOnly(s) \in wanted',
             baseline' \in wanted' \cup {NoFile, Unreadable}, baseline' = NoFile => wanted' = {}, NoCreep'
      PROVE  Wanted'
  <2>1. \A r \in Runners : pipe'[r].at \in {"saving", "dumping"} => pipe'[r].intent
    BY <1>1 DEF Wanted
  <2>2. \A r \in Runners : pipe'[r].at = "dumping" => FiniteOnly(pipe'[r].scores) \in wanted'
    BY <1>1 DEF Wanted
  <2> QED BY <1>1, <2>1, <2>2 DEF Wanted
<1> HIDE DEF MovesTo
<1>2. /\ baseline \in wanted \cup {NoFile, Unreadable} /\ (baseline = NoFile => wanted = {})
      /\ pipe[p].at \in {"saving", "dumping"} => pipe[p].intent
      /\ pipe[p].intent \in BOOLEAN /\ NoCreep
  BY DEF Wanted, PipesOK, Pipes
<1>3. ASSUME last' = last \/ last'.verdict = "saved", wanted \subseteq wanted' PROVE NoCreep'
  <2>1. CASE last' = last
    BY <1>2, <1>3, <2>1 DEF NoCreep
  <2>2. CASE last'.verdict = "saved"
    BY <2>2 DEF NoCreep
  <2> QED BY <1>3, <2>1, <2>2
<1>4. ASSUME NEW at \in {"idle", "reading", "scoring", "gating"}, NEW s, NEW q, NEW b, MovesTo(p, at, s, q, b),
             UNCHANGED <<last, wanted, baseline>>
      PROVE  Wanted'
  <2>1. NoCreep'
    BY <1>3, <1>4
  <2> QED BY <1>1, <1>2, <1>4, <2>1
<1>5. CASE Begun(p) \/ ReadRegressions(p) \/ Evaluate(p) \/ Compare(p) \/ Fail(p)
  <2>1. UNCHANGED <<last, wanted, baseline>>
    BY <1>5, PipeMoves DEF ReadRegressions, Evaluate, Compare, Fail
  <2>2. \E at \in {"idle", "reading", "scoring", "gating"} : \E s, q, b : MovesTo(p, at, s, q, b)
    <3>1. CASE Begun(p)
      <4>1. PICK at \in {"reading", "scoring"} : MovesTo(p, at, NoFile, {}, FALSE)
        BY <3>1, PipeMoves
      <4> QED BY <4>1
    <3>2. CASE ReadRegressions(p) \/ Evaluate(p) \/ Compare(p) \/ Fail(p)
      BY <3>2, PipeMoves DEF Compare, Fail
    <3> QED BY <1>5, <3>1, <3>2
  <2> QED BY <1>4, <2>1, <2>2
<1>6. CASE Judge(p)
  <2>1. UNCHANGED <<wanted, baseline>>
    BY <1>6 DEF Judge
  <2>2. ASSUME Save(p, TRUE) PROVE Wanted'
    <3>1. MovesTo(p, "saving", pipe[p].scores, pipe[p].asked, TRUE)
      BY <2>2, PipeMoves
    <3>2. NoCreep'
      BY <1>3, <2>1, <2>2 DEF Save
    <3> QED BY <1>1, <1>2, <2>1, <3>1, <3>2
  <2>3. CASE pipe[p].mode = "set"
    BY <1>6, <2>2, <2>3 DEF Judge
  <2>4. CASE pipe[p].mode \notin {"set", "watch"} /\ baseline = NoFile
    <3>1. Save(p, wanted = {}) /\ wanted = {}
      BY <1>2, <1>6, <2>4 DEF Judge, Enforce
    <3>2. (wanted = {}) = TRUE
      BY <3>1
    <3> QED BY <2>2, <3>1, <3>2 DEF Save
  <2>5. CASE pipe[p].mode # "set" /\ (baseline = NoFile => pipe[p].mode = "watch")
    <3>1. baseline # Unreadable /\ Announce(p)
      BY <1>6, <2>5 DEF Judge, Enforce
    <3>2. MovesTo(p, "idle", NoFile, {}, FALSE)
      BY <3>1, PipeMoves DEF Announce
    <3>3. baseline # NoFile => baseline \in wanted
      BY <1>2, <3>1
    <3>4. (last'.verdict = "passed" /\ baseline # NoFile) =>
             Regressed(FiniteOnly(pipe[p].scores), baseline, Threshold) = {}
      BY <3>1 DEF Announce, Passes, PassesGate
    <3>5. last'.scores = pipe[p].scores /\ last'.against = baseline
      BY <3>1 DEF Announce
    <3>6. NoCreep'
      BY <2>1, <3>3, <3>4, <3>5 DEF NoCreep
    <3> QED BY <1>1, <1>2, <2>1, <3>2, <3>6
  <2> QED BY <2>3, <2>4, <2>5
<1>7. CASE OpenBaseline(p)
  <2>1. /\ pipe[p].at = "saving" /\ MovesTo(p, "dumping", pipe[p].scores, pipe[p].asked, pipe[p].intent)
        /\ baseline' = Unreadable /\ last' = last
    BY <1>7, PipeMoves DEF OpenBaseline
  <2>2. pipe[p].intent = TRUE /\ wanted' = wanted \cup {FiniteOnly(pipe[p].scores)}
    BY <1>2, <1>7, <2>1 DEF OpenBaseline
  <2>3. NoCreep'
    BY <1>3, <2>1, <2>2
  <2> QED BY <1>1, <2>1, <2>2, <2>3, QualityConstants
<1>8. CASE DumpBaseline(p)
  <2>1. /\ pipe[p].at = "dumping" /\ MovesTo(p, "idle", NoFile, {}, FALSE)
        /\ last' = last /\ wanted' = wanted /\ baseline' \in {FiniteOnly(pipe[p].scores), Unreadable}
    BY <1>8, PipeMoves DEF DumpBaseline
  <2>2. FiniteOnly(pipe[p].scores) \in wanted /\ pipe[p].scores \in Outcomes
    BY <2>1 DEF Wanted, PipesOK
  <2>3. FiniteOnly(pipe[p].scores) # NoFile /\ Unreadable # NoFile
    BY <2>2, QualityConstants
  <2>4. NoCreep'
    BY <1>3, <2>1
  <2> QED BY <1>1, <2>1, <2>2, <2>3, <2>4
<1> QED BY <1>5, <1>6, <1>7, <1>8 DEF Pipeline

(* Undisturbed, the scores that are shown are those that were judged.      *)
LEMMA StepExplained ==
  ASSUME PipesOK, Explained, NEW p \in Runners, Begun(p) \/ Pipeline(p)
  PROVE  Explained'
<1> SUFFICES ASSUME ~ disturbed' PROVE Explained'
  BY DEF Explained
<1>1. ~ disturbed
  BY PipeMoves DEF Pipeline, ReadRegressions, Compare, Evaluate, Judge, OpenBaseline, DumpBaseline, Fail
<1>2. /\ \A r, q \in Runners : pipe[r].at # "idle" /\ pipe[q].at # "idle" => r = q
      /\ \A r \in Runners : pipe[r].at = "gating" => shown = FiniteOnly(pipe[r].scores)
      /\ \A r \in Runners : pipe[r].at \in {"saving", "dumping"} => last.verdict = "saved"
      /\ EvalExplainsGate
  BY <1>1 DEF Explained
<1>3. \A r \in Runners \ {p} : pipe[r].at = "idle"
  <2>1. CASE Begun(p)
    BY <2>1, PipeMoves
  <2>2. CASE pipe[p].at # "idle"
    BY <1>2, <2>2
  <2>3. Pipeline(p) => pipe[p].at # "idle"
    BY DEF Pipeline, ReadRegressions, Compare, Evaluate, Judge, OpenBaseline, DumpBaseline, Fail
  <2> QED BY <2>1, <2>2, <2>3
<1> DEFINE Explains(seen, base) ==
             /\ last.verdict = "passed" => Passes(seen, base)
             /\ last.verdict = "drifted" => ~ Passes(seen, base)
<1>4. ASSUME NEW at, NEW s, NEW q, NEW b, MovesTo(p, at, s, q, b),
             at = "gating" => shown' = FiniteOnly(s),
             at \in {"saving", "dumping"} => last'.verdict = "saved",
             at \in {"gating", "saving", "dumping"} \/ Explains(shown, baseline)'
      PROVE  Explained'
  <2>1. \A r \in Runners \ {p} : pipe'[r].at = "idle"
    BY <1>3, <1>4 DEF MovesTo
  <2>2. pipe'[p].at = at /\ pipe'[p].scores = s
    BY <1>4 DEF MovesTo
  <2> QED BY <1>4, <2>1, <2>2 DEF Explained, EvalExplainsGate
<1>5. pipe[p].at \notin {"gating", "saving", "dumping"} => Explains(shown, baseline)
  BY <1>1, <1>2, <1>3 DEF EvalExplainsGate
<1>6. ASSUME NEW at \in {"idle", "reading", "scoring"}, NEW s, NEW q, NEW b, MovesTo(p, at, s, q, b),
             UNCHANGED <<shown, baseline, last>>, pipe[p].at \notin {"gating", "saving", "dumping"}
      PROVE  Explained'
  BY <1>4, <1>5, <1>6
<1>7. CASE Begun(p)
  <2>1. PICK at \in {"reading", "scoring"} :
          /\ MovesTo(p, at, NoFile, {}, FALSE) /\ pipe[p].at = "idle"
          /\ UNCHANGED <<shown, baseline, last>>
    BY <1>7, PipeMoves
  <2> QED BY <1>6, <2>1
<1>8. CASE ReadRegressions(p)
  BY <1>6, <1>8, PipeMoves DEF ReadRegressions
<1>9. CASE Compare(p)
  BY <1>6, <1>9, PipeMoves DEF Compare
<1>10. CASE Evaluate(p)
  <2>1. PICK s \in Outcomes : /\ MovesTo(p, "gating", s, pipe[p].asked, pipe[p].intent)
                              /\ shown' = FiniteOnly(s)
    BY <1>10, PipeMoves
  <2> QED BY <1>4, <2>1
<1>11. CASE Judge(p)
  <2>1. pipe[p].at = "gating" /\ UNCHANGED <<shown, baseline>> /\ shown = FiniteOnly(pipe[p].scores)
    BY <1>2, <1>11 DEF Judge
  <2>2. ASSUME NEW b \in BOOLEAN, Save(p, b) PROVE Explained'
    <3>1. MovesTo(p, "saving", pipe[p].scores, pipe[p].asked, b) /\ last'.verdict = "saved"
      BY <2>2, PipeMoves DEF Save
    <3> QED BY <1>4, <3>1
  <2>3. ASSUME Announce(p) PROVE Explained'
    <3>1. MovesTo(p, "idle", NoFile, {}, FALSE)
      BY <2>3, PipeMoves DEF Announce
    <3>2. Passes(shown, baseline) = Passes(pipe[p].scores, baseline)
      BY <2>1, ShownPasses
    <3>3. Explains(shown, baseline)'
      BY <2>1, <2>3, <3>2 DEF Announce
    <3> QED BY <1>4, <3>1, <3>3
  <2> QED BY <1>11, <2>2, <2>3 DEF Judge, Enforce
<1>12. CASE OpenBaseline(p)
  <2>1. MovesTo(p, "dumping", pipe[p].scores, pipe[p].asked, pipe[p].intent) /\ last'.verdict = "saved"
    BY <1>2, <1>12, PipeMoves DEF OpenBaseline
  <2> QED BY <1>4, <2>1
<1>13. CASE DumpBaseline(p)
  <2>1. MovesTo(p, "idle", NoFile, {}, FALSE) /\ last'.verdict = "saved"
    BY <1>2, <1>13, PipeMoves DEF DumpBaseline
  <2> QED BY <1>4, <2>1
<1>14. ~ Fail(p)
  BY DEF Fail
<1> QED BY <1>7, <1>8, <1>9, <1>10, <1>11, <1>12, <1>13, <1>14 DEF Pipeline
-----------------------------------------------------------------------------
(* All of it together, and the bound on what is asked for.                 *)
QualityInv ==
  /\ VotesOK /\ Standing /\ Counted /\ PipesOK /\ Owed /\ Wanted /\ Explained
  /\ Ops <= MaxOps

(* It holds before anything was rated, traced or evaluated.                *)
LEMMA InitQuality == Init => QualityInv
<1> SUFFICES ASSUME Init PROVE QualityInv
  OBVIOUS
<1> USE DEF Init, DatabaseInit, FeedbackInit, TracesInit
<1>1. VotesOK /\ Standing
  <2>1. NoVote \in Votes /\ NoVote.at = "idle"
    BY DEF NoVote, Votes
  <2> QED BY <2>1 DEF VotesOK, Standing, PromisesKept
<1>2. Busy = {} /\ Appending = {}
  BY DEF Busy, Appending
<1>3. Counted
  <2>1. Cardinality(Busy) = 0 /\ Cardinality(Appending) = 0 /\ IsFiniteSet(Busy) /\ IsFiniteSet(Appending)
    BY <1>2, FS_EmptySet
  <2>2. /\ tracing \in [Tracers -> {"running", "insert", "append"}] /\ piece = FALSE
        /\ rows = 0 /\ lines = 0 /\ ended = 0 /\ fellBack = 0 /\ failures = 0
    OBVIOUS
  <2> HIDE DEF Busy, Appending, Init, TracesInit, FeedbackInit, DatabaseInit
  <2>3. /\ {rows, lines, ended, fellBack, failures} \subseteq Nat
        /\ rows <= ended + Cardinality(Appending) /\ lines <= ended
        /\ fellBack <= ended /\ failures <= ended
        /\ rows >= ended - fellBack - failures
    BY <2>1, <2>2
  <2>4. rows + lines >= ended - 2 * failures + (IF piece THEN 1 ELSE 0)
    BY <2>2
  <2>5. piece \in BOOLEAN
    BY <2>2
  <2> QED BY <2>1, <2>2, <2>3, <2>4, <2>5 DEF Counted
<1>4. Idle \in Pipes /\ Idle.at = "idle"
  BY DEF Idle, Pipes
<1>5. PipesOK
  <2>1. last \in Verdicts /\ last.verdict = "none"
    BY DEF Verdicts
  <2>2. wanted \subseteq Readable /\ baseline \in Readable \cup {NoFile, Unreadable}
    BY QualityConstants
  <2> QED BY <1>4, <2>1, <2>2 DEF PipesOK
<1>6. Owed /\ Wanted /\ Explained
  <2>1. Committed # NoFile
    BY QualityConstants DEF Readable
  <2>2. /\ \A p \in Runners : pipe[p].at = "idle" /\ owed[p] = {}
        /\ wanted = {baseline} \ {NoFile} /\ baseline \in {Committed, NoFile}
        /\ last.verdict = "none"
    BY <1>4
  <2> HIDE DEF Init
  <2>3. Owed /\ Wanted
    BY <2>1, <2>2 DEF Owed, CorrectionsAsked, Wanted, NoCreep
  <2>4. EvalExplainsGate
    BY <2>2 DEF EvalExplainsGate
  <2>5. Explained
    BY <2>2, <2>4 DEF Explained
  <2> QED BY <2>3, <2>5
<1>7. Ops <= MaxOps
  <2>1. started = 0 /\ entries = 0 /\ ended = 0
    OBVIOUS
  <2>2. Cardinality(Busy) = 0
    BY <1>2, FS_EmptySet
  <2> HIDE DEF Init, TracesInit, FeedbackInit, DatabaseInit
  <2> QED BY <2>1, <2>2, QualityConstants DEF Ops, Busy
<1> QED BY <1>1, <1>3, <1>5, <1>6, <1>7 DEF QualityInv

(* Every step of a voter, a traced thread or a pipeline keeps it.          *)
LEMMA StepQuality == QualityInv /\ [Next]_vars => QualityInv'
<1> SUFFICES ASSUME QualityInv, [Next]_vars PROVE QualityInv'
  OBVIOUS
<1>1. /\ VotesOK /\ Standing /\ Counted /\ PipesOK /\ Owed /\ Wanted /\ Explained
      /\ Ops <= MaxOps /\ durable \in BOOLEAN /\ standing \subseteq Questions
      /\ {started, entries, ended, MaxOps} \subseteq Nat /\ Cardinality(Busy) \in Nat
      /\ Ops = started + entries + ended + Cardinality(Busy)
  BY FS_CardinalityType, QualityConstants DEF QualityInv, VotesOK, Counted, PipesOK, Ops, Busy
<1>2. ASSUME UNCHANGED gate PROVE PipesOK' /\ Wanted' /\ Explained'
  BY <1>1, <1>2 DEF gate, PipesOK, Wanted, NoCreep, Explained, EvalExplainsGate
<1>3. ASSUME UNCHANGED <<durable, traces>> PROVE Counted' /\ ended' = ended /\ Busy' = Busy
  BY <1>1, <1>3 DEF traces, Counted, Busy, Appending
<1>4. ASSUME UNCHANGED <<durable, feedback>> PROVE VotesOK' /\ Standing' /\ entries' = entries
  BY <1>1, <1>4 DEF feedback, VotesOK, Standing, PromisesKept, Corrected
<1>5. ASSUME UNCHANGED <<feedback, gate>> PROVE Owed'
  BY <1>1, <1>5 DEF feedback, gate, Owed, CorrectionsAsked
<1>6. ASSUME NEW v \in Voters, (Ops < MaxOps /\ Rate(v)) \/ RecordStep(v),
             owed' = [p \in Runners |-> owed[p] \cap standing'],
             UNCHANGED <<durable, traces, pipe, baseline, shown, started, last, wanted, disturbed>>
      PROVE  QualityInv'
  <2>1. VotesOK' /\ Standing' /\ Counted' /\ ended' = ended /\ Busy' = Busy
    BY <1>1, <1>3, <1>6, StepVotes, StepStanding
  <2>2. PipesOK' /\ Wanted' /\ Explained'
    BY <1>1, <1>6 DEF PipesOK, Wanted, NoCreep, Explained, EvalExplainsGate
  <2>3. garbled => garbled'
    BY <1>6 DEF Rate, RecordStep, SaveFeedback, SaveCase, SaveRaises
  <2>4. Owed'
    BY <1>1, <1>6, <2>3 DEF Owed, CorrectionsAsked, PipesOK
  <2>5. (RecordStep(v) => entries' = entries) /\ (Rate(v) => entries' = entries + 1)
    BY DEF Rate, RecordStep, SaveFeedback, SaveCase, SaveRaises
  <2>6. Ops' <= MaxOps
    <3>1. Ops' = started' + entries' + ended' + Cardinality(Busy')
      BY DEF Ops, Busy
    <3> HIDE DEF Ops
    <3> QED BY <1>1, <1>6, <2>1, <2>5, <3>1
  <2> QED BY <2>1, <2>2, <2>4, <2>6 DEF QualityInv
<1>7. ASSUME NEW t \in Tracers, (Ops < MaxOps /\ EndRun(t)) \/ TraceStep(t), UNCHANGED <<durable, feedback, gate>>
      PROVE  QualityInv'
  <2>1. /\ Counted'
        /\ EndRun(t)    => ended' = ended /\ Cardinality(Busy') = Cardinality(Busy) + 1
        /\ TraceStep(t) => \/ ended' = ended /\ Cardinality(Busy') = Cardinality(Busy)
                           \/ ended' = ended + 1 /\ Cardinality(Busy') = Cardinality(Busy) - 1
    BY <1>1, <1>7, StepCounted
  <2>2. Ops' <= MaxOps
    <3>1. Ops' = started' + entries' + ended' + Cardinality(Busy') /\ started' = started /\ entries' = entries
      BY <1>7 DEF Ops, Busy, gate, feedback
    <3> HIDE DEF Ops
    <3> QED BY <1>1, <1>7, <2>1, <3>1
  <2> QED BY <1>2, <1>4, <1>5, <1>7, <2>1, <2>2 DEF QualityInv
<1>8. ASSUME NEW p \in Runners, (Ops < MaxOps /\ Begun(p)) \/ Pipeline(p), UNCHANGED <<durable, feedback, traces>>
      PROVE  QualityInv'
  <2>1. PipesOK' /\ Owed' /\ Wanted' /\ Explained'
    BY <1>1, <1>8, StepPipes, StepOwed, StepWanted, StepExplained
  <2>2. (Begun(p) => started' = started + 1) /\ (Pipeline(p) => started' = started)
    BY <1>1, PipeMoves DEF Pipeline, ReadRegressions, Compare, Evaluate, Judge, OpenBaseline, DumpBaseline, Fail
  <2>3. Ops' <= MaxOps
    <3>1. Ops' = started' + entries' + ended' + Cardinality(Busy')
      BY DEF Ops, Busy
    <3> HIDE DEF Ops
    <3> QED BY <1>1, <1>3, <1>4, <1>8, <2>2, <3>1
  <2> QED BY <1>3, <1>4, <1>8, <2>1, <2>3 DEF QualityInv
<1>9. CASE Next
  BY <1>6, <1>7, <1>8, <1>9 DEF Next, Begun
<1>10. CASE UNCHANGED vars
  <2>1. Ops' = Ops
    BY <1>10 DEF vars, gate, feedback, traces, Ops
  <2>2. UNCHANGED <<durable, feedback, traces, gate>>
    BY <1>10 DEF vars
  <2> QED BY <1>1, <1>2, <1>3, <1>4, <1>5, <2>1, <2>2, QualityConstants DEF QualityInv
<1> QED BY <1>9, <1>10

(* The inductive invariant holds in every reachable state.                 *)
LEMMA QualityAlways == Spec => []QualityInv
BY InitQuality, StepQuality, PTL DEF Spec

(* The pipelines, the votes and the traces are where the code has a line   *)
(* for them, and the counts within what was asked for.                     *)
THEOREM QualityTypes == Spec => []TypeOK
<1>1. QualityInv => TypeOK
  <2> SUFFICES ASSUME QualityInv PROVE TypeOK
    OBVIOUS
  <2>1. FeedbackTypeOK
    BY DEF QualityInv, VotesOK, Votes, FeedbackTypeOK
  <2>2. {rows, lines, ended, fellBack, failures, started} \subseteq 0 .. MaxOps
    <3>1. IsFiniteSet(Busy) /\ Appending \subseteq Busy
      BY DEF QualityInv, Counted, Busy, Appending
    <3>2. Cardinality(Appending) <= Cardinality(Busy)
          /\ Cardinality(Busy) \in Nat /\ Cardinality(Appending) \in Nat
      BY <3>1, FS_Subset, FS_CardinalityType
    <3>3. Ops = started + entries + ended + Cardinality(Busy)
      BY DEF Ops, Busy
    <3> HIDE DEF Ops
    <3> QED BY <3>2, <3>3, QualityConstants DEF QualityInv, Counted, PipesOK, VotesOK
  <2> QED BY <2>1, <2>2 DEF QualityInv, Counted, PipesOK, Pipes, Verdicts, TypeOK
<1> QED BY <1>1, QualityAlways, PTL

(* Who was told that a down-vote was promoted finds the question in the    *)
(* regression set for good.                                                *)
THEOREM PromisesAreKept == Spec => []PromisesKept
<1>1. QualityInv => PromisesKept
  BY DEF QualityInv, Standing
<1> QED BY <1>1, QualityAlways, PTL

(* An evaluation asks every question whose correction stands.              *)
THEOREM CorrectionsAreAsked == Spec => []CorrectionsAsked
<1>1. QualityInv => CorrectionsAsked
  BY DEF QualityInv, Owed
<1> QED BY <1>1, QualityAlways, PTL

(* However many runs pass against a baseline, the last is within the       *)
(* threshold of one somebody wanted.                                       *)
THEOREM NothingCreeps == Spec => []NoCreep
<1>1. QualityInv => NoCreep
  BY DEF QualityInv, Wanted
<1> QED BY <1>1, QualityAlways, PTL

(* Undisturbed, /eval explains what the gate or the watcher said last.     *)
THEOREM GateIsExplained == Spec => []EvalExplainsGate
<1>1. QualityInv => EvalExplainsGate
  BY DEF QualityInv, Explained, EvalExplainsGate
<1> QED BY <1>1, QualityAlways, PTL

(* /metrics counts no operation twice and loses no more than what raised.  *)
THEOREM TracesCountedOnce == Spec => []CountedOnce
<1>1. QualityInv => CountedOnce
  <2> SUFFICES ASSUME QualityInv PROVE CountedOnce
    OBVIOUS
  <2>1. Counted /\ Cardinality(Appending) \in Nat
    BY FS_CardinalityType DEF QualityInv, Counted
  <2>2. \A n \in ReadableTraces : n = rows \/ n = lines
    BY DEF ReadableTraces
  <2>3. {rows, lines, ended, fellBack, failures} \subseteq Nat
    BY <2>1 DEF Counted
  <2>4. \A n \in ReadableTraces : n <= ended + Cardinality(Appending)
    BY <2>1, <2>2, <2>3 DEF Counted
  <2>5. rows + lines >= ended - 2 * failures
    BY <2>1, <2>3 DEF Counted
  <2> QED BY <2>1, <2>4, <2>5 DEF Counted, CountedOnce, Appending
<1> QED BY <1>1, QualityAlways, PTL
=============================================================================

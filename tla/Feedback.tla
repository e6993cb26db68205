------------------------------ MODULE Feedback ------------------------------
(***************************************************************************)
(* Ratings of answers and the regression set, evaluation/feedback.py: POST *)
(* /feedback appends the entry and then, for a down-vote, the regression   *)
(* case; the last case of a question wins.  With DATABASE_URL they are     *)
(* rows, which a request that raises may have committed; without, lines of *)
(* a file, of which a failed append may leave a piece that makes the line  *)
(* appended next unreadable.                                               *)
(***************************************************************************)
EXTENDS Integers, Database

CONSTANTS
  Voters,       \* threads of POST /feedback
  Questions,    \* the questions that are rated
  References,   \* corrections users supply
  NoReference,  \* a down-vote without one
  NoCase,       \* the question is not in the regression set
  StoreRaises   \* may the store raise?

ASSUME FeedbackConstants ==
  /\ NoReference \notin References /\ NoCase \notin References \cup {NoReference}
  /\ StoreRaises \in BOOLEAN

VARIABLES
  entries,   \* BOUND: ratings asked for; every one has its own id
  saved,     \* the ratings that are stored
  cases,     \* load_regression_cases
  torn,      \* does the file end in a piece of a line?
  vote,      \* what each thread is recording
  garbled,   \* history: was an acknowledged case appended to such a piece?
  promised,  \* history: questions whose promotion was acknowledged
  standing   \* history: ... with a correction that no later vote replaced

feedback == <<entries, saved, cases, torn, vote, garbled, promised, standing>>

NoVote == [at |-> "idle", id |-> 0, question |-> NoCase, down |-> FALSE, reference |-> NoReference]

FeedbackInit ==
  /\ entries = 0 /\ saved = {}
  /\ cases = [q \in Questions |-> NoCase] /\ torn = FALSE
  /\ vote = [v \in Voters |-> NoVote]
  /\ garbled = FALSE /\ promised = {} /\ standing = {}
-----------------------------------------------------------------------------
(* Down-votes without a correction withdraw what the question had.         *)
Withdraw(q, down, reference) ==
  standing' = IF down /\ reference = NoReference THEN standing \ {q} ELSE standing

(* A rating comes in; record_feedback gives it an id.                      *)
Rate(v) ==
  /\ vote[v].at = "idle"
  /\ entries' = entries + 1
  /\ \E q \in Questions, down \in BOOLEAN, reference \in References \cup {NoReference} :
       /\ vote' = [vote EXCEPT ![v] = [at |-> "saving", id |-> entries + 1, question |-> q,
                                       down |-> down, reference |-> reference]]
       /\ Withdraw(q, down, reference)
  /\ UNCHANGED <<saved, cases, torn, garbled, promised>>

(* save_feedback; an up-vote is done with that.                            *)
SaveFeedback(v) ==
  /\ vote[v].at = "saving"
  /\ saved' = saved \cup {vote[v].id}
  /\ vote' = [vote EXCEPT ![v] = IF vote[v].down THEN [@ EXCEPT !.at = "promoting"] ELSE NoVote]
  /\ UNCHANGED <<entries, cases, torn, garbled, promised, standing>>

(* Slip: ON CONFLICT DO NOTHING, as for the entries.                       *)
PutCaseOnce(v) ==
  IF torn THEN UNCHANGED cases
  ELSE cases' = [cases EXCEPT ![vote[v].question] = IF @ = NoCase THEN vote[v].reference ELSE @]

(* What a stored case does to the set: it replaces the question's last.    *)
PutCase(v) ==
  IF torn THEN UNCHANGED cases
  ELSE cases' = [cases EXCEPT ![vote[v].question] = vote[v].reference]

(* Is another thread about to replace the correction by nothing?           *)
Undermined(v) ==
  \E w \in Voters \ {v} :
     /\ vote[w].at # "idle" /\ vote[w].question = vote[v].question
     /\ vote[w].down /\ vote[w].reference = NoReference

(* The reply: promoted_to_regression.                                      *)
Acknowledge(v) ==
  /\ promised' = promised \cup {vote[v].question}
  /\ standing' = IF vote[v].reference = NoReference \/ Undermined(v) THEN standing
                 ELSE standing \cup {vote[v].question}
  /\ vote' = [vote EXCEPT ![v] = NoVote]

(* save_regression_case.                                                   *)
SaveCase(v) ==
  /\ vote[v].at = "promoting"
  /\ PutCase(v) /\ torn' = FALSE /\ garbled' = (garbled \/ torn)
  /\ Acknowledge(v)
  /\ UNCHANGED <<entries, saved>>

(* Slip: a promotion that failed is reported like one that did not.        *)
SaveRaisesSilently(v) ==
  /\ StoreRaises /\ vote[v].at = "promoting"
  /\ Acknowledge(v)
  /\ UNCHANGED <<entries, saved, cases, torn, garbled>>

(* A store that raises, before or after a row was committed or in the      *)
(* middle of a line; the client is told of an internal error.              *)
SaveRaises(v) ==
  /\ StoreRaises /\ vote[v].at # "idle"
  /\ vote' = [vote EXCEPT ![v] = NoVote]
  /\ \/ UNCHANGED <<saved, cases, torn>>
     \/ /\ durable /\ vote[v].at = "saving"
        /\ saved' = saved \cup {vote[v].id} /\ UNCHANGED <<cases, torn>>
     \/ /\ durable /\ vote[v].at = "promoting"
        /\ PutCase(v) /\ UNCHANGED <<saved, torn>>
     \/ /\ ~ durable /\ vote[v].at = "promoting"
        /\ torn' = TRUE /\ UNCHANGED <<saved, cases>>
  /\ UNCHANGED <<entries, garbled, promised, standing>>

(* regression_qa_pairs: the questions whose case has a reference.          *)
Corrected == {q \in Questions : cases[q] \in References}

RecordStep(v) == SaveFeedback(v) \/ SaveCase(v) \/ SaveRaises(v)
-----------------------------------------------------------------------------
FeedbackTypeOK ==
  /\ durable \in BOOLEAN /\ torn \in BOOLEAN /\ garbled \in BOOLEAN
  /\ cases \in [Questions -> References \cup {NoReference, NoCase}]
  /\ \A v \in Voters : vote[v] = NoVote \/ vote[v].at \in {"saving", "promoting"}
  /\ saved \subseteq 1 .. entries
  /\ promised \subseteq Questions /\ standing \subseteq promised
  /\ durable => ~ torn /\ ~ garbled

(* Whoever is told that a down-vote was promoted finds the question in the *)
(* regression set ever after, whatever raised and whoever voted meanwhile; *)
(* the exception is a line appended to what a failed append left.          *)
PromisesKept == garbled \/ \A q \in promised : cases[q] # NoCase
=============================================================================

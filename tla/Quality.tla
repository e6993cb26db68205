------------------------------ MODULE Quality ------------------------------
(***************************************************************************)
(* The quality loop: users' corrections become regression cases            *)
(* (Feedback), `pipeline.py` evaluates with them and gates its scores      *)
(* against the baseline, a watcher that re-ingested evaluates without them *)
(* and only says how its scores compare, /eval shows the latest scores and *)
(* /metrics counts the traces (Traces).                                    *)
(***************************************************************************)
EXTENDS Scores, Feedback, Traces

CONSTANTS
  Runners,    \* processes of pipeline.py and watchers that share a checkout
  Outcomes,   \* the scores an evaluation may have
  Threshold,  \* drift.regression_threshold
  Floor,      \* drift.faithfulness_threshold
  Committed,  \* the baseline that is committed in the repository
  NoFile,     \* no such file
  Unreadable, \* a file that was emptied and not yet written, or garbled
  MaxOps      \* BOUND: ratings, traced operations and runs

Readable == {FiniteOnly(s) : s \in Outcomes}

ASSUME QualityConstants ==
  /\ MaxOps \in Nat /\ NoFile # Unreadable /\ Committed \in Readable
  /\ \A s \in Outcomes : {NoFile, Unreadable} \cap {s, FiniteOnly(s)} = {}

VARIABLES
  pipe,      \* what each pipeline is doing
  baseline,  \* metrics/baseline.json
  shown,     \* metrics/latest_eval.json as /eval reads it
  started,   \* BOUND: runs so far
  last,      \* history: the last verdict, and what was compared with what
  wanted,    \* history: the baselines asked for, or the first there was
  owed,      \* history: corrections that stood as it began and still do
  disturbed  \* history: did runs overlap, raise or get killed?

gate == <<pipe, baseline, shown, started, last, wanted, owed, disturbed>>
vars == <<durable, feedback, traces, gate>>

(* asked: the regression cases among the questions; intent (history): is   *)
(* what it may save as the baseline one of those wanted?                   *)
Idle == [at |-> "idle", mode |-> "gate", asked |-> {}, scores |-> NoFile, intent |-> FALSE]

Init ==
  /\ DatabaseInit /\ FeedbackInit /\ TracesInit
  /\ pipe = [p \in Runners |-> Idle] /\ started = 0
  /\ baseline \in {Committed, NoFile} /\ shown = NoFile
  /\ last = [verdict |-> "none", scores |-> NoFile, against |-> NoFile]
  /\ wanted = {baseline} \ {NoFile} /\ owed = [p \in Runners |-> {}] /\ disturbed = FALSE

Goto(p, place) == pipe' = [pipe EXCEPT ![p].at = place]
Exit(p) == pipe' = [pipe EXCEPT ![p] = Idle]
-----------------------------------------------------------------------------
(* A run begins, and questions are drawn from the documents.               *)
Begin(p, place, mode, promises) ==
  /\ pipe[p].at = "idle" /\ started' = started + 1
  /\ pipe' = [pipe EXCEPT ![p] = [Idle EXCEPT !.at = place, !.mode = mode]]
  /\ owed' = [owed EXCEPT ![p] = promises]
  /\ disturbed' = (disturbed \/ \E r \in Runners : pipe[r].at # "idle")
  /\ UNCHANGED <<baseline, shown, last, wanted>>

(* pipeline.py has ingested.                                               *)
Start(p) == \E m \in {"gate", "set", "compare"} : Begin(p, "reading", m, standing)

(* run_auto_reingest, of a watcher or once, has found changes and ingested *)
(* them; it evaluates without the regressions.                             *)
React(p) == Begin(p, "scoring", "watch", {})

(* --include-regressions: the corrected questions are evaluated, too.      *)
ReadRegressions(p) ==
  /\ pipe[p].at = "reading"
  /\ pipe' = [pipe EXCEPT ![p].at = "scoring", ![p].asked = Corrected]
  /\ UNCHANGED <<baseline, shown, started, last, wanted, owed, disturbed>>

(* Slip: a comparison exports its last scores, too.                        *)
CompareExporting(p) ==
  /\ pipe[p].at = "scoring" /\ pipe[p].mode = "compare" /\ Exit(p)
  /\ \E s \in Outcomes : shown' = FiniteOnly(s)
  /\ UNCHANGED <<baseline, started, last, wanted, owed, disturbed>>

(* compare_retrievers and compare_naive_vs_agentic score several times and *)
(* write a file of their own, which only people read.                      *)
Compare(p) ==
  /\ pipe[p].at = "scoring" /\ pipe[p].mode = "compare" /\ Exit(p)
  /\ UNCHANGED <<baseline, shown, started, last, wanted, owed, disturbed>>

(* run_evaluation scores the answers and exports latest_eval.json, whether *)
(* they will pass or not, and for a watcher, too.  The row may fail to be  *)
(* written, which is swallowed.                                            *)
Evaluate(p) ==
  /\ pipe[p].at = "scoring" /\ pipe[p].mode # "compare"
  /\ \E s \in Outcomes :
       /\ pipe' = [pipe EXCEPT ![p].at = "gating", ![p].scores = s]
       /\ \/ shown' = FiniteOnly(s) /\ UNCHANGED disturbed
          \/ durable /\ disturbed' = TRUE /\ UNCHANGED shown
  /\ UNCHANGED <<baseline, started, last, wanted, owed>>

(* The run becomes the baseline.                                           *)
Save(p, intended) ==
  /\ pipe' = [pipe EXCEPT ![p].at = "saving", ![p].intent = intended]
  /\ last' = [verdict |-> "saved", scores |-> NoFile, against |-> NoFile]

(* check_drift; without a baseline only the floor counts.                  *)
Passes(scores, base) ==
  LET nothing == [m \in DOMAIN scores |-> Missing] IN
  PassesGate(scores, IF base = NoFile THEN nothing ELSE base, Threshold, Floor)

(* The run ends with its verdict: the exit code of a gate, a watcher's log *)
(* and report.                                                             *)
Announce(p) ==
  /\ Exit(p)
  /\ last' = [verdict |-> IF Passes(pipe[p].scores, baseline) THEN "passed" ELSE "drifted",
              scores |-> pipe[p].scores, against |-> baseline]

(* Slip: a baseline that cannot be parsed counts as none.                  *)
EnforceForgiving(p) ==
  IF baseline \in {NoFile, Unreadable} THEN Save(p, wanted = {}) ELSE Announce(p)

(* enforce_drift_or_exit without --set-baseline: if there is no baseline,  *)
(* the run becomes it, but for a watcher's; one that cannot be parsed      *)
(* raises, see Fail.                                                       *)
Enforce(p) ==
  /\ baseline # Unreadable
  /\ IF baseline = NoFile /\ pipe[p].mode # "watch" THEN Save(p, wanted = {}) ELSE Announce(p)

Judge(p) ==
  /\ pipe[p].at = "gating"
  /\ IF pipe[p].mode = "set" THEN Save(p, TRUE) ELSE Enforce(p)
  /\ UNCHANGED <<baseline, shown, started, wanted, owed, disturbed>>

(* save_baseline opens the file, which empties it ...                      *)
OpenBaseline(p) ==
  /\ pipe[p].at = "saving" /\ Goto(p, "dumping")
  /\ baseline' = Unreadable
  /\ wanted' = wanted \cup (IF pipe[p].intent THEN {FiniteOnly(pipe[p].scores)} ELSE {})
  /\ UNCHANGED <<shown, started, last, owed, disturbed>>

(* ... and dumps; another's longer text may stick out below.               *)
DumpBaseline(p) ==
  /\ pipe[p].at = "dumping" /\ Exit(p)
  /\ baseline' \in {FiniteOnly(pipe[p].scores)} \cup
                   (IF baseline = Unreadable THEN {} ELSE {Unreadable})
  /\ UNCHANGED <<shown, started, last, wanted, owed, disturbed>>

(* A run raises or is killed, at any step.                                 *)
Fail(p) ==
  /\ pipe[p].at # "idle" /\ Exit(p) /\ disturbed' = TRUE
  /\ UNCHANGED <<baseline, shown, started, last, wanted, owed>>

Pipeline(p) ==
  ReadRegressions(p) \/ Compare(p) \/ Evaluate(p) \/ Judge(p) \/ OpenBaseline(p) \/ DumpBaseline(p) \/ Fail(p)

Ops == started + entries + ended + Cardinality({t \in Tracers : tracing[t] # "running"})

Next ==
  \/ \E v \in Voters :
       /\ \/ Ops < MaxOps /\ Rate(v)
          \/ RecordStep(v)
       /\ owed' = [p \in Runners |-> owed[p] \cap standing']
       /\ UNCHANGED <<durable, traces, pipe, baseline, shown, started, last, wanted, disturbed>>
  \/ \E t \in Tracers :
       /\ \/ Ops < MaxOps /\ EndRun(t)
          \/ TraceStep(t)
       /\ UNCHANGED <<durable, feedback, gate>>
  \/ \E p \in Runners :
       /\ \/ Ops < MaxOps /\ (Start(p) \/ React(p))
          \/ Pipeline(p)
       /\ UNCHANGED <<durable, feedback, traces>>

Spec == Init /\ [][Next]_vars
-----------------------------------------------------------------------------
TypeOK ==
  /\ FeedbackTypeOK
  /\ piece \in BOOLEAN /\ tracing \in [Tracers -> {"running", "insert", "append"}]
  /\ {rows, lines, ended, fellBack, failures, started} \subseteq 0 .. MaxOps
  /\ pipe \in [Runners -> [at : {"idle", "reading", "scoring", "gating", "saving", "dumping"},
                           mode : {"gate", "set", "compare", "watch"}, asked : SUBSET Questions,
                           scores : Outcomes \cup {NoFile}, intent : BOOLEAN]]
  /\ baseline \in Readable \cup {NoFile, Unreadable} /\ shown \in Readable \cup {NoFile}
  /\ last.verdict \in {"none", "saved", "passed", "drifted"}
  /\ wanted \subseteq Readable /\ owed \in [Runners -> SUBSET Questions]
  /\ disturbed \in BOOLEAN

(* "so a fixed failure stays fixed": an evaluation with regressions asks   *)
(* every question whose correction was acknowledged before it began,       *)
(* unless a later down-vote came without one.                              *)
CorrectionsAsked ==
  garbled \/ \A p \in Runners :
     pipe[p].at \in {"scoring", "gating", "saving", "dumping"} => owed[p] \subseteq pipe[p].asked

(* Small regressions do not add up: a run that passes against a baseline   *)
(* is within the threshold of one somebody asked for or committed, or of   *)
(* the first there was, however many runs passed since, overlap or were    *)
(* killed while saving.                                                    *)
NoCreep ==
  (last.verdict = "passed" /\ last.against # NoFile) =>
     \E b \in wanted : Regressed(FiniteOnly(last.scores), b, Threshold) = {}

(* What /eval shows explains the last verdict, a gate's or a watcher's:    *)
(* unless runs overlap or fail, the shown scores pass against the shown    *)
(* baseline if it was "passed", and do not if it was "drifted".            *)
EvalExplainsGate ==
  (~ disturbed /\ \A p \in Runners : pipe[p].at \notin {"gating", "saving", "dumping"}) =>
     /\ last.verdict = "passed" => Passes(shown, baseline)
     /\ last.verdict = "drifted" => ~ Passes(shown, baseline)
=============================================================================

------------------------------- MODULE Traces -------------------------------
(***************************************************************************)
(* Request traces, observability/tracing.py and stats.py.  Tracer.__exit__ *)
(* writes one record for every traced operation, AgenticController.run and *)
(* run_auto_reingest: a row in Postgres or, without it or when that        *)
(* raises, a line of a file; a second exception is swallowed, for a trace  *)
(* must never fail the request.  An append that raises may leave a piece   *)
(* of a line, which makes the line appended next unreadable.  /metrics     *)
(* counts the records of the store that answers.                           *)
(***************************************************************************)
EXTENDS Integers, FiniteSets, Database

CONSTANTS
  Tracers,      \* threads of the API, the pipeline and the watcher
  TracesRaise   \* may the stores raise?

VARIABLES
  tracing,   \* how far each tracer's __exit__ is
  rows,      \* records in Postgres
  lines,     \* readable records in the file
  piece,     \* does the file end in a piece of a line?
  ended,     \* history: traced operations that ended
  fellBack,  \* history: records that went to the file though Postgres is on
  failures   \* history: appends that raised

traces == <<tracing, rows, lines, piece, ended, fellBack, failures>>

TracesInit ==
  /\ tracing = [t \in Tracers |-> "running"]
  /\ rows = 0 /\ lines = 0 /\ piece = FALSE /\ ended = 0 /\ fellBack = 0 /\ failures = 0
-----------------------------------------------------------------------------
(* An operation ends; record_trace begins with Postgres if it is enabled.  *)
EndRun(t) ==
  /\ tracing[t] = "running"
  /\ tracing' = [tracing EXCEPT ![t] = IF durable THEN "insert" ELSE "append"]
  /\ UNCHANGED <<rows, lines, piece, ended, fellBack, failures>>

Done(t) == tracing' = [tracing EXCEPT ![t] = "running"] /\ ended' = ended + 1

Insert(t) ==
  /\ tracing[t] = "insert" /\ Done(t)
  /\ rows' = rows + 1
  /\ UNCHANGED <<lines, piece, fellBack, failures>>

(* Postgres raises, perhaps after the row was committed: try the file.     *)
InsertRaises(t) ==
  /\ TracesRaise /\ tracing[t] = "insert"
  /\ tracing' = [tracing EXCEPT ![t] = "append"]
  /\ rows' \in {rows, rows + 1}
  /\ UNCHANGED <<lines, piece, ended, fellBack, failures>>

AppendTrace(t) ==
  /\ tracing[t] = "append" /\ Done(t)
  /\ lines' = lines + (IF piece THEN 0 ELSE 1) /\ piece' = FALSE
  /\ fellBack' = fellBack + (IF durable THEN 1 ELSE 0)
  /\ UNCHANGED <<rows, failures>>

(* The file cannot be written either; Tracer.__exit__ goes on.             *)
AppendRaises(t) ==
  /\ TracesRaise /\ tracing[t] = "append" /\ Done(t)
  /\ failures' = failures + 1
  /\ piece' \in {piece, TRUE}
  /\ UNCHANGED <<rows, lines, fellBack>>

TraceStep(t) == Insert(t) \/ InsertRaises(t) \/ AppendTrace(t) \/ AppendRaises(t)

(* Slip: what fell back is added to what Postgres has.                     *)
ReadableBoth == {rows + lines}

(* The counts that load_traces may give /metrics: of Postgres if it        *)
(* answers, of the file otherwise.                                         *)
ReadableTraces == (IF durable THEN {rows} ELSE {}) \cup
                  (IF durable /\ ~ TracesRaise THEN {} ELSE {lines})
-----------------------------------------------------------------------------
(* /metrics never counts an operation twice, not even one whose record is  *)
(* in both stores; only an append that raises costs records, its own and   *)
(* at most the next; and while Postgres answers, /metrics misses only      *)
(* those that fell back.                                                   *)
CountedOnce ==
  /\ \A n \in ReadableTraces : n <= ended + Cardinality({t \in Tracers : tracing[t] = "append"})
  /\ rows + lines >= ended - 2 * failures
  /\ durable => rows >= ended - fellBack - failures
=============================================================================

----------------------------- MODULE Benchmark -----------------------------
(***************************************************************************)
(* The multi-LLM benchmark: `pipeline.py --compare-models` scores every    *)
(* model, writes model_scores.json and then champion.json, the model that  *)
(* answers from then on.  POST /models/benchmark runs it in a subprocess   *)
(* of a background thread, one at a time; an operator may run it too.      *)
(***************************************************************************)
EXTENDS Integers, FiniteSets, MetricsBlob

CONSTANTS
  Jobs,       \* background threads of the API, each with its subprocess
  Operators,  \* other processes that run the benchmark
  Models,     \* of models.registry, now or when a snapshot was committed
  NoModel,    \* no model was scored without an error
  MayCrash,   \* may a benchmark process be killed, or the API restarted?
  Ephemeral,  \* may the container be replaced, losing its files?
  MaxRuns     \* BOUND: benchmarks

Procs == Jobs \cup Operators

ASSUME BenchmarkConstants ==
  /\ Names = {"scores", "champion"}
  /\ Jobs \cap Operators = {} /\ NoModel \notin Models /\ MaxRuns \in Nat
  /\ MayCrash \in BOOLEAN /\ Ephemeral \in BOOLEAN
  /\ \A v \in {Absent, Empty, Garbled} : v \notin [run : Nat, champion : Models \cup {NoModel}]
  /\ Shipped \in [Names -> [run : {0}, champion : Models \cup {NoModel}] \cup {Absent}]
  /\ Shipped["champion"] # Absent => Shipped["champion"].champion \in Models

VARIABLES
  bench,      \* _BENCH["state"]
  thread,     \* where each background thread is
  at,         \* where each benchmark process is
  name,       \* the snapshot it writes
  result,     \* its run and the champion it selected
  runs,       \* BOUND: benchmarks so far
  jobRun,     \* history: the run of the last job that was recorded
  before,     \* history: the runs whose write had ended as a process's began
  ended,      \* history: the runs whose write of a snapshot ended; 0 is shipped
  superseded, \* history: the runs whose write ended before a later one began
  disturbed,  \* history: since a benchmark last began alone, or if none has:
              \* did another begin, or anything raise, crash or lose files?
  swallowed   \* history: was the exception of a snapshot's last upsert swallowed?

api     == <<bench, thread, jobRun>>
blobs   == <<file, blob>>
history == <<before, ended, superseded>>
faults  == <<disturbed, swallowed>>
vars    == <<api, blobs, at, name, result, runs, history, faults>>

Running == {p \in Procs : at[p] \in {"scoring", "open", "dump", "upsert"}}

NoRun == [run |-> 0, champion |-> NoModel]

Init ==
  /\ BlobInit
  /\ bench = "idle" /\ thread = [j \in Jobs |-> "none"]
  /\ at = [p \in Procs |-> "idle"] /\ name = [p \in Procs |-> "scores"]
  /\ result = [p \in Procs |-> NoRun]
  /\ runs = 0 /\ jobRun = 0
  /\ before = [p \in Procs |-> {}]
  /\ ended = [n \in Names |-> {0}] /\ superseded = [n \in Names |-> {}]
  /\ disturbed = TRUE /\ swallowed = [n \in Names |-> FALSE]
-----------------------------------------------------------------------------
(* A benchmark is asked for; which model it will find best is open.        *)
Draw(p) ==
  /\ runs < MaxRuns /\ runs' = runs + 1
  /\ \E m \in Models \cup {NoModel} :
       result' = [result EXCEPT ![p] = [run |-> runs + 1, champion |-> m]]

(* POST /models/benchmark; while one is running it is refused with 409.    *)
StartBenchmark(j) ==
  /\ thread[j] = "none" /\ at[j] = "idle" /\ Draw(j)
  /\ bench # "running" /\ bench' = "running"
  /\ thread' = [thread EXCEPT ![j] = "starting"]
  /\ UNCHANGED <<jobRun, blobs, at, name, history, faults>>

(* A benchmark process begins: the models are scored.                      *)
Launch(p) ==
  /\ at[p] = "idle" /\ at' = [at EXCEPT ![p] = "scoring"]
  /\ disturbed' = (Running # {})
  /\ UNCHANGED <<name, blobs, history, swallowed>>

(* The job's thread opens its subprocess ...                               *)
Popen(j) ==
  /\ thread[j] = "starting" /\ Launch(j)
  /\ thread' = [thread EXCEPT ![j] = "waiting"]
  /\ UNCHANGED <<bench, jobRun, result, runs>>

(* Slip: an exception ends the thread and nobody is told.                  *)
PopenRaisesSilently(j) ==
  /\ MayRaise /\ thread[j] = "starting"
  /\ thread' = [thread EXCEPT ![j] = "none"]
  /\ UNCHANGED <<bench, jobRun, blobs, at, name, result, runs, history, faults>>

(* ... or cannot.                                                          *)
PopenRaises(j) ==
  /\ MayRaise /\ thread[j] = "starting"
  /\ thread' = [thread EXCEPT ![j] = "none"]
  /\ bench' = "error"
  /\ UNCHANGED <<jobRun, blobs, at, name, result, runs, history, faults>>

(* Slip: the return code is not looked at.                                 *)
RecordAsDone(j) ==
  /\ thread[j] = "waiting" /\ at[j] \in {"exit0", "exit1"}
  /\ bench' = "done" /\ jobRun' = result[j].run
  /\ thread' = [thread EXCEPT ![j] = "none"]
  /\ at' = [at EXCEPT ![j] = "idle"]
  /\ UNCHANGED <<blobs, name, result, runs, history, faults>>

(* The subprocess has exited: the thread records the outcome.              *)
Record(j) ==
  /\ thread[j] = "waiting" /\ at[j] \in {"exit0", "exit1"}
  /\ bench' = (IF at[j] = "exit0" THEN "done" ELSE "error") /\ jobRun' = result[j].run
  /\ thread' = [thread EXCEPT ![j] = "none"]
  /\ at' = [at EXCEPT ![j] = "idle"]
  /\ UNCHANGED <<blobs, name, result, runs, history, faults>>

(* An operator runs the benchmark from the command line.                   *)
Operate(p) == Draw(p) /\ Launch(p) /\ UNCHANGED api
-----------------------------------------------------------------------------
Exit(p, code) == at' = [at EXCEPT ![p] = code]

(* benchmark_models has scored all models and writes its first snapshot.   *)
Score(p) ==
  /\ at[p] = "scoring" /\ at' = [at EXCEPT ![p] = "open"]
  /\ name' = [name EXCEPT ![p] = "scores"]
  /\ UNCHANGED <<api, blobs, result, runs, history, faults>>

Open(p) ==
  /\ at[p] = "open" /\ at' = [at EXCEPT ![p] = "dump"]
  /\ OpenBlob(name[p])
  /\ before' = [before EXCEPT ![p] = ended[name[p]]]
  /\ UNCHANGED <<api, name, result, runs, ended, superseded, faults>>

(* Slip: a champion that was recorded is not replaced.                     *)
EndWriteOnce(p) ==
  /\ ended' = [ended EXCEPT ![name[p]] = @ \cup {result[p].run}]
  /\ superseded' = [superseded EXCEPT ![name[p]] = @ \cup before[p]]
  /\ IF name[p] = "scores" /\ result[p].champion # NoModel /\ file["champion"] = Absent
       THEN name' = [name EXCEPT ![p] = "champion"] /\ at' = [at EXCEPT ![p] = "open"]
       ELSE Exit(p, "exit0") /\ UNCHANGED name

(* A write is over: the champion follows the scores if there is one, and   *)
(* then the process exits.                                                 *)
EndWrite(p) ==
  /\ ended' = [ended EXCEPT ![name[p]] = @ \cup {result[p].run}]
  /\ superseded' = [superseded EXCEPT ![name[p]] = @ \cup before[p]]
  /\ IF name[p] = "scores" /\ result[p].champion # NoModel
       THEN name' = [name EXCEPT ![p] = "champion"] /\ at' = [at EXCEPT ![p] = "open"]
       ELSE Exit(p, "exit0") /\ UNCHANGED name

Dump(p) ==
  /\ at[p] = "dump" /\ DumpBlob(name[p], result[p])
  /\ IF UsePostgres
       THEN at' = [at EXCEPT ![p] = "upsert"] /\ UNCHANGED <<name, ended, superseded>>
       ELSE EndWrite(p)
  /\ UNCHANGED <<api, result, runs, before, faults>>

Upsert(p) ==
  /\ at[p] = "upsert" /\ EndWrite(p)
  /\ \/ /\ UpsertBlob(name[p], result[p]) /\ UNCHANGED disturbed
        /\ swallowed' = [swallowed EXCEPT ![name[p]] = FALSE]
     \/ /\ SwallowUpsert /\ disturbed' = TRUE
        /\ swallowed' = [swallowed EXCEPT ![name[p]] = TRUE]
  /\ UNCHANGED <<api, result, runs, before>>

(* The pipeline raises before it writes, or is killed.                     *)
Fail(p) ==
  /\ \/ MayRaise /\ at[p] = "scoring"
     \/ MayCrash /\ at[p] \in {"scoring", "open", "dump", "upsert"}
  /\ Exit(p, "exit1") /\ disturbed' = TRUE
  /\ UNCHANGED <<api, blobs, name, result, runs, history, swallowed>>

(* A process nobody waits for is gone.                                     *)
Reap(p) ==
  /\ at[p] \in {"exit0", "exit1"} /\ (p \in Jobs => thread[p] # "waiting")
  /\ at' = [at EXCEPT ![p] = "idle"]
  /\ UNCHANGED <<api, blobs, name, result, runs, history, faults>>

(* The API process is restarted: its threads are gone, subprocesses go on. *)
RestartAPI ==
  /\ MayCrash /\ bench # "idle"
  /\ bench' = "idle" /\ jobRun' = 0
  /\ thread' = [j \in Jobs |-> "none"]
  /\ UNCHANGED <<blobs, at, name, result, runs, history, faults>>

(* The container is replaced: no process survives, and the files are those *)
(* of the image again.                                                     *)
Replace ==
  /\ Ephemeral
  /\ bench' = "idle" /\ jobRun' = 0
  /\ thread' = [j \in Jobs |-> "none"]
  /\ at' = [p \in Procs |-> "idle"]
  /\ file' = Shipped /\ UNCHANGED blob
  /\ disturbed' = TRUE
  /\ UNCHANGED <<name, result, runs, history, swallowed>>

Benchmarking(p) == Score(p) \/ Open(p) \/ Dump(p) \/ Upsert(p)

Working(j) == Popen(j) \/ PopenRaises(j) \/ Record(j)

Next ==
  \/ \E j \in Jobs : StartBenchmark(j) \/ Working(j)
  \/ \E p \in Operators : Operate(p)
  \/ \E p \in Procs : Benchmarking(p) \/ Fail(p) \/ Reap(p)
  \/ RestartAPI \/ Replace

Spec == Init /\ [][Next]_vars

(* Threads and processes are scheduled.                                    *)
FairSpec ==
  /\ Spec
  /\ \A j \in Jobs : WF_vars(Working(j))
  /\ \A p \in Procs : WF_vars(Benchmarking(p))
-----------------------------------------------------------------------------
Result == [run : 0 .. MaxRuns, champion : Models \cup {NoModel}]

TypeOK ==
  /\ file \in [Names -> Result \cup {Absent, Empty, Garbled}]
  /\ blob \in [Names -> Result \cup {Absent}]
  /\ bench \in {"idle", "running", "done", "error"}
  /\ thread \in [Jobs -> {"none", "starting", "waiting"}]
  /\ at \in [Procs -> {"idle", "scoring", "open", "dump", "upsert", "exit0", "exit1"}]
  /\ name \in [Procs -> Names] /\ result \in [Procs -> Result]
  /\ runs \in 0 .. MaxRuns /\ jobRun \in 0 .. MaxRuns
  /\ before \in [Procs -> SUBSET (0 .. MaxRuns)]
  /\ ended \in [Names -> SUBSET (0 .. MaxRuns)]
  /\ superseded \in [Names -> SUBSET (0 .. MaxRuns)]
  /\ disturbed \in BOOLEAN /\ swallowed \in [Names -> BOOLEAN]
  /\ \A v \in {file["champion"], blob["champion"]} \ {Absent, Empty, Garbled} : v.champion \in Models

(* start_benchmark: "one job per process", and while the state says one is *)
(* running there is one.                                                   *)
OneJob ==
  /\ Cardinality({j \in Jobs : thread[j] # "none"}) <= 1
  /\ bench = "running" <=> \E j \in Jobs : thread[j] # "none"

(* "done" means that the job wrote all it had to.                          *)
DoneMeansWritten ==
  (bench = "done" /\ jobRun > 0) =>
     /\ jobRun \in ended["scores"]
     /\ \A m \in Models : [run |-> jobRun, champion |-> m] \in {result[p] : p \in Procs} =>
           jobRun \in ended["champion"]

(* What GET /models/benchmark/status says is true: there is one job while  *)
(* it says "running", and none that wrote too little when it says "done",  *)
(* over exceptions, kills and restarts of either process.                  *)
JobStatusTrue == OneJob /\ DoneMeansWritten

(* blob_store.py: "latest-wins blobs".  What was written before the write  *)
(* of another ended benchmark began is read again in two cases only,       *)
(* though benchmarks overlap and are killed: from the row, until the next  *)
(* upsert, if the exception of the last one was swallowed; and from the    *)
(* file, if a replaced container has the one it was shipped with.          *)
LatestWins ==
  \A n \in Names :
     /\ ~ swallowed[n] => \A v \in FromRow(n) : v.run \notin superseded[n]
     /\ \A v \in FromFile(n) \ {Absent, Shipped[n]} : v.run \notin superseded[n]

(* A benchmark that runs alone and undisturbed mends what kills, overlaps, *)
(* swallowed upserts, replaced containers and the commits left apart: its  *)
(* scores are shown and, if they have a champion, that one is served.      *)
ChampionOfScores ==
  (~ disturbed /\ Running = {}) =>
     \E s \in Result :
        /\ Readable("scores") = {s}
        /\ s.champion # NoModel => Readable("champion") = {s}

(* A job that has its thread is reported done or failed.                   *)
JobEnds ==
  \A j \in Jobs : (bench = "running" /\ thread[j] # "none") ~> bench # "running"
=============================================================================

----------------------------- MODULE Automation -----------------------------
(***************************************************************************)
(* The watcher: run_auto_reingest over and over, by `--watch` or by a      *)
(* schedule of `--once`.  It compares the documents on disk with the       *)
(* ingest state file; if they differ it ingests as one more worker of      *)
(* Ingestion and then evaluates.  The other workers are the API process    *)
(* and the pipeline, which ingest without it.                              *)
(***************************************************************************)
EXTENDS Ingestion

CONSTANTS
  Watcher,  \* the worker whose ingestion the watcher runs
  Nested    \* documents in a subdirectory of data_dir

ASSUME WatcherIsWorker == Watcher \in Workers /\ Nested \subseteq Docs

VARIABLES
  wpc,        \* where the watcher is in run_auto_reingest
  evaluated,  \* history: the <<document, text>> pairs an evaluation was over
  interfered  \* history: see Interferes

watch    == <<wpc, evaluated, interfered>>
allvars  == <<vars, watch>>

Pairs(ds) == {<<d, disk[d]>> : d \in ds \cap Known(disk)}

(* detect_changes compares with the file, in Postgres mode too.            *)
Readable == file \notin {Empty, Garbled}
Changed  == {d \in Known(disk) : Readable => file[d] # disk[d]}
Removed  == {d \in Docs : Readable /\ file[d] # None /\ disk[d] = None}

(* What takes a change out of the watcher's sight: another run ingests it  *)
(* first, the watcher's run is cut short after it recorded some hashes, or *)
(* the document changes back and forth in the middle of that run.          *)
Interferes == interfered' = TRUE

AInit == Init /\ wpc = "asleep" /\ evaluated = {} /\ interfered = FALSE

(* Slip: only added documents are work.                                    *)
DetectAdded ==
  /\ wpc = "asleep" /\ Readable
  /\ wpc' = IF \E d \in Known(disk) : file[d] = None THEN "detected" ELSE "asleep"
  /\ UNCHANGED <<vars, evaluated, interfered>>

(* The watcher wakes and detects changes; `force` is a run without any.    *)
Detect ==
  /\ wpc = "asleep" /\ Readable
  /\ wpc' \in (IF Changed \cup Removed = {} THEN {"asleep"} ELSE {"detected"})
               \cup (IF MayForce THEN {"detected"} ELSE {})
  /\ UNCHANGED <<vars, evaluated, interfered>>

(* The ingest state does not parse: nothing catches the exception.         *)
DetectRaises ==
  /\ wpc = "asleep" /\ ~ Readable
  /\ wpc' = "ended"
  /\ UNCHANGED <<vars, evaluated, interfered>>

(* ingest_fn() is called ...                                               *)
BeginIngest ==
  /\ wpc = "detected" /\ Start(Watcher) /\ ~ force'[Watcher]
  /\ wpc' = "ingesting"
  /\ UNCHANGED <<evaluated, interfered>>

(* ... does its work; if it raises the report says ingest_failed ...       *)
IngestOn ==
  /\ wpc = "ingesting" /\ Step(Watcher)
  /\ wpc' = IF pc'[Watcher] = "idle" THEN "asleep" ELSE "ingesting"
  /\ interfered' = (interfered \/ pc'[Watcher] = "idle")
  /\ UNCHANGED evaluated

(* ... and returns.                                                        *)
EndIngest ==
  /\ wpc = "ingesting" /\ Leave(Watcher)
  /\ wpc' = "evaluating"
  /\ UNCHANGED <<evaluated, interfered>>

(* Slip: the evaluation is of the documents that changed.                  *)
EvaluateChanged ==
  /\ wpc = "evaluating" /\ Readable
  /\ evaluated' = evaluated \cup Pairs(Changed \ Nested)
  /\ wpc' = "asleep"
  /\ UNCHANGED <<vars, interfered>>

(* evaluate_fn() reads the documents afresh, those directly under data_dir *)
(* only, and the run is reported.                                          *)
Evaluate ==
  /\ wpc = "evaluating"
  /\ evaluated' = evaluated \cup Pairs(Docs \ Nested)
  /\ wpc' = "asleep"
  /\ UNCHANGED <<vars, interfered>>

(* The judge or the model raises: nothing catches the exception.           *)
EvaluateRaises ==
  /\ MayRaise /\ wpc = "evaluating"
  /\ wpc' = "ended" /\ Interferes
  /\ UNCHANGED <<vars, evaluated>>

(* The watcher is killed.                                                  *)
CrashWatcher ==
  /\ \/ Crash(Watcher)
     \/ MayCrash /\ wpc \in {"asleep", "detected", "evaluating"} /\ UNCHANGED vars
  /\ wpc' = "ended"
  /\ interfered' = (interfered \/ wpc \in {"ingesting", "evaluating"})
  /\ UNCHANGED evaluated

(* The schedule, or the operator, starts it again.                         *)
Revive ==
  /\ wpc = "ended" /\ wpc' = "asleep"
  /\ UNCHANGED <<vars, evaluated, interfered>>

(* Another worker's run begins, or goes on.                                *)
OtherStarts(w) ==
  /\ Start(w) /\ Interferes
  /\ UNCHANGED <<wpc, evaluated>>

OtherGoesOn(w) ==
  /\ Step(w) \/ Leave(w)
  /\ UNCHANGED watch

OtherCrashes(w) == Crash(w) /\ UNCHANGED watch

(* The author edits, perhaps in the middle of the watcher's run.           *)
Author ==
  /\ \E d \in Docs : Edit(d)
  /\ interfered' = (interfered \/ wpc \in {"ingesting", "evaluating"})
  /\ UNCHANGED <<wpc, evaluated>>

(* The container is replaced, or the collection recreated.                 *)
Environment ==
  \/ Restart /\ wpc' = "ended" /\ Interferes /\ UNCHANGED evaluated
  \/ Recreate /\ UNCHANGED watch

WatcherStep ==
  \/ Detect \/ DetectRaises \/ BeginIngest \/ IngestOn \/ EndIngest
  \/ Evaluate \/ EvaluateRaises \/ Revive

ANext ==
  \/ WatcherStep \/ CrashWatcher
  \/ \E w \in Workers \ {Watcher} : OtherStarts(w) \/ OtherGoesOn(w) \/ OtherCrashes(w)
  \/ Author \/ Environment

ASpec == AInit /\ [][ANext]_allvars

(* The watcher polls, and a worker that started is scheduled.              *)
AFairSpec ==
  /\ ASpec /\ WF_allvars(WatcherStep)
  /\ \A w \in Workers \ {Watcher} : WF_allvars(OtherGoesOn(w))
-----------------------------------------------------------------------------
ATypeOK ==
  /\ TypeOK
  /\ wpc \in {"asleep", "detected", "ingesting", "evaluating", "ended"}
  /\ evaluated \subseteq Docs \X Texts /\ interfered \in BOOLEAN
  /\ wpc = "ingesting" <=> pc[Watcher] # "idle"

(* When the watcher sees no change it has evaluated all there is.          *)
SeesNoChange == wpc = "asleep" /\ Readable /\ Changed \cup Removed = {}

AllEvaluated == Pairs(Docs \ Nested) \subseteq evaluated

(* reingest.py: "poll the data dir on an interval and react to changes".   *)
(* No document is left unevaluated with the watcher seeing no change.      *)
ReactsToChanges == SeesNoChange => AllEvaluated

(* It holds as long as nobody else ingests, no run is cut short after the  *)
(* hashes were recorded, and no document changes in the middle of one.     *)
ReactsUndisturbed == ~ interfered => ReactsToChanges

(* The loop closes: once the author stops, what stands on disk comes to be *)
(* searchable and, unless the watcher was interfered with, evaluated.      *)
EventuallyEvaluated ==
  <>[](\A d \in Known(disk) :
         copies[d][disk[d]] > 0 /\ (interfered \/ d \in Nested \/ <<d, disk[d]>> \in evaluated))

(* reingest.py: the watcher reacts to changes.  Whatever stands on disk    *)
(* once the author stops is in the collection under its hash, and has been *)
(* evaluated, with nothing but the polling to bring it about.              *)
EventuallyReflected == EventuallyIndexed /\ EventuallyEvaluated

(* cli.py has `--force` to "evaluate even if no docs changed": without it, *)
(* and with documents that no longer change, the watcher comes to rest.    *)
WatcherRests == <>[](wpc = "asleep")

(* A watcher under whom no document was removed comes to rest.             *)
WatcherSettles == (<>[](Removed = {})) => WatcherRests
=============================================================================

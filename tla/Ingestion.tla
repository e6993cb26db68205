----------------------------- MODULE Ingestion -----------------------------
(***************************************************************************)
(* Processes that run ingest_all over the same documents, collection and   *)
(* ingest state: threads of POST /ingest, the pipeline, the ingestion CLI  *)
(* and the watcher.  For each document a worker compares the text with the *)
(* recorded hash, embeds and upserts the chunks of a new text, and records *)
(* its hash by loading, changing and rewriting the whole ingest state:     *)
(* nothing is locked, so workers interleave at each of these steps.        *)
(*                                                                         *)
(* A text is known by its hash.  Chunks get fresh ids and are never        *)
(* deleted, so what the collection holds is how often each text of each    *)
(* document was upserted.                                                  *)
(***************************************************************************)
EXTENDS Integers, FiniteSets

CONSTANTS
  Workers,      \* processes or threads that run ingest_all
  Docs,         \* doc_ids
  Texts,        \* what a document may say
  None,         \* no such file, no such entry
  Empty,        \* the ingest state file just after open(..., "w")
  Garbled,      \* that file after two writers wrote over each other
  UsePostgres,  \* is DATABASE_URL set?
  MayForce,     \* may a run be forced?
  MayRaise,     \* may a call to the embedder, Qdrant or Postgres raise?
  MayCrash,     \* may a worker be killed?
  Ephemeral,    \* may the container be replaced, losing its files?
  MayRecreate,  \* may the collection be recreated?
  MaxEdits,     \* BOUND: times the author saves or deletes a file
  MaxCopies     \* BOUND: copies of a text told apart

State == [Docs -> Texts \cup {None}]

ASSUME IngestionConstants ==
  /\ {UsePostgres, MayForce, MayRaise, MayCrash, Ephemeral, MayRecreate} \subseteq BOOLEAN
  /\ MaxEdits \in Nat /\ MaxCopies \in Nat \ {0}

ASSUME MarkersDistinct ==
  None \notin Texts /\ Empty # Garbled /\ {Empty, Garbled} \cap State = {}

VARIABLES
  disk,      \* the markdown files under data_dir
  file,      \* metrics/ingest_state.json
  table,     \* the ingest_state table of Postgres
  copies,    \* how often each text of each document was upserted
  pc,        \* where each worker is in ingest_all
  force,     \* its argument `force`
  todo,      \* the files of its glob it has not come to yet
  doc,       \* the document it is at
  read,      \* the texts it has read in this run
  state,     \* the ingest state it loaded, changed and is to save
  edits,     \* BOUND: edits so far
  saves,     \* history: how often a text was saved to a document
  disturbed, \* history: did runs overlap, raise, crash, lose files or force?
  recreated, \* history: was the collection recreated?
  lately     \* history: was it recreated during the worker's run?

files   == <<disk, edits, saves>>
records == <<file, table>>
locals  == <<force, todo, doc, read, state>>
history == <<disturbed, recreated, lately>>
vars    == <<files, records, copies, pc, locals, history>>

Nothing == [d \in Docs |-> None]
Known(s) == {d \in Docs : s[d] # None}

Goto(w, from, to) == pc[w] = from /\ pc' = [pc EXCEPT ![w] = to]

Running == {w \in Workers : pc[w] \notin {"idle", "returned"}}

Init ==
  /\ disk \in State /\ edits = 0
  /\ saves = [d \in Docs |-> [x \in Texts |-> IF disk[d] = x THEN 1 ELSE 0]]
  /\ file = Nothing /\ table = Nothing
  /\ copies = [d \in Docs |-> [x \in Texts |-> 0]]
  /\ pc = [w \in Workers |-> "idle"]
  /\ force = [w \in Workers |-> FALSE] /\ todo = [w \in Workers |-> {}]
  /\ doc = [w \in Workers |-> None]    /\ read = [w \in Workers |-> Nothing]
  /\ state = [w \in Workers |-> Nothing]
  /\ disturbed = FALSE /\ recreated = FALSE /\ lately = [w \in Workers |-> FALSE]

(* The author saves another text, or deletes the file.                     *)
Edit(d) ==
  /\ edits < MaxEdits /\ edits' = edits + 1
  /\ \E x \in (Texts \cup {None}) \ {disk[d]} :
       /\ disk' = [disk EXCEPT ![d] = x]
       /\ saves' = IF x = None THEN saves ELSE [saves EXCEPT ![d][x] = @ + 1]
  /\ UNCHANGED <<records, copies, pc, locals, history>>
-----------------------------------------------------------------------------
(* A run is over, and its locals are gone.                                 *)
Over(w) ==
  /\ force'  = [force EXCEPT ![w] = FALSE] /\ todo'  = [todo EXCEPT ![w] = {}]
  /\ doc'    = [doc EXCEPT ![w] = None]    /\ read'  = [read EXCEPT ![w] = Nothing]
  /\ lately' = [lately EXCEPT ![w] = FALSE] /\ state' = [state EXCEPT ![w] = Nothing]

(* ingest_all globs the data directory.                                    *)
Start(w) ==
  /\ Goto(w, "idle", "next")
  /\ \E f \in IF MayForce THEN BOOLEAN ELSE {FALSE} :
       /\ force' = [force EXCEPT ![w] = f]
       /\ disturbed' = (disturbed \/ f \/ Running # {})
  /\ todo' = [todo EXCEPT ![w] = Known(disk)]
  /\ UNCHANGED <<files, records, copies, doc, read, state, recreated, lately>>

(* Slip: `force` does not reach add_documents.                             *)
ReadFileUnforced(w) ==
  \E d \in todo[w] :
    /\ Goto(w, "next", IF disk[d] = None THEN "next" ELSE "check")
    /\ doc'  = [doc EXCEPT ![w] = d]
    /\ todo' = [todo EXCEPT ![w] = @ \ {d}]
    /\ read' = [read EXCEPT ![w][d] = disk[d]]
    /\ UNCHANGED <<files, records, copies, force, state, history>>

(* ingest_file: the text is read; a file deleted meanwhile is passed over. *)
ReadFile(w) ==
  \E d \in todo[w] :
    /\ Goto(w, "next", IF disk[d] = None THEN "next"
                       ELSE IF force[w] THEN "embed" ELSE "check")
    /\ doc'  = [doc EXCEPT ![w] = d]
    /\ todo' = [todo EXCEPT ![w] = @ \ {d}]
    /\ read' = [read EXCEPT ![w][d] = disk[d]]
    /\ UNCHANGED <<files, records, copies, force, state, history>>

(* What _load_ingest_state may return: the table in Postgres mode, the     *)
(* file otherwise or when the query raises.  A file caught between open    *)
(* and dump, or garbled, returns nothing: json.load raises.                *)
Loadable ==
  (IF UsePostgres THEN {table} ELSE {})
    \cup (IF ~ UsePostgres \/ MayRaise THEN {file} \ {Empty, Garbled} ELSE {})

(* should_skip_ingest.                                                     *)
Check(w) ==
  \E s \in Loadable :
    /\ Goto(w, "check", IF s[doc[w]] = read[w][doc[w]] THEN "next" ELSE "embed")
    /\ UNCHANGED <<files, records, copies, locals, history>>

(* Slip: the upsert fails and the failure is swallowed.                    *)
UpsertNothing(w) ==
  /\ Goto(w, "embed", "load")
  /\ UNCHANGED <<files, records, copies, locals, history>>

(* The text is chunked, embedded and upserted.                             *)
Upsert(w) ==
  /\ Goto(w, "embed", "load")
  /\ copies' = [copies EXCEPT ![doc[w]][read[w][doc[w]]] =
                  IF @ < MaxCopies THEN @ + 1 ELSE @]
  /\ UNCHANGED <<files, records, locals, history>>

(* Slip: the state saved is not merged with the one recorded.              *)
LoadAlone(w) ==
  \E s \in Loadable :
    /\ Goto(w, "load", IF UsePostgres THEN "rows" ELSE "open")
    /\ state' = [state EXCEPT ![w] = [Nothing EXCEPT ![doc[w]] = read[w][doc[w]]]]
    /\ UNCHANGED <<files, records, copies, force, todo, doc, read, history>>

(* Slip: the hash of a known document stays.                               *)
LoadKeeping(w) ==
  \E s \in Loadable :
    /\ Goto(w, "load", IF UsePostgres THEN "rows" ELSE "open")
    /\ state' = [state EXCEPT ![w] = [s EXCEPT ![doc[w]] = IF @ = None THEN read[w][doc[w]] ELSE @]]
    /\ UNCHANGED <<files, records, copies, force, todo, doc, read, history>>

(* The ingest state is loaded again and gets the hash of the text.         *)
Load(w) ==
  \E s \in Loadable :
    /\ Goto(w, "load", IF UsePostgres THEN "rows" ELSE "open")
    /\ state' = [state EXCEPT ![w] = [s EXCEPT ![doc[w]] = read[w][doc[w]]]]
    /\ UNCHANGED <<files, records, copies, force, todo, doc, read, history>>

(* Slip: an entry that is there already is left as it is.                  *)
SaveRowsInsertOnly(w) ==
  /\ Goto(w, "rows", "open")
  /\ table' = [d \in Docs |-> IF table[d] = None THEN state[w][d] ELSE table[d]]
  /\ UNCHANGED <<files, file, copies, locals, history>>

(* _save_ingest_state, Postgres: every entry is written in a transaction   *)
(* of its own; an exception ends the loop and is swallowed.                *)
SaveRows(w) ==
  LET all == Known(state[w]) IN
  /\ Goto(w, "rows", "open")
  /\ \E rows \in IF MayRaise THEN SUBSET all ELSE {all} :
       /\ table' = [d \in Docs |-> IF d \in rows THEN state[w][d] ELSE table[d]]
       /\ disturbed' = (disturbed \/ rows # all)
  /\ UNCHANGED <<files, file, copies, locals, recreated, lately>>

(* ... and the file, in either mode: it is opened, which empties it ...    *)
OpenFile(w) ==
  /\ Goto(w, "open", "dump")
  /\ file' = Empty
  /\ UNCHANGED <<files, table, copies, locals, history>>

(* ... and the entries are written.  Onto what another worker wrote since, *)
(* they leave the end of the longer text standing.                         *)
DumpFile(w) ==
  /\ Goto(w, "dump", "next")
  /\ file' \in {state[w]} \cup
       (IF file = Empty \/ (file # Garbled /\ Known(file) \subseteq Known(state[w]))
          THEN {} ELSE {Garbled})
  /\ state' = [state EXCEPT ![w] = Nothing] /\ doc' = [doc EXCEPT ![w] = None]
  /\ UNCHANGED <<files, table, copies, force, todo, read, history>>

(* ingest_all returns when it has come to every file.                      *)
Finish(w) ==
  /\ todo[w] = {} /\ Goto(w, "next", "returned")
  /\ UNCHANGED <<files, records, copies, locals, history>>

(* The caller goes on.                                                     *)
Leave(w) ==
  /\ Goto(w, "returned", "idle") /\ Over(w)
  /\ UNCHANGED <<files, records, copies, disturbed, recreated>>

(* An exception ends the run: the file vanished between exists() and       *)
(* read_text(), the ingest state does not parse, or the embedder, Qdrant   *)
(* or a fallback raises.                                                   *)
Raise(w) ==
  /\ \/ MayRaise /\ pc[w] \in {"next", "embed"}
     \/ pc[w] \in {"check", "load"} /\ (Loadable = {} \/ (MayRaise /\ file \in {Empty, Garbled}))
  /\ pc' = [pc EXCEPT ![w] = "idle"] /\ Over(w)
  /\ disturbed' = TRUE
  /\ UNCHANGED <<files, records, copies, recreated>>

(* The process is killed.                                                  *)
Crash(w) ==
  /\ MayCrash /\ pc[w] # "idle"
  /\ pc' = [pc EXCEPT ![w] = "idle"] /\ Over(w)
  /\ disturbed' = TRUE
  /\ UNCHANGED <<files, records, copies, recreated>>

(* The container is replaced: no process survives, nor does metrics/.      *)
Restart ==
  /\ Ephemeral /\ file # Nothing
  /\ pc' = [w \in Workers |-> "idle"]
  /\ force' = [w \in Workers |-> FALSE] /\ todo' = [w \in Workers |-> {}]
  /\ doc' = [w \in Workers |-> None]    /\ read' = [w \in Workers |-> Nothing]
  /\ state' = [w \in Workers |-> Nothing] /\ lately' = [w \in Workers |-> FALSE]
  /\ file' = Nothing
  /\ disturbed' = TRUE
  /\ UNCHANGED <<files, table, copies, recreated>>

(* A manager finds a collection of another dimension and recreates it, or  *)
(* the vector store is switched: the ingest state knows nothing of it.     *)
Recreate ==
  /\ MayRecreate /\ ~ recreated
  /\ copies' = [d \in Docs |-> [x \in Texts |-> 0]]
  /\ recreated' = TRUE
  /\ lately' = [w \in Workers |-> pc[w] # "idle"]
  /\ UNCHANGED <<files, records, pc, locals, disturbed>>

Step(w) ==
  \/ ReadFile(w) \/ Check(w) \/ Upsert(w) \/ Load(w)
  \/ SaveRows(w) \/ OpenFile(w) \/ DumpFile(w) \/ Finish(w) \/ Raise(w)

Next ==
  \/ \E w \in Workers : Start(w) \/ Step(w) \/ Leave(w) \/ Crash(w)
  \/ \E d \in Docs : Edit(d)
  \/ Restart \/ Recreate

Spec == Init /\ [][Next]_vars
-----------------------------------------------------------------------------
TypeOK ==
  /\ disk \in State /\ edits \in 0 .. MaxEdits
  /\ saves \in [Docs -> [Texts -> Nat]]
  /\ file \in State \cup {Empty, Garbled} /\ table \in State
  /\ copies \in [Docs -> [Texts -> 0 .. MaxCopies]]
  /\ pc \in [Workers -> {"idle", "next", "check", "embed", "load", "rows", "open",
                         "dump", "returned"}]
  /\ force \in [Workers -> BOOLEAN] /\ todo \in [Workers -> SUBSET Docs]
  /\ doc \in [Workers -> Docs \cup {None}] /\ read \in [Workers -> State]
  /\ state \in [Workers -> State]
  /\ disturbed \in BOOLEAN /\ recreated \in BOOLEAN /\ lately \in [Workers -> BOOLEAN]
  /\ \A w \in Workers : pc[w] \in {"check", "embed", "load"} =>
        doc[w] \in Docs /\ read[w][doc[w]] \in Texts

(* A state s records only what the collection holds.                       *)
Indexed(s) == \A d \in Docs : s[d] # None => copies[d][s[d]] > 0

(* However workers overlap, crash, fall back from Postgres to the file or  *)
(* overwrite each other's records: a document whose text is recorded, and  *)
(* so will be skipped, is in the collection (add_documents).               *)
RecordedIsIndexed ==
  ~ recreated => /\ Indexed(table)
                 /\ file \notin {Empty, Garbled} => Indexed(file)

(* When ingest_all returns, every text it read is searchable; if it was    *)
(* forced even when the collection was replaced before, which is what      *)
(* `force` is for (ingest_all's docstring).                                *)
ReturnMeansIndexed ==
  \A w \in Workers :
    (pc[w] = "returned" /\ ~ lately[w] /\ (force[w] \/ ~ recreated)) => Indexed(read[w])

(* A text is embedded no more often than it was saved, as long as one run  *)
(* at a time ingests and nothing goes wrong: unchanged documents are       *)
(* skipped although every save rewrites the records of all of them.        *)
EmbedsOnce == ~ disturbed => \A d \in Docs, x \in Texts : copies[d][x] <= saves[d][x]

(* Between undisturbed runs the file parses and, in Postgres mode, file    *)
(* and table agree.                                                        *)
StateAtRest ==
  (~ disturbed /\ Running = {}) =>
     file \notin {Empty, Garbled} /\ (UsePostgres => file = table)

(* Once the author stops editing, every document comes to be searchable as *)
(* it stands on disk, though workers overlap.                              *)
EventuallyIndexed ==
  <>[](\A d \in Docs : disk[d] # None => copies[d][disk[d]] > 0)
=============================================================================

---------------------------- MODULE MetricsBlob ----------------------------
(***************************************************************************)
(* The JSON snapshots under metrics/ as core/blob_store.py keeps them: a   *)
(* file each and, with DATABASE_URL, a row each in Postgres, which readers *)
(* prefer.  write_metrics_json is three steps another process may come     *)
(* between: the file is opened, its text written, the row upserted.  A     *)
(* container starts with the files that are committed in the repository.   *)
(***************************************************************************)
CONSTANTS
  Names,        \* the snapshots
  Absent,       \* no such file, no such row, nothing readable
  Empty,        \* a file just after open(..., "w")
  Garbled,      \* a file two writers wrote over each other
  Shipped,      \* the files of the image, as they were committed
  UsePostgres,  \* is DATABASE_URL set?
  MayRaise      \* may Postgres raise, or refuse a payload that has a NaN?

ASSUME BlobConstants ==
  UsePostgres \in BOOLEAN /\ MayRaise \in BOOLEAN /\ Absent \notin {Empty, Garbled}

VARIABLES
  file,  \* the file of each snapshot
  blob   \* its row in json_blobs

BlobInit ==
  /\ file = Shipped
  /\ blob = [n \in Names |-> Absent]

(* write_text opens the file, which empties it ...                         *)
OpenBlob(n) == file' = [file EXCEPT ![n] = Empty] /\ UNCHANGED blob

(* ... and writes; onto what another process wrote since, the end of a     *)
(* longer text stays ...                                                   *)
DumpBlob(n, v) ==
  /\ \E t \in {v} \cup (IF file[n] = Empty THEN {} ELSE {Garbled}) :
       file' = [file EXCEPT ![n] = t]
  /\ UNCHANGED blob

(* Slip: a row that exists is not updated.                                 *)
UpsertBlobOnce(n, v) ==
  /\ blob' = [blob EXCEPT ![n] = IF @ = Absent THEN v ELSE @]
  /\ UNCHANGED file

(* ... and the row is upserted ...                                         *)
UpsertBlob(n, v) ==
  /\ blob' = [blob EXCEPT ![n] = v]
  /\ UNCHANGED file

(* ... or the exception that says it was not is swallowed.                 *)
SwallowUpsert == MayRaise /\ UNCHANGED <<file, blob>>

HasRow(n) == UsePostgres /\ blob[n] # Absent

(* What read_metrics_json may return: the row if there is one ...          *)
FromRow(n) == IF HasRow(n) THEN {blob[n]} ELSE {}

(* ... the file otherwise or when the query raises, and nothing if it does *)
(* not parse.                                                              *)
FromFile(n) ==
  IF HasRow(n) /\ ~ MayRaise THEN {}
  ELSE {IF file[n] \in {Empty, Garbled} THEN Absent ELSE file[n]}

Readable(n) == FromRow(n) \cup FromFile(n)
=============================================================================

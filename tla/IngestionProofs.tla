-------------------------- MODULE IngestionProofs --------------------------
(***************************************************************************)
(* Why a skipped document is always searchable, why an unchanged one is    *)
(* embedded once, and why the watcher misses no change: for any number of  *)
(* workers, documents and texts, with every fault of Ingestion.            *)
(***************************************************************************)
EXTENDS Automation, TLAPS

Places == {"idle", "next", "check", "embed", "load", "rows", "open", "dump", "returned"}

(* The empty ingest state is one.                                          *)
LEMMA NothingTyped == Nothing \in State
BY DEF Nothing, State

(* The initial values have their types.                                  *)
LEMMA InitTypes == Init => TypeOK
<1> SUFFICES ASSUME Init PROVE TypeOK
  OBVIOUS
<1>1. \A w \in Workers : pc[w] = "idle"
  BY DEF Init
<1>2. saves \in [Docs -> [Texts -> Nat]] /\ copies \in [Docs -> [Texts -> 0 .. MaxCopies]]
  BY IngestionConstants DEF Init
<1>3. pc \in [Workers -> {"idle", "next", "check", "embed", "load", "rows", "open",
                         "dump", "returned"}]
  BY DEF Init
<1>4. /\ read \in [Workers -> State] /\ state \in [Workers -> State]
      /\ file \in State /\ table \in State /\ disk \in State
  BY NothingTyped DEF Init
<1>5. /\ force \in [Workers -> BOOLEAN] /\ todo \in [Workers -> SUBSET Docs]
      /\ doc \in [Workers -> Docs \cup {None}] /\ lately \in [Workers -> BOOLEAN]
  BY DEF Init
<1>6. edits \in 0 .. MaxEdits
  BY IngestionConstants DEF Init
<1>7. disturbed \in BOOLEAN /\ recreated \in BOOLEAN
  BY DEF Init
<1> QED BY <1>1, <1>2, <1>3, <1>4, <1>5, <1>6, <1>7 DEF TypeOK

(* What a worker may load is a state, and what parses is no marker.        *)
LEMMA LoadableTyped ==
  ASSUME TypeOK, NEW s \in Loadable
  PROVE  s \in State /\ (s = table \/ (s = file /\ file \notin {Empty, Garbled}))
BY DEF TypeOK, Loadable

(* A run that is over leaves locals of the same types, and those of other  *)
(* workers alone.                                                          *)
LEMMA OverTypes ==
  ASSUME TypeOK, NEW w \in Workers, Over(w)
  PROVE  /\ force' \in [Workers -> BOOLEAN] /\ todo' \in [Workers -> SUBSET Docs]
         /\ doc' \in [Workers -> Docs \cup {None}] /\ read' \in [Workers -> State]
         /\ state' \in [Workers -> State] /\ lately' \in [Workers -> BOOLEAN]
         /\ \A u \in Workers \ {w} :
               doc'[u] = doc[u] /\ read'[u] = read[u] /\ state'[u] = state[u]
<1>1. force' \in [Workers -> BOOLEAN] /\ lately' \in [Workers -> BOOLEAN]
  BY DEF Over, TypeOK
<1>2. todo' \in [Workers -> SUBSET Docs] /\ doc' \in [Workers -> Docs \cup {None}]
  BY DEF Over, TypeOK
<1>3. read' \in [Workers -> State] /\ state' \in [Workers -> State]
  BY NothingTyped DEF Over, TypeOK
<1>4. \A u \in Workers \ {w} :
        doc'[u] = doc[u] /\ read'[u] = read[u] /\ state'[u] = state[u]
  BY DEF Over, TypeOK
<1> QED BY <1>1, <1>2, <1>3, <1>4

(* A step of a worker keeps the types.                                     *)
LEMMA StepTypes ==
  ASSUME TypeOK, NEW w \in Workers, Start(w) \/ Step(w) \/ Leave(w) \/ Crash(w)
  PROVE  TypeOK'
<1>t. /\ pc \in [Workers -> Places] /\ todo \in [Workers -> SUBSET Docs]
      /\ doc \in [Workers -> Docs \cup {None}] /\ read \in [Workers -> State]
      /\ state \in [Workers -> State] /\ disk \in State
  BY DEF TypeOK, Places
<1>k. \A s \in State : Known(s) \subseteq Docs
  BY DEF Known
<1>1. CASE Start(w)
  BY <1>1, <1>t, <1>k, NothingTyped
  DEF Start, Goto, TypeOK, Places, files, records
<1>2. CASE ReadFile(w)
  <2>1. PICK d \in todo[w] :
          /\ Goto(w, "next", IF disk[d] = None THEN "next"
                             ELSE IF force[w] THEN "embed" ELSE "check")
          /\ doc'  = [doc EXCEPT ![w] = d]
          /\ todo' = [todo EXCEPT ![w] = @ \ {d}]
          /\ read' = [read EXCEPT ![w][d] = disk[d]]
          /\ UNCHANGED <<files, records, copies, force, state, history>>
    BY <1>2 DEF ReadFile
  <2>2. d \in Docs /\ disk[d] \in Texts \cup {None}
    BY <1>t DEF State
  <2>3. /\ read' \in [Workers -> State] /\ read'[w][d] = disk[d]
        /\ \A u \in Workers \ {w} : read'[u] = read[u]
    BY <1>t, <2>1, <2>2 DEF State
  <2>4. /\ pc' \in [Workers -> Places] /\ \A u \in Workers \ {w} : pc'[u] = pc[u]
        /\ disk[d] = None => pc'[w] = "next"
    BY <1>t, <2>1 DEF Goto, Places
  <2>5. /\ doc' \in [Workers -> Docs \cup {None}] /\ doc'[w] = d
        /\ \A u \in Workers \ {w} : doc'[u] = doc[u]
        /\ todo' \in [Workers -> SUBSET Docs]
    BY <1>t, <2>1, <2>2
  <2>6. \A u \in Workers : pc'[u] \in {"check", "embed", "load"} =>
          doc'[u] \in Docs /\ read'[u][doc'[u]] \in Texts
    BY <1>t, <2>2, <2>3, <2>4, <2>5 DEF TypeOK
  <2> QED
    BY <2>1, <2>3, <2>4, <2>5, <2>6 DEF TypeOK, Places, files, records, history
<1>3. CASE Check(w)
  BY <1>3, <1>t DEF Check, Goto, TypeOK, Places, files, records, locals, history
<1>4. CASE Upsert(w)
  <2>1. copies' \in [Docs -> [Texts -> 0 .. MaxCopies]]
    <3>1. doc[w] \in Docs /\ read[w][doc[w]] \in Texts
      BY <1>4 DEF Upsert, Goto, TypeOK
    <3>2. copies[doc[w]][read[w][doc[w]]] \in 0 .. MaxCopies /\ MaxCopies \in Nat
      BY <3>1, IngestionConstants DEF TypeOK
    <3> QED BY <1>4, <3>1, <3>2 DEF Upsert, TypeOK
  <2> QED
    BY <1>4, <1>t, <2>1 DEF Upsert, Goto, TypeOK, Places, files, records, locals, history
<1>5. CASE Load(w)
  <2>1. PICK s \in Loadable :
          /\ Goto(w, "load", IF UsePostgres THEN "rows" ELSE "open")
          /\ state' = [state EXCEPT ![w] = [s EXCEPT ![doc[w]] = read[w][doc[w]]]]
          /\ UNCHANGED <<files, records, copies, force, todo, doc, read, history>>
    BY <1>5 DEF Load
  <2>2. s \in State /\ doc[w] \in Docs /\ read[w][doc[w]] \in Texts
    BY <2>1, LoadableTyped DEF Goto, TypeOK
  <2>3. state' \in [Workers -> State]
    BY <1>t, <2>1, <2>2 DEF State
  <2> QED
    BY <1>t, <2>1, <2>3 DEF Goto, TypeOK, Places, files, records, history
<1>6. CASE SaveRows(w)
  <2>1. table' \in State
    BY <1>6, <1>t DEF SaveRows, TypeOK, State
  <2>2. disturbed' \in BOOLEAN
    BY <1>6 DEF SaveRows, TypeOK
  <2> QED
    BY <1>6, <1>t, <2>1, <2>2 DEF SaveRows, Goto, TypeOK, Places, files, locals
<1>7. CASE OpenFile(w)
  BY <1>7, <1>t DEF OpenFile, Goto, TypeOK, Places, files, locals, history
<1>8. CASE DumpFile(w)
  <2>1. file' \in State \cup {Empty, Garbled}
    BY <1>8, <1>t DEF DumpFile
  <2>2. /\ state' \in [Workers -> State] /\ doc' \in [Workers -> Docs \cup {None}]
        /\ pc' \in [Workers -> Places] /\ pc'[w] = "next"
        /\ \A u \in Workers \ {w} : pc'[u] = pc[u] /\ doc'[u] = doc[u]
    BY <1>8, <1>t, NothingTyped DEF DumpFile, Goto, Places
  <2>3. \A u \in Workers : pc'[u] \in {"check", "embed", "load"} =>
          doc'[u] \in Docs /\ read'[u][doc'[u]] \in Texts
    BY <1>8, <2>2 DEF DumpFile, TypeOK
  <2> QED
    BY <1>8, <2>1, <2>2, <2>3 DEF DumpFile, TypeOK, Places, files, history
<1>9. CASE Finish(w)
  BY <1>9, <1>t DEF Finish, Goto, TypeOK, Places, files, records, locals, history
<1>10. CASE Leave(w) \/ Raise(w) \/ Crash(w)
  <2>1. Over(w) /\ UNCHANGED <<files, records, copies, recreated>>
    BY <1>10 DEF Leave, Raise, Crash
  <2>2. /\ pc' \in [Workers -> Places] /\ pc'[w] = "idle"
        /\ \A u \in Workers \ {w} : pc'[u] = pc[u]
    BY <1>10, <1>t DEF Leave, Raise, Crash, Goto, Places
  <2>3. disturbed' \in BOOLEAN
    BY <1>10 DEF Leave, Raise, Crash, TypeOK
  <2>4. \A u \in Workers : pc'[u] \in {"check", "embed", "load"} =>
          doc'[u] \in Docs /\ read'[u][doc'[u]] \in Texts
    BY <2>1, <2>2, OverTypes DEF TypeOK
  <2> QED
    BY <2>1, <2>2, <2>3, <2>4, OverTypes DEF TypeOK, Places, files, records
<1> QED
  BY <1>1, <1>2, <1>3, <1>4, <1>5, <1>6, <1>7, <1>8, <1>9, <1>10 DEF Step

(* The author, the platform and stuttering keep the types as well.       *)
LEMMA NextTypes == TypeOK /\ [Next]_vars => TypeOK'
<1> SUFFICES ASSUME TypeOK, [Next]_vars PROVE TypeOK'
  OBVIOUS
<1>1. ASSUME NEW d \in Docs, Edit(d)
      PROVE  TypeOK'
  <2>1. PICK x \in (Texts \cup {None}) \ {disk[d]} :
          /\ disk' = [disk EXCEPT ![d] = x]
          /\ saves' = IF x = None THEN saves ELSE [saves EXCEPT ![d][x] = @ + 1]
    BY <1>1 DEF Edit
  <2>2. disk' \in State
    BY <2>1 DEF TypeOK, State
  <2>3. saves' \in [Docs -> [Texts -> Nat]]
    <3>1. CASE x = None
      BY <2>1, <3>1 DEF TypeOK
    <3>2. CASE x # None
      <4>1. x \in Texts /\ saves[d][x] + 1 \in Nat
        BY <2>1, <3>2 DEF TypeOK
      <4> QED BY <2>1, <3>2, <4>1 DEF TypeOK
    <3> QED BY <3>1, <3>2
  <2>4. edits' \in 0 .. MaxEdits
    BY <1>1, IngestionConstants DEF Edit, TypeOK
  <2> QED
    BY <1>1, <2>2, <2>3, <2>4 DEF Edit, TypeOK, records, locals, history
<1>2. CASE Restart
  <2>1. /\ force' \in [Workers -> BOOLEAN] /\ todo' \in [Workers -> SUBSET Docs]
        /\ doc' \in [Workers -> Docs \cup {None}] /\ lately' \in [Workers -> BOOLEAN]
    BY <1>2 DEF Restart
  <2>2. read' \in [Workers -> State] /\ state' \in [Workers -> State] /\ file' \in State
    BY <1>2, NothingTyped DEF Restart
  <2>3. /\ pc' \in [Workers -> Places] /\ disturbed' \in BOOLEAN
        /\ \A w \in Workers : pc'[w] = "idle"
    BY <1>2 DEF Restart, Places
  <2> QED
    BY <1>2, <2>1, <2>2, <2>3 DEF Restart, TypeOK, Places, files
<1>3. CASE Recreate
  <2>1. copies' \in [Docs -> [Texts -> 0 .. MaxCopies]]
    BY <1>3, IngestionConstants DEF Recreate
  <2>2. recreated' \in BOOLEAN /\ lately' \in [Workers -> BOOLEAN]
    BY <1>3 DEF Recreate, TypeOK
  <2> QED
    BY <1>3, <2>1, <2>2 DEF Recreate, TypeOK, files, records, locals
<1>4. CASE UNCHANGED vars
  BY <1>4 DEF vars, TypeOK, files, records, locals, history
<1> QED
  BY <1>1, <1>2, <1>3, <1>4, StepTypes DEF Next

(* Every variable keeps its type; in particular a worker that is about to  *)
(* compare, embed or record a text has read one.                           *)
THEOREM IngestionTypes == Spec => []TypeOK
BY InitTypes, NextTypes, PTL DEF Spec
-----------------------------------------------------------------------------
(* The inductive invariant: unless the collection was recreated, all that  *)
(* is recorded, about to be recorded, or was upserted is in it.            *)
Saving == {"rows", "open", "dump"}

IInv ==
  ~ recreated =>
    /\ Indexed(table)
    /\ file \notin {Empty, Garbled} => Indexed(file)
    /\ \A w \in Workers : pc[w] \in Saving => Indexed(state[w])
    /\ \A w \in Workers : pc[w] = "load" => copies[doc[w]][read[w][doc[w]]] > 0

(* Copies only ever become more, short of a recreation.                    *)
LEMMA UpsertAdds ==
  ASSUME TypeOK, NEW w \in Workers, Upsert(w)
  PROVE  /\ \A d \in Docs, x \in Texts : copies[d][x] > 0 => copies'[d][x] > 0
         /\ copies'[doc[w]][read[w][doc[w]]] > 0
<1>1. doc[w] \in Docs /\ read[w][doc[w]] \in Texts
  BY DEF Upsert, Goto, TypeOK
<1>2. \A d \in Docs, x \in Texts : copies[d][x] \in 0 .. MaxCopies
  BY DEF TypeOK
<1> DEFINE n == copies[doc[w]][read[w][doc[w]]]
<1>3. n \in Nat /\ MaxCopies \in Nat \ {0}
  BY <1>1, <1>2, IngestionConstants
<1>4. copies' = [copies EXCEPT ![doc[w]][read[w][doc[w]]] = IF n < MaxCopies THEN n + 1 ELSE n]
  BY DEF Upsert
<1>5. (IF n < MaxCopies THEN n + 1 ELSE n) > 0
  BY <1>3
<1> HIDE DEF n
<1> QED BY <1>1, <1>2, <1>4, <1>5 DEF TypeOK

(* What was indexed stays indexed while copies only become more.         *)
LEMMA IndexedGrows ==
  ASSUME NEW s \in State, Indexed(s),
         \A d \in Docs, x \in Texts : copies[d][x] > 0 => copies'[d][x] > 0
  PROVE  \A d \in Docs : s[d] # None => copies'[d][s[d]] > 0
BY DEF Indexed, State

(* The invariant holds initially: nothing is recorded ...                *)
LEMMA InitIInv == Init => IInv
BY DEF Init, IInv, Indexed, Nothing, Saving

(* ... is kept by every step of a worker ...                             *)
LEMMA StepIInv ==
  ASSUME TypeOK, IInv, ~ recreated, NEW w \in Workers,
         Start(w) \/ Step(w) \/ Leave(w) \/ Crash(w)
  PROVE  IInv'
<1>t. /\ pc \in [Workers -> Places] /\ state \in [Workers -> State]
      /\ doc \in [Workers -> Docs \cup {None}] /\ read \in [Workers -> State]
      /\ table \in State
  BY DEF TypeOK, Places
<1>i. /\ Indexed(table)
      /\ file \notin {Empty, Garbled} => Indexed(file)
      /\ \A u \in Workers : pc[u] \in Saving => Indexed(state[u])
      /\ \A u \in Workers : pc[u] = "load" => copies[doc[u]][read[u][doc[u]]] > 0
  BY DEF IInv
<1>1. CASE Start(w) \/ Check(w) \/ Finish(w)
  <2>1. UNCHANGED <<table, file, copies, state>>
    BY <1>1 DEF Start, Check, Finish, files, records, locals
  <2>2. \A u \in Workers : pc'[u] \in Saving \cup {"load"} =>
          pc'[u] = pc[u] /\ doc'[u] = doc[u] /\ read'[u] = read[u]
    BY <1>1, <1>t DEF Start, Check, Finish, Goto, locals, Saving
  <2> QED BY <1>i, <2>1, <2>2 DEF IInv, Indexed
<1>6. CASE Leave(w) \/ Raise(w) \/ Crash(w)
  <2>1. UNCHANGED <<table, file, copies>> /\ Over(w)
    BY <1>6 DEF Leave, Raise, Crash, records
  <2>2. pc'[w] = "idle" /\ \A u \in Workers \ {w} : pc'[u] = pc[u]
    BY <1>6, <1>t DEF Leave, Raise, Crash, Goto
  <2>3. \A u \in Workers : pc'[u] \in Saving \cup {"load"} =>
          /\ pc'[u] = pc[u] /\ doc'[u] = doc[u]
          /\ read'[u] = read[u] /\ state'[u] = state[u]
    BY <2>1, <2>2, OverTypes DEF Saving
  <2> QED BY <1>i, <2>1, <2>3 DEF IInv, Indexed
<1>2. CASE ReadFile(w)
  <2>1. UNCHANGED <<table, file, copies, state>>
    BY <1>2 DEF ReadFile, files, records
  <2>2. \A u \in Workers : pc'[u] \in Saving \cup {"load"} =>
          pc'[u] = pc[u] /\ doc'[u] = doc[u] /\ read'[u] = read[u]
    BY <1>2, <1>t DEF ReadFile, Goto, Saving
  <2> QED BY <1>i, <2>1, <2>2 DEF IInv, Indexed
<1>3. CASE Upsert(w)
  <2>1. UNCHANGED <<table, file, state, doc, read>>
    BY <1>3 DEF Upsert, records, locals
  <2>2. /\ \A d \in Docs, x \in Texts : copies[d][x] > 0 => copies'[d][x] > 0
        /\ copies'[doc[w]][read[w][doc[w]]] > 0
    BY <1>3, UpsertAdds
  <2>3. \A u \in Workers : u # w => pc'[u] = pc[u]
    BY <1>3, <1>t DEF Upsert, Goto
  <2>4. pc'[w] = "load"
    BY <1>3, <1>t DEF Upsert, Goto
  <2>5. Indexed(table)' /\ (file' \notin {Empty, Garbled} => Indexed(file)')
    <3>1. file \notin {Empty, Garbled} => file \in State
      BY DEF TypeOK
    <3> QED BY <1>t, <1>i, <2>1, <2>2, <3>1, IndexedGrows DEF Indexed
  <2>6. \A u \in Workers : pc'[u] \in Saving => Indexed(state[u])'
    BY <1>t, <1>i, <2>1, <2>2, <2>3, <2>4, IndexedGrows DEF Indexed, Saving
  <2>7. ASSUME NEW u \in Workers, pc'[u] = "load"
        PROVE  copies'[doc[u]][read[u][doc[u]]] > 0
    <3>1. CASE u = w
      BY <2>2, <3>1
    <3>2. CASE u # w
      <4>1. doc[u] \in Docs /\ read[u][doc[u]] \in Texts /\ pc[u] = "load"
        BY <2>3, <2>7, <3>2 DEF TypeOK
      <4> QED BY <1>i, <2>2, <4>1
    <3> QED BY <3>1, <3>2
  <2> QED BY <2>1, <2>5, <2>6, <2>7 DEF IInv
<1>4. CASE Load(w)
  <2>1. PICK s \in Loadable :
          /\ Goto(w, "load", IF UsePostgres THEN "rows" ELSE "open")
          /\ state' = [state EXCEPT ![w] = [s EXCEPT ![doc[w]] = read[w][doc[w]]]]
          /\ UNCHANGED <<files, records, copies, force, todo, doc, read, history>>
    BY <1>4 DEF Load
  <2>2. s \in State /\ Indexed(s)
    BY <1>i, LoadableTyped
  <2>3. doc[w] \in Docs /\ copies[doc[w]][read[w][doc[w]]] > 0
    BY <1>i, <2>1 DEF Goto, TypeOK
  <2>4. /\ state'[w] = [s EXCEPT ![doc[w]] = read[w][doc[w]]]
        /\ \A u \in Workers \ {w} : state'[u] = state[u] /\ pc'[u] = pc[u]
        /\ pc'[w] \in Saving
    BY <1>t, <2>1 DEF Goto, Saving
  <2>5. UNCHANGED <<table, file, copies, doc, read>>
    BY <2>1 DEF records
  <2>6. \A d \in Docs : state'[w][d] # None => copies[d][state'[w][d]] > 0
    <3> TAKE d \in Docs
    <3>1. CASE d = doc[w]
      BY <2>2, <2>3, <2>4, <3>1 DEF State
    <3>2. CASE d # doc[w]
      BY <2>2, <2>4, <3>2 DEF State, Indexed
    <3> QED BY <3>1, <3>2
  <2>7. \A u \in Workers : pc'[u] \in Saving => Indexed(state[u])'
    BY <1>i, <2>4, <2>5, <2>6 DEF Indexed
  <2>8. \A u \in Workers : pc'[u] = "load" => copies'[doc'[u]][read'[u][doc'[u]]] > 0
    BY <1>i, <2>4, <2>5 DEF Saving
  <2> QED BY <1>i, <2>5, <2>7, <2>8 DEF IInv, Indexed
<1>5. CASE SaveRows(w) \/ OpenFile(w) \/ DumpFile(w)
  <2>1. pc[w] \in Saving /\ Indexed(state[w])
    BY <1>5, <1>i DEF SaveRows, OpenFile, DumpFile, Goto, Saving
  <2>2. UNCHANGED <<copies, read>>
    BY <1>5 DEF SaveRows, OpenFile, DumpFile, locals
  <2>3. \A u \in Workers :
          /\ pc'[u] \in Saving => pc[u] \in Saving /\ state'[u] = state[u]
          /\ pc'[u] = "load" => pc[u] = "load" /\ doc'[u] = doc[u]
    <3>1. CASE SaveRows(w) \/ OpenFile(w)
      BY <3>1, <1>t DEF SaveRows, OpenFile, Goto, locals, Saving
    <3>2. CASE DumpFile(w)
      BY <3>2, <1>t DEF DumpFile, Goto, Saving
    <3> QED BY <1>5, <3>1, <3>2
  <2>4. Indexed(table')
    <3>1. table' = table \/ \E rows : table' = [d \in Docs |-> IF d \in rows
                                                     THEN state[w][d] ELSE table[d]]
      BY <1>5 DEF SaveRows, OpenFile, DumpFile
    <3> QED BY <1>i, <2>1, <3>1 DEF Indexed
  <2>5. file' \notin {Empty, Garbled} => Indexed(file')
    BY <1>5, <1>i, <2>1 DEF SaveRows, OpenFile, DumpFile
  <2> QED BY <1>i, <2>2, <2>3, <2>4, <2>5 DEF IInv, Indexed
<1> QED BY <1>1, <1>2, <1>3, <1>4, <1>5, <1>6 DEF Step

(* ... and by whatever happens around the workers.                       *)
LEMMA NextIInv == TypeOK /\ IInv /\ [Next]_vars => IInv'
<1> SUFFICES ASSUME TypeOK, IInv, [Next]_vars, ~ recreated' PROVE IInv'
  BY DEF IInv
<1>r. ~ recreated
  BY DEF Next, Start, Step, ReadFile, Check, Upsert, Load, SaveRows, OpenFile, DumpFile,
         Finish, Raise, Leave, Crash, Edit, Restart, Recreate, vars, history
<1>1. ASSUME NEW d \in Docs, Edit(d)
      PROVE  IInv'
  BY <1>1 DEF Edit, IInv, Indexed, records, locals, history
<1>2. CASE Restart
  <2>1. Indexed(file')
    BY <1>2 DEF Restart, Indexed, Nothing
  <2>2. UNCHANGED <<table, copies>> /\ \A w \in Workers : pc'[w] = "idle"
    BY <1>2 DEF Restart
  <2> QED BY <1>r, <2>1, <2>2 DEF IInv, Indexed, Saving
<1>3. CASE Recreate
  BY <1>3 DEF Recreate
<1>4. CASE UNCHANGED vars
  BY <1>4 DEF vars, IInv, Indexed, records, locals, history
<1> QED
  BY <1>r, <1>1, <1>2, <1>3, <1>4, StepIInv DEF Next

(* A document that is recorded, and will therefore be skipped, is in the   *)
(* collection, whatever workers do to each other's records and whichever   *)
(* of them crash or raise.                                                 *)
THEOREM SkippedIsSearchable == Spec => []RecordedIsIndexed
<1>1. IInv => RecordedIsIndexed
  BY DEF IInv, RecordedIsIndexed
<1> QED BY <1>1, InitTypes, NextTypes, InitIInv, NextIInv, PTL DEF Spec
-----------------------------------------------------------------------------
(* The strengthening for a run that returns: what it has read and come     *)
(* past is searchable.  Only a run that is not forced compares hashes, so  *)
(* a forced one does not depend on records from before a recreation.       *)
Past(w, d) == read[w][d] # None /\ (pc[w] \in {"check", "embed"} => d # doc[w])

Searchable(w) ==
  (pc[w] # "idle" /\ ~ lately[w] /\ (force[w] \/ ~ recreated)) =>
     \A d \in Docs : Past(w, d) => copies[d][read[w][d]] > 0

RInv ==
  \A w \in Workers :
    /\ pc[w] = "idle" => read[w] = Nothing
    /\ pc[w] = "check" => ~ force[w]
    /\ Searchable(w)

(* It holds initially: nobody runs.                                        *)
LEMMA InitRInv == Init => RInv
BY DEF Init, RInv, Searchable

(* Short of a recreation copies only become more, a worker's step leaves   *)
(* the others alone, and nobody learns of a recreation.                    *)
LEMMA StepLocal ==
  ASSUME TypeOK, NEW w \in Workers, Start(w) \/ Step(w) \/ Leave(w) \/ Crash(w)
  PROVE  /\ \A d \in Docs, x \in Texts : copies[d][x] > 0 => copies'[d][x] > 0
         /\ recreated' = recreated
         /\ \A u \in Workers \ {w} :
               /\ pc'[u] = pc[u] /\ doc'[u] = doc[u] /\ read'[u] = read[u]
               /\ force'[u] = force[u] /\ lately'[u] = lately[u]
<1>t. /\ pc \in [Workers -> Places] /\ todo \in [Workers -> SUBSET Docs]
      /\ doc \in [Workers -> Docs \cup {None}] /\ read \in [Workers -> State]
      /\ force \in [Workers -> BOOLEAN] /\ lately \in [Workers -> BOOLEAN]
  BY DEF TypeOK, Places
<1>1. CASE Upsert(w)
  BY <1>1, <1>t, UpsertAdds DEF Upsert, Goto, locals, history
<1>2. CASE Start(w)
  BY <1>2, <1>t DEF Start, Goto
<1>3. CASE ReadFile(w)
  BY <1>3, <1>t DEF ReadFile, Goto, history
<1>4. CASE Check(w) \/ Load(w) \/ Finish(w)
  BY <1>4, <1>t DEF Check, Load, Finish, Goto, locals, history
<1>5. CASE SaveRows(w) \/ OpenFile(w)
  BY <1>5, <1>t DEF SaveRows, OpenFile, Goto, locals, history
<1>6. CASE DumpFile(w)
  BY <1>6, <1>t DEF DumpFile, Goto, history
<1>7. CASE Leave(w) \/ Raise(w) \/ Crash(w)
  BY <1>7, <1>t DEF Leave, Raise, Crash, Over, Goto
<1> QED BY <1>1, <1>2, <1>3, <1>4, <1>5, <1>6, <1>7 DEF Step

(* A worker's step keeps the invariant of that worker ...                  *)
LEMMA OwnRInv ==
  ASSUME TypeOK, IInv, RInv, NEW w \in Workers,
         Start(w) \/ Step(w) \/ Leave(w) \/ Crash(w)
  PROVE  /\ pc'[w] = "idle" => read'[w] = Nothing
         /\ pc'[w] = "check" => ~ force'[w]
         /\ Searchable(w)'
<1>t. /\ pc \in [Workers -> Places] /\ todo \in [Workers -> SUBSET Docs]
      /\ doc \in [Workers -> Docs \cup {None}] /\ read \in [Workers -> State]
      /\ force \in [Workers -> BOOLEAN] /\ lately \in [Workers -> BOOLEAN]
      /\ disk \in State /\ state \in [Workers -> State]
  BY DEF TypeOK, Places
<1>i. /\ pc[w] = "idle" => read[w] = Nothing
      /\ pc[w] = "check" => ~ force[w]
      /\ Searchable(w)
  BY DEF RInv
<1>r. \A d \in Docs : read[w][d] \in Texts \cup {None}
  BY <1>t DEF State
<1>1. CASE Start(w)
  <2>1. pc'[w] = "next" /\ \A d \in Docs : read'[w][d] = None
    BY <1>1, <1>t, <1>i DEF Start, Goto, Nothing
  <2> QED BY <2>1 DEF Searchable, Past
<1>2. CASE ReadFile(w)
  <2>1. PICK d \in todo[w] :
          /\ Goto(w, "next", IF disk[d] = None THEN "next"
                             ELSE IF force[w] THEN "embed" ELSE "check")
          /\ doc'  = [doc EXCEPT ![w] = d]
          /\ read' = [read EXCEPT ![w][d] = disk[d]]
          /\ UNCHANGED <<copies, force, history>>
    BY <1>2 DEF ReadFile
  <2>2. d \in Docs /\ pc[w] = "next"
    BY <1>t, <2>1 DEF Goto
  <2>3. /\ pc'[w] = (IF disk[d] = None THEN "next" ELSE IF force[w] THEN "embed" ELSE "check")
        /\ doc'[w] = d /\ read'[w][d] = disk[d]
        /\ \A e \in Docs \ {d} : read'[w][e] = read[w][e]
    BY <1>t, <2>1, <2>2 DEF Goto, State
  <2>4. \A e \in Docs : Past(w, e)' => e # d /\ Past(w, e)
    BY <2>2, <2>3 DEF Past
  <2> QED BY <1>i, <2>1, <2>2, <2>3, <2>4 DEF Searchable, history
<1>3. CASE Check(w)
  <2>1. PICK s \in Loadable :
          /\ Goto(w, "check", IF s[doc[w]] = read[w][doc[w]] THEN "next" ELSE "embed")
          /\ UNCHANGED <<copies, locals, history>>
    BY <1>3 DEF Check
  <2>2. pc[w] = "check" /\ ~ force[w] /\ doc[w] \in Docs /\ read[w][doc[w]] \in Texts
    BY <1>i, <2>1 DEF Goto, TypeOK
  <2>3. s \in State /\ (~ recreated => Indexed(s))
    BY LoadableTyped DEF IInv
  <2>4. pc'[w] = "next" => s[doc[w]] = read[w][doc[w]]
    BY <1>t, <2>1 DEF Goto
  <2>5. pc'[w] \in {"next", "embed"}
    BY <1>t, <2>1 DEF Goto
  <2>6. ASSUME ~ lately[w], ~ recreated, NEW d \in Docs, Past(w, d)'
        PROVE  copies[d][read[w][d]] > 0
    <3>1. CASE d = doc[w]
      <4>1. pc'[w] = "next"
        BY <2>1, <2>5, <2>6, <3>1 DEF Past, locals
      <4> QED BY <2>2, <2>3, <2>4, <2>6, <3>1, <4>1, MarkersDistinct DEF Indexed
    <3>2. CASE d # doc[w]
      BY <1>i, <2>1, <2>2, <2>6, <3>2 DEF Searchable, Past, locals
    <3> QED BY <3>1, <3>2
  <2> QED BY <2>1, <2>2, <2>5, <2>6 DEF Searchable, locals, history
<1>4. CASE Upsert(w)
  <2>1. UNCHANGED <<locals, history>> /\ pc[w] = "embed" /\ pc'[w] = "load"
    BY <1>4, <1>t DEF Upsert, Goto
  <2>2. /\ \A d \in Docs, x \in Texts : copies[d][x] > 0 => copies'[d][x] > 0
        /\ copies'[doc[w]][read[w][doc[w]]] > 0
    BY <1>4, UpsertAdds
  <2>3. ASSUME ~ lately[w], force[w] \/ ~ recreated, NEW d \in Docs, read[w][d] # None
        PROVE  copies'[d][read[w][d]] > 0
    <3>1. CASE d = doc[w]
      BY <2>2, <3>1
    <3>2. CASE d # doc[w]
      <4>1. copies[d][read[w][d]] > 0
        BY <1>i, <2>1, <2>3, <3>2 DEF Searchable, Past
      <4> QED BY <1>r, <2>2, <2>3, <4>1
    <3> QED BY <3>1, <3>2
  <2> QED BY <2>1, <2>3 DEF Searchable, Past, locals, history
<1>5. CASE Load(w) \/ SaveRows(w) \/ OpenFile(w) \/ DumpFile(w) \/ Finish(w)
  <2>1. UNCHANGED <<copies, force, read, recreated, lately>>
    BY <1>5 DEF Load, SaveRows, OpenFile, DumpFile, Finish, locals, history
  <2>2. pc[w] \notin {"idle", "check", "embed"} /\ pc'[w] \notin {"idle", "check"}
    BY <1>5, <1>t DEF Load, SaveRows, OpenFile, DumpFile, Finish, Goto
  <2> QED BY <1>i, <2>1, <2>2 DEF Searchable, Past
<1>6. CASE Leave(w) \/ Raise(w) \/ Crash(w)
  <2>1. pc'[w] = "idle" /\ read'[w] = Nothing
    BY <1>6, <1>t DEF Leave, Raise, Crash, Over, Goto
  <2> QED BY <2>1 DEF Searchable
<1> QED BY <1>1, <1>2, <1>3, <1>4, <1>5, <1>6 DEF Step

(* ... and of all others; so does everything else.                         *)
LEMMA NextRInv == TypeOK /\ IInv /\ RInv /\ [Next]_vars => RInv'
<1> SUFFICES ASSUME TypeOK, IInv, RInv, [Next]_vars PROVE RInv'
  OBVIOUS
<1>r. \A w \in Workers, d \in Docs : read[w][d] \in Texts \cup {None}
  BY DEF TypeOK, State
<1>1. ASSUME NEW w \in Workers, Start(w) \/ Step(w) \/ Leave(w) \/ Crash(w)
      PROVE  RInv'
  <2>1. ASSUME NEW u \in Workers \ {w}
        PROVE  /\ pc'[u] = "idle" => read'[u] = Nothing
               /\ pc'[u] = "check" => ~ force'[u]
               /\ Searchable(u)'
    BY <1>1, <1>r, StepLocal DEF RInv, Searchable, Past
  <2> QED BY <1>1, <2>1, OwnRInv DEF RInv
<1>2. ASSUME NEW d \in Docs, Edit(d)
      PROVE  RInv'
  BY <1>2 DEF Edit, RInv, Searchable, Past, locals, history
<1>3. CASE Restart
  BY <1>3 DEF Restart, RInv, Searchable
<1>4. CASE Recreate
  BY <1>4 DEF Recreate, RInv, Searchable, locals
<1>5. CASE UNCHANGED vars
  BY <1>5 DEF vars, RInv, Searchable, Past, locals, history
<1> QED BY <1>1, <1>2, <1>3, <1>4, <1>5 DEF Next

(* When ingest_all returns, every text it read is in the collection, for   *)
(* any number of documents and of workers that run beside it; a forced run *)
(* keeps the promise even after the collection was recreated.              *)
THEOREM ReturnIsSearchable == Spec => []ReturnMeansIndexed
<1>1. RInv => ReturnMeansIndexed
  BY DEF RInv, Searchable, Past, ReturnMeansIndexed, Indexed
<1> QED
  BY <1>1, InitTypes, NextTypes, InitIInv, NextIInv, InitRInv, NextRInv, PTL DEF Spec
-----------------------------------------------------------------------------
(* The text of d that stands on disk has a save to its credit, unless s    *)
(* has it already.                                                         *)
Due(s, d) ==
  disk[d] # None /\ s[d] # disk[d] => copies[d][disk[d]] < saves[d][disk[d]]

(* The text a worker is at is not yet as often in the collection as it was *)
(* saved.                                                                  *)
Unspent(w) == copies[doc[w]][read[w][doc[w]]] < saves[doc[w]][read[w][doc[w]]]

(* Between saves: the file parses, file and table agree, and every text    *)
(* they lack is due, except the one just being added.                      *)
AtRest ==
  /\ file \in State /\ (UsePostgres => file = table)
  /\ \A d \in Docs :
        (\A w \in Workers : pc[w] \in {"embed", "load"} => doc[w] # d) => Due(file, d)

(* What the one worker of an undisturbed system knows at each point.  What *)
(* it is to save has every entry the table has: its transactions leave the *)
(* table as the state it saves.                                            *)
Careful(w) ==
  /\ ~ force[w]
  /\ pc[w] \in {"check", "embed", "load"} => Due(read[w], doc[w])
  /\ pc[w] = "embed" \/ (pc[w] = "check" /\ file[doc[w]] # read[w][doc[w]]) => Unspent(w)
  /\ pc[w] \in Saving => \A d \in Docs : Due(state[w], d)
  /\ pc[w] = "rows" => UsePostgres /\ \A d \in Docs : table[d] # None => state[w][d] # None
  /\ pc[w] \in {"open", "dump"} /\ UsePostgres => table = state[w]
  /\ pc[w] = "dump" => file = Empty

(* The inductive invariant of undisturbed runs.                            *)
QInv ==
  ~ disturbed =>
    /\ \A u, w \in Running : u = w
    /\ \A d \in Docs, x \in Texts : copies[d][x] <= saves[d][x]
    /\ (\A w \in Workers : pc[w] \notin Saving) => AtRest
    /\ \A w \in Workers : Careful(w)

(* It holds at the start: every text on disk has been saved once.          *)
LEMMA InitQInv == Init => QInv
<1> SUFFICES ASSUME Init PROVE QInv
  OBVIOUS
<1>1. \A w \in Workers : pc[w] = "idle" /\ ~ force[w]
  BY DEF Init
<1>2. \A d \in Docs, x \in Texts : copies[d][x] = 0 /\ saves[d][x] \in {0, 1}
  BY DEF Init
<1>3. \A d \in Docs : disk[d] # None => disk[d] \in Texts /\ saves[d][disk[d]] = 1
  BY DEF Init, State
<1>4. AtRest
  BY <1>2, <1>3, NothingTyped DEF Init, AtRest, Due
<1>5. \A d \in Docs, x \in Texts : copies[d][x] <= saves[d][x]
  BY <1>2
<1>6. \A u, w \in Running : u = w
  BY <1>1 DEF Running
<1>7. \A w \in Workers : Careful(w)
  BY <1>1 DEF Careful, Saving
<1> QED BY <1>4, <1>5, <1>6, <1>7 DEF QInv

(* In an undisturbed system the other workers are not running, and what    *)
(* one worker may load between saves is what file and table hold.          *)
LEMMA Alone ==
  ASSUME TypeOK, QInv, ~ disturbed, NEW w \in Running
  PROVE  /\ \A u \in Workers \ {w} : pc[u] \in {"idle", "returned"}
         /\ pc[w] \notin Saving => AtRest /\ \A s \in Loadable : s = file
<1>1. \A u \in Workers \ {w} : pc[u] \in {"idle", "returned"}
  BY DEF QInv, Running
<1>2. ASSUME pc[w] \notin Saving
      PROVE  AtRest
  BY <1>1, <1>2 DEF QInv, Saving, Running
<1>3. AtRest => \A s \in Loadable : s = file
  BY LoadableTyped DEF AtRest, Loadable
<1> QED BY <1>1, <1>2, <1>3

(* If a worker is running, its step need only keep the invariant for it.   *)
LEMMA OnlyOne ==
  ASSUME TypeOK, QInv, ~ disturbed, NEW w \in Running,
         \A u \in Workers \ {w} : pc'[u] = pc[u] /\ force'[u] = force[u],
         \A d \in Docs, x \in Texts : copies'[d][x] <= saves'[d][x],
         pc'[w] \notin Saving => AtRest',
         Careful(w)'
  PROVE  QInv'
<1>1. \A u \in Workers \ {w} : pc'[u] \in {"idle", "returned"}
  BY Alone
<1>2. \A u \in Workers \ {w} : Careful(u)'
  BY <1>1 DEF QInv, Careful, Saving
<1>3. \A u, v \in Running' : u = v
  BY <1>1 DEF Running
<1>4. (\A u \in Workers : pc'[u] \notin Saving) => AtRest'
  BY DEF Running
<1> QED BY <1>2, <1>3, <1>4 DEF QInv
(* Steps that only move the worker, or change what it alone holds, keep    *)
(* what is due.                                                            *)
LEMMA DueKept ==
  ASSUME UNCHANGED <<disk, copies, saves>>
  PROVE  /\ \A s, d : Due(s, d) <=> (Due(s, d))'
         /\ QInv /\ ~ disturbed => \A d \in Docs, x \in Texts : copies'[d][x] <= saves'[d][x]
BY DEF Due, QInv

(* Every step of a running worker that leaves the system undisturbed.      *)
LEMMA StepQInv ==
  ASSUME TypeOK, QInv, ~ disturbed, ~ disturbed', NEW w \in Running, Step(w)
  PROVE  QInv'
<1>w. w \in Workers
  BY DEF Running
<1>t. /\ pc \in [Workers -> Places] /\ todo \in [Workers -> SUBSET Docs]
      /\ doc \in [Workers -> Docs \cup {None}] /\ read \in [Workers -> State]
      /\ force \in [Workers -> BOOLEAN] /\ state \in [Workers -> State]
      /\ disk \in State /\ table \in State
      /\ \A d \in Docs, x \in Texts : copies[d][x] \in 0 .. MaxCopies /\ saves[d][x] \in Nat
  BY DEF TypeOK, Places
<1>u. \A u \in Workers \ {w} : pc[u] \in {"idle", "returned"}
  BY Alone
<1>c. Careful(w)
  BY <1>w DEF QInv
<1>f. \A u \in Workers \ {w} : pc'[u] = pc[u] /\ force'[u] = force[u]
  BY <1>w, StepLocal
<1>n. \A d \in Docs, x \in Texts : copies[d][x] <= saves[d][x]
  BY DEF QInv
<1>s. UNCHANGED <<disk, saves>>
  BY DEF Step, ReadFile, Check, Upsert, Load, SaveRows, OpenFile, DumpFile, Finish, Raise,
         files
<1>1. CASE ReadFile(w)
  <2>1. PICK d \in todo[w] :
          /\ Goto(w, "next", IF disk[d] = None THEN "next"
                             ELSE IF force[w] THEN "embed" ELSE "check")
          /\ doc'  = [doc EXCEPT ![w] = d]
          /\ read' = [read EXCEPT ![w][d] = disk[d]]
          /\ UNCHANGED <<files, records, copies, force, state, history>>
    BY <1>1 DEF ReadFile
  <2>2. d \in Docs /\ pc[w] = "next" /\ ~ force[w]
    BY <1>w, <1>t, <1>c, <2>1 DEF Goto, Careful
  <2>3. /\ pc'[w] = (IF disk[d] = None THEN "next" ELSE "check")
        /\ doc'[w] = d /\ read'[w][d] = disk[d] /\ ~ force'[w]
    BY <1>w, <1>t, <2>1, <2>2 DEF Goto, State
  <2>4. UNCHANGED <<disk, copies, saves, file, table>>
    BY <2>1 DEF files, records
  <2>5. AtRest
    BY <2>2, Alone DEF Saving
  <2>6. \A e \in Docs : Due(file, e)
    BY <1>u, <2>2, <2>5 DEF AtRest
  <2>7. AtRest'
    BY <2>4, <2>5, <2>6 DEF AtRest, Due
  <2>8. (Due(read[w], doc[w]))'
    BY <2>3, <2>4 DEF Due
  <2>9. pc'[w] = "check" /\ file'[doc'[w]] # read'[w][doc'[w]] => Unspent(w)'
    BY <2>2, <2>3, <2>4, <2>6 DEF Unspent, Due
  <2>10. Careful(w)'
    BY <2>3, <2>8, <2>9 DEF Careful, Saving
  <2> QED BY <1>f, <1>n, <2>4, <2>7, <2>10, OnlyOne
<1>2. CASE Check(w)
  <2>1. PICK s \in Loadable :
          /\ Goto(w, "check", IF s[doc[w]] = read[w][doc[w]] THEN "next" ELSE "embed")
          /\ UNCHANGED <<files, records, copies, locals, history>>
    BY <1>2 DEF Check
  <2>2. pc[w] = "check" /\ s = file /\ AtRest /\ doc[w] \in Docs
    BY <1>w, <2>1, Alone DEF Goto, Saving, TypeOK
  <2>3. /\ pc'[w] = (IF file[doc[w]] = read[w][doc[w]] THEN "next" ELSE "embed")
        /\ UNCHANGED <<disk, copies, saves, file, table, doc, read, force>>
    BY <1>w, <1>t, <2>1, <2>2 DEF Goto, files, records, locals
  <2>4. \A d \in Docs : Due(file, d)
    BY <1>u, <2>2 DEF AtRest
  <2>5. AtRest'
    BY <2>2, <2>3, <2>4 DEF AtRest, Due
  <2>6. Careful(w)'
    BY <1>c, <2>2, <2>3 DEF Careful, Due, Unspent, Saving
  <2> QED BY <1>f, <1>n, <2>3, <2>5, <2>6, OnlyOne
<1>3. CASE Upsert(w)
  <2> DEFINE d == doc[w]
             x == read[w][d]
  <2>1. /\ pc[w] = "embed" /\ pc'[w] = "load"
        /\ UNCHANGED <<file, table, doc, read, state, force>>
        /\ copies' = [copies EXCEPT ![d][x] = IF @ < MaxCopies THEN @ + 1 ELSE @]
    BY <1>3, <1>w, <1>t DEF Upsert, Goto, records, locals
  <2>2. d \in Docs /\ x \in Texts
    BY <1>w, <2>1 DEF TypeOK
  <2>3. copies[d][x] < saves[d][x]
    BY <1>c, <2>1 DEF Careful, Unspent
  <2>4. /\ copies'[d][x] <= saves[d][x]
        /\ \A e \in Docs, y \in Texts : <<e, y>> # <<d, x>> => copies'[e][y] = copies[e][y]
    <3>1. copies[d][x] \in Nat /\ saves[d][x] \in Nat
      BY <1>t, <2>2
    <3>2. copies'[d][x] \in {copies[d][x], copies[d][x] + 1}
      BY <2>1, <2>2 DEF TypeOK
    <3>3. \A e \in Docs, y \in Texts : <<e, y>> # <<d, x>> => copies'[e][y] = copies[e][y]
      BY <2>1, <2>2 DEF TypeOK
    <3> QED BY <2>3, <3>1, <3>2, <3>3
  <2>5. AtRest
    BY <2>1, Alone DEF Saving
  <2> HIDE DEF d, x
  <2>6. \A e \in Docs : e # d => Due(file, e)
    BY <1>u, <2>1, <2>5 DEF AtRest, d
  <2>7. ASSUME NEW e \in Docs, e # d
        PROVE  (Due(file, e))'
    BY <1>s, <1>t, <2>1, <2>4, <2>6, <2>7 DEF Due, State
  <2>8. AtRest'
    BY <1>w, <2>1, <2>5, <2>7 DEF AtRest, d
  <2>9. (Due(read[w], d))'
    <3>1. Due(read[w], d)
      BY <1>c, <2>1 DEF Careful, d
    <3> QED BY <1>s, <1>t, <2>1, <2>2, <2>4, <3>1 DEF Due, d, x, State
  <2>10. Careful(w)'
    BY <1>c, <2>1, <2>9 DEF Careful, Saving, d
  <2>11. \A e \in Docs, y \in Texts : copies'[e][y] <= saves'[e][y]
    BY <1>s, <1>n, <2>4
  <2> QED BY <1>f, <2>8, <2>10, <2>11, OnlyOne
<1>4. CASE Load(w)
  <2>1. PICK s \in Loadable :
          /\ Goto(w, "load", IF UsePostgres THEN "rows" ELSE "open")
          /\ state' = [state EXCEPT ![w] = [s EXCEPT ![doc[w]] = read[w][doc[w]]]]
          /\ UNCHANGED <<files, records, copies, force, todo, doc, read, history>>
    BY <1>4 DEF Load
  <2>2. pc[w] = "load" /\ s = file /\ AtRest /\ doc[w] \in Docs /\ read[w][doc[w]] \in Texts
    BY <1>w, <2>1, Alone DEF Goto, Saving, TypeOK
  <2>3. /\ pc'[w] = (IF UsePostgres THEN "rows" ELSE "open")
        /\ UNCHANGED <<disk, copies, saves, file, table, doc, read, force>>
        /\ state'[w] = [file EXCEPT ![doc[w]] = read[w][doc[w]]]
    BY <1>w, <1>t, <2>1, <2>2 DEF Goto, files, records
  <2>4. file \in State
    BY <2>2 DEF AtRest
  <2>5. \A d \in Docs : d # doc[w] => Due(file, d)
    BY <1>u, <2>2 DEF AtRest
  <2>6. Due(read[w], doc[w])
    BY <1>c, <2>2 DEF Careful
  <2>7. /\ state'[w][doc[w]] = read[w][doc[w]]
        /\ \A d \in Docs : d # doc[w] => state'[w][d] = file[d]
    BY <2>2, <2>3, <2>4 DEF State
  <2>8. \A d \in Docs : (Due(state[w], d))'
    BY <2>3, <2>5, <2>6, <2>7 DEF Due
  <2>9. UsePostgres => \A d \in Docs : table'[d] # None => state'[w][d] # None
    BY <2>2, <2>3, <2>7, MarkersDistinct DEF AtRest
  <2>10. Careful(w)'
    BY <1>c, <2>3, <2>8, <2>9 DEF Careful, Saving
  <2> QED BY <1>f, <1>n, <2>3, <2>10, OnlyOne DEF Saving
<1>5. CASE SaveRows(w)
  <2>1. PICK rows \in SUBSET Known(state[w]) :
          /\ table' = [d \in Docs |-> IF d \in rows THEN state[w][d] ELSE table[d]]
          /\ disturbed' = (disturbed \/ rows # Known(state[w]))
    BY <1>5 DEF SaveRows
  <2>2. /\ pc[w] = "rows" /\ pc'[w] = "open"
        /\ UNCHANGED <<disk, copies, saves, file, doc, read, state, force>>
    BY <1>5, <1>w, <1>t DEF SaveRows, Goto, files, locals
  <2>3. \A d \in Docs : table[d] # None => state[w][d] # None
    BY <1>c, <2>2 DEF Careful
  <2>4. rows = Known(state[w])
    BY <2>1
  <2>5. state[w] \in State
    BY <1>w, <1>t
  <2>6. \A d \in Docs : table'[d] = state[w][d]
    BY <2>1, <2>3, <2>4 DEF Known
  <2>7. table' = state[w]
    BY <1>t, <2>1, <2>5, <2>6 DEF State
  <2>8. Careful(w)'
    BY <1>c, <2>2, <2>7 DEF Careful, Due, Saving
  <2> QED BY <1>f, <1>n, <2>2, <2>8, OnlyOne DEF Saving
<1>6. CASE OpenFile(w)
  <2>1. /\ pc[w] = "open" /\ pc'[w] = "dump" /\ file' = Empty
        /\ UNCHANGED <<disk, copies, saves, table, doc, read, state, force>>
    BY <1>6, <1>w, <1>t DEF OpenFile, Goto, files, locals
  <2>2. Careful(w)'
    BY <1>c, <2>1 DEF Careful, Due, Saving
  <2> QED BY <1>f, <1>n, <2>1, <2>2, OnlyOne DEF Saving
<1>7. CASE DumpFile(w)
  <2>1. /\ pc[w] = "dump" /\ pc'[w] = "next"
        /\ UNCHANGED <<disk, copies, saves, table, read, force>>
    BY <1>7, <1>w, <1>t DEF DumpFile, Goto, files
  <2>2. file = Empty /\ (UsePostgres => table = state[w]) /\ \A d \in Docs : Due(state[w], d)
    BY <1>c, <2>1 DEF Careful, Saving
  <2>3. file' = state[w]
    BY <1>7, <2>2 DEF DumpFile
  <2>4. AtRest'
    BY <1>w, <1>t, <2>1, <2>2, <2>3 DEF AtRest, Due
  <2>5. Careful(w)'
    BY <1>c, <2>1 DEF Careful, Saving
  <2> QED BY <1>f, <1>n, <2>1, <2>4, <2>5, OnlyOne
<1>8. CASE Finish(w)
  <2>1. /\ pc[w] = "next" /\ pc'[w] = "returned"
        /\ UNCHANGED <<disk, copies, saves, file, table, force>>
    BY <1>8, <1>w, <1>t DEF Finish, Goto, files, records, locals
  <2>2. AtRest /\ \A d \in Docs : Due(file, d)
    BY <1>u, <2>1, Alone DEF Saving, AtRest
  <2>3. AtRest'
    BY <2>1, <2>2 DEF AtRest, Due
  <2>4. Careful(w)'
    BY <1>c, <2>1 DEF Careful, Saving
  <2> QED BY <1>f, <1>n, <2>1, <2>3, <2>4, OnlyOne
<1>9. CASE Raise(w)
  BY <1>9 DEF Raise
<1> QED BY <1>1, <1>2, <1>3, <1>4, <1>5, <1>6, <1>7, <1>8, <1>9 DEF Step
(* A run that begins undisturbed is the only one, and not forced.          *)
LEMMA StartQInv ==
  ASSUME TypeOK, QInv, ~ disturbed', NEW w \in Workers, Start(w)
  PROVE  QInv'
<1>t. /\ pc \in [Workers -> Places] /\ force \in [Workers -> BOOLEAN]
  BY DEF TypeOK, Places
<1>1. PICK f \in BOOLEAN : /\ force' = [force EXCEPT ![w] = f]
                           /\ disturbed' = (disturbed \/ f \/ Running # {})
  BY DEF Start
<1>2. ~ disturbed /\ ~ f /\ Running = {}
  BY <1>1
<1>3. /\ pc'[w] = "next" /\ \A u \in Workers \ {w} : pc'[u] = pc[u]
      /\ UNCHANGED <<disk, copies, saves, file, table, doc, read, state>>
  BY <1>t DEF Start, Goto, files, records
<1>4. \A u \in Workers : ~ force'[u]
  BY <1>t, <1>1, <1>2 DEF QInv, Careful
<1>5. \A u \in Workers : pc[u] \in {"idle", "returned"}
  BY <1>2 DEF Running
<1>6. AtRest /\ \A d \in Docs : Due(file, d)
  BY <1>2, <1>5 DEF QInv, Saving, AtRest
<1>7. AtRest'
  BY <1>3, <1>6 DEF AtRest, Due
<1>8. \A u \in Workers : pc'[u] \in {"idle", "returned", "next"} /\ (u # w => pc'[u] # "next")
  BY <1>3, <1>5
<1>9. \A u \in Workers : Careful(u)'
  BY <1>4, <1>8 DEF Careful, Saving
<1>10. \A u, v \in Running' : u = v
  BY <1>8 DEF Running
<1>11. \A d \in Docs, x \in Texts : copies'[d][x] <= saves'[d][x]
  BY <1>2, <1>3 DEF QInv
<1> QED BY <1>7, <1>9, <1>10, <1>11 DEF QInv

(* A caller that goes on after its run takes nothing along.                *)
LEMMA LeaveQInv ==
  ASSUME TypeOK, QInv, ~ disturbed, NEW w \in Workers, Leave(w)
  PROVE  QInv'
<1>t. /\ pc \in [Workers -> Places] /\ force \in [Workers -> BOOLEAN]
  BY DEF TypeOK, Places
<1>1. /\ pc[w] = "returned" /\ pc'[w] = "idle" /\ ~ force'[w]
      /\ \A u \in Workers \ {w} : pc'[u] = pc[u] /\ force'[u] = force[u]
      /\ UNCHANGED <<disk, copies, saves, file, table>>
  BY <1>t DEF Leave, Goto, Over, files, records
<1>2. \A u \in Workers \ {w} : doc'[u] = doc[u] /\ read'[u] = read[u] /\ state'[u] = state[u]
  BY OverTypes DEF Leave
<1>3. \A u \in Workers : Careful(u)
  BY DEF QInv
<1>4. ASSUME NEW u \in Workers
      PROVE  Careful(u)'
  <2>1. CASE u = w
    BY <1>1, <2>1 DEF Careful, Saving
  <2>2. CASE u # w
    BY <1>1, <1>2, <1>3, <2>2 DEF Careful, Due, Unspent, Saving
  <2> QED BY <2>1, <2>2
<1>5. Running' \subseteq Running
  BY <1>1 DEF Running
<1>6. (\A u \in Workers : pc'[u] \notin Saving) => AtRest'
  <2> SUFFICES ASSUME \A u \in Workers : pc'[u] \notin Saving
               PROVE  AtRest'
    OBVIOUS
  <2>1. AtRest
    BY <1>1 DEF QInv, Saving
  <2>2. \A d \in Docs : (\A u \in Workers : pc'[u] \in {"embed", "load"} => doc'[u] # d)
           => (\A u \in Workers : pc[u] \in {"embed", "load"} => doc[u] # d)
    BY <1>1, <1>2
  <2> QED BY <1>1, <2>1, <2>2 DEF AtRest, Due
<1> QED BY <1>1, <1>4, <1>5, <1>6 DEF QInv

(* A save is what makes a text due.                                        *)
LEMMA EditQInv ==
  ASSUME TypeOK, QInv, ~ disturbed, NEW e \in Docs, Edit(e)
  PROVE  QInv'
<1>t. /\ disk \in State /\ saves \in [Docs -> [Texts -> Nat]]
      /\ \A d \in Docs, x \in Texts : copies[d][x] \in Nat /\ saves[d][x] \in Nat
  BY IngestionConstants DEF TypeOK
<1>1. PICK y \in (Texts \cup {None}) \ {disk[e]} :
        /\ disk' = [disk EXCEPT ![e] = y]
        /\ saves' = IF y = None THEN saves ELSE [saves EXCEPT ![e][y] = @ + 1]
  BY DEF Edit
<1>2. UNCHANGED <<copies, file, table, pc, force, doc, read, state>>
  BY DEF Edit, records, locals
<1>3. \A d \in Docs, x \in Texts : saves[d][x] <= saves'[d][x] /\ saves'[d][x] \in Nat
  <2>1. CASE y = None
    BY <1>1, <1>t, <2>1
  <2>2. CASE y # None
    <3>1. y \in Texts /\ saves' = [saves EXCEPT ![e][y] = saves[e][y] + 1]
      BY <1>1, <2>2
    <3> QED BY <1>t, <3>1
  <2> QED BY <2>1, <2>2
<1>4. y # None => y \in Texts /\ saves[e][y] < saves'[e][y]
  <2> SUFFICES ASSUME y # None PROVE y \in Texts /\ saves[e][y] < saves'[e][y]
    OBVIOUS
  <2>1. y \in Texts /\ saves' = [saves EXCEPT ![e][y] = saves[e][y] + 1]
    BY <1>1
  <2> QED BY <1>t, <2>1
<1>5. \A d \in Docs, x \in Texts : copies[d][x] <= saves[d][x]
  BY DEF QInv
<1>6. \A d \in Docs, x \in Texts : /\ copies'[d][x] <= saves'[d][x]
                                   /\ copies[d][x] < saves[d][x] => copies'[d][x] < saves'[d][x]
  BY <1>t, <1>2, <1>3, <1>5
<1>7. ASSUME NEW s, NEW d \in Docs, Due(s, d)
      PROVE  disk'[d] # None /\ s[d] # disk'[d] => copies'[d][disk'[d]] < saves'[d][disk'[d]]
  <2>1. CASE d = e
    <3>1. disk'[d] = y
      BY <1>1, <1>t, <2>1 DEF State
    <3> QED BY <1>t, <1>2, <1>3, <1>4, <1>5, <2>1, <3>1
  <2>2. CASE d # e
    <3>1. disk'[d] = disk[d]
      BY <1>1, <1>t, <2>2 DEF State
    <3>2. disk[d] # None => disk[d] \in Texts
      BY <1>t DEF State
    <3> QED BY <1>6, <1>7, <3>1, <3>2 DEF Due
  <2> QED BY <2>1, <2>2
<1>8. ASSUME NEW w \in Workers
      PROVE  Careful(w)'
  <2>1. Careful(w)
    BY DEF QInv
  <2>2. pc[w] \in {"check", "embed", "load"} => doc[w] \in Docs /\ read[w][doc[w]] \in Texts
    BY DEF TypeOK
  <2>3. pc[w] \in {"check", "embed", "load"} => (Due(read[w], doc[w]))'
    BY <1>2, <1>7, <2>1, <2>2 DEF Careful, Due
  <2>4. pc[w] \in Saving => \A d \in Docs : (Due(state[w], d))'
    BY <1>2, <1>7, <2>1 DEF Careful, Due
  <2>5. pc[w] = "embed" \/ (pc[w] = "check" /\ file[doc[w]] # read[w][doc[w]]) => Unspent(w)'
    BY <1>2, <1>6, <2>1, <2>2 DEF Careful, Unspent
  <2> QED BY <1>2, <2>1, <2>3, <2>4, <2>5 DEF Careful
<1>9. AtRest => AtRest'
  BY <1>2, <1>7 DEF AtRest, Due
<1> QED BY <1>2, <1>6, <1>8, <1>9 DEF QInv, Running

(* So does every step of the system.  Recreating the collection only makes *)
(* room.                                                                   *)
LEMMA NextQInv == TypeOK /\ QInv /\ [Next]_vars => QInv'
<1> SUFFICES ASSUME TypeOK, QInv, [Next]_vars, ~ disturbed'
             PROVE  QInv'
  BY DEF QInv
<1>1. ASSUME NEW w \in Workers, Start(w) \/ Step(w) \/ Leave(w) \/ Crash(w)
      PROVE  QInv'
  <2>1. CASE Start(w)
    BY <2>1, StartQInv
  <2>2. CASE Step(w)
    <3>1. w \in Running
      BY <2>2 DEF Step, ReadFile, Check, Upsert, Load, SaveRows, OpenFile, DumpFile, Finish,
         Raise, Goto, Running
    <3>2. ~ disturbed
      BY <2>2 DEF Step, ReadFile, Check, Upsert, Load, SaveRows, OpenFile, DumpFile, Finish,
         Raise, history
    <3> QED BY <2>2, <3>1, <3>2, StepQInv
  <2>3. CASE Leave(w)
    BY <2>3, LeaveQInv DEF Leave
  <2>4. CASE Crash(w)
    BY <2>4 DEF Crash
  <2> QED BY <1>1, <2>1, <2>2, <2>3, <2>4
<1>2. ASSUME NEW d \in Docs, Edit(d)
      PROVE  QInv'
  BY <1>2, EditQInv DEF Edit, history
<1>3. CASE Restart
  BY <1>3 DEF Restart
<1>4. CASE Recreate
  <2>1. /\ UNCHANGED <<disk, saves, file, table, pc, force, doc, read, state, disturbed>>
        /\ \A d \in Docs, x \in Texts : copies'[d][x] = 0
    BY <1>4 DEF Recreate, files, records, locals
  <2>2. \A d \in Docs, x \in Texts :
           /\ copies[d][x] \in Nat /\ saves[d][x] \in Nat
           /\ copies'[d][x] <= saves'[d][x]
           /\ copies[d][x] < saves[d][x] => copies'[d][x] < saves'[d][x]
    BY <2>1, IngestionConstants DEF TypeOK
  <2>3. \A s, d : d \in Docs /\ Due(s, d) =>
           (disk'[d] # None /\ s[d] # disk'[d] => copies'[d][disk'[d]] < saves'[d][disk'[d]])
    BY <2>1, <2>2 DEF Due, TypeOK, State
  <2>4. AtRest => AtRest'
    BY <2>1, <2>3 DEF AtRest, Due
  <2>5. ASSUME NEW w \in Workers, Careful(w)
        PROVE  Careful(w)'
    <3>1. pc[w] \in {"check", "embed", "load"} => doc[w] \in Docs /\ read[w][doc[w]] \in Texts
      BY DEF TypeOK
    <3>2. pc[w] \in {"check", "embed", "load"} => (Due(read[w], doc[w]))'
      BY <2>1, <2>3, <2>5, <3>1 DEF Careful, Due
    <3>3. pc[w] \in Saving => \A d \in Docs : (Due(state[w], d))'
      BY <2>1, <2>3, <2>5 DEF Careful, Due
    <3>4. pc[w] = "embed" \/ (pc[w] = "check" /\ file[doc[w]] # read[w][doc[w]]) => Unspent(w)'
      BY <2>1, <2>2, <2>5, <3>1 DEF Careful, Unspent
    <3> QED BY <2>1, <2>5, <3>2, <3>3, <3>4 DEF Careful
  <2> QED BY <2>1, <2>2, <2>4, <2>5 DEF QInv, Running
<1>5. CASE UNCHANGED vars
  <2>1. UNCHANGED <<disk, saves, file, table, copies, pc, force, doc, read, state, disturbed>>
    BY <1>5 DEF vars, files, records, locals, history
  <2> QED BY <2>1 DEF QInv, Running, AtRest, Careful, Due, Unspent
<1> QED BY <1>1, <1>2, <1>3, <1>4, <1>5 DEF Next

(* While runs neither overlap, fail nor are forced, an unchanged document  *)
(* is never embedded again: for any number of documents and texts, however *)
(* the author edits them between and during the runs, in either mode.      *)
THEOREM UnchangedIsSkipped == Spec => []EmbedsOnce
<1>1. QInv => EmbedsOnce
  BY DEF QInv, EmbedsOnce
<1> QED BY <1>1, InitTypes, NextTypes, InitQInv, NextQInv, PTL DEF Spec

(* Between undisturbed runs the ingest state file parses, and file and     *)
(* table agree, so the fallback from Postgres to the file loses nothing.   *)
THEOREM StateSurvives == Spec => []StateAtRest
<1>1. QInv => StateAtRest
  <2> SUFFICES ASSUME QInv, ~ disturbed, Running = {}
               PROVE  file \notin {Empty, Garbled} /\ (UsePostgres => file = table)
    BY DEF StateAtRest
  <2>1. \A w \in Workers : pc[w] \notin Saving
    BY DEF Running, Saving
  <2> QED BY <2>1, MarkersDistinct DEF QInv, AtRest
<1> QED BY <1>1, InitTypes, NextTypes, InitQInv, NextQInv, PTL DEF Spec
-----------------------------------------------------------------------------
(* The watcher does nothing to the documents, the records and the          *)
(* collection that an ingesting worker may not do.                         *)
LEMMA WatchedStep == [ANext]_allvars => [Next]_vars
<1> SUFFICES ASSUME [ANext]_allvars PROVE [Next]_vars
  OBVIOUS
<1>w. Watcher \in Workers
  BY WatcherIsWorker
<1>1. CASE WatcherStep
  BY <1>1, <1>w DEF WatcherStep, Detect, DetectRaises, BeginIngest, IngestOn, EndIngest,
                    Evaluate, EvaluateRaises, Revive, Next
<1>2. CASE CrashWatcher
  BY <1>2, <1>w DEF CrashWatcher, Next
<1>3. ASSUME NEW w \in Workers \ {Watcher}, OtherStarts(w) \/ OtherGoesOn(w) \/ OtherCrashes(w)
      PROVE  Next
  BY <1>3 DEF OtherStarts, OtherGoesOn, OtherCrashes, Next
<1>4. CASE Author
  BY <1>4 DEF Author, Next
<1>5. CASE Environment
  BY <1>5 DEF Environment, Next
<1>6. CASE UNCHANGED allvars
  BY <1>6 DEF allvars
<1> QED BY <1>1, <1>2, <1>3, <1>4, <1>5, <1>6 DEF ANext

(* Automation implements Ingestion: every theorem about Spec holds of the  *)
(* watcher beside any number of other workers.                             *)
THEOREM WatcherIngests == ASpec => Spec
<1>1. AInit => Init
  BY DEF AInit
<1> QED BY <1>1, WatchedStep, PTL DEF ASpec, Spec

(* Pairs of a document and its text on disk.                               *)
LEMMA PairsTyped ==
  ASSUME TypeOK, NEW ds
  PROVE  Pairs(ds) \subseteq Docs \X Texts
BY DEF Pairs, Known, TypeOK, State

(* The watcher is ingesting exactly while its worker is at work.           *)
WTypes ==
  /\ wpc \in {"asleep", "detected", "ingesting", "evaluating", "ended"}
  /\ evaluated \subseteq Docs \X Texts /\ interfered \in BOOLEAN
  /\ wpc = "ingesting" <=> pc[Watcher] # "idle"

(* Every step keeps that.                                                  *)
LEMMA NextWTypes == TypeOK /\ WTypes /\ [ANext]_allvars => WTypes'
<1> SUFFICES ASSUME TypeOK, WTypes, [ANext]_allvars PROVE WTypes'
  OBVIOUS
<1>w. Watcher \in Workers /\ pc \in [Workers -> Places]
  BY WatcherIsWorker DEF TypeOK, Places
<1>1. CASE Detect \/ DetectRaises \/ EvaluateRaises \/ Revive
  BY <1>1 DEF Detect, DetectRaises, EvaluateRaises, Revive, Interferes, WTypes, vars
<1>2. CASE BeginIngest
  <2>1. pc'[Watcher] = "next"
    BY <1>2, <1>w DEF BeginIngest, Start, Goto
  <2> QED BY <1>2, <2>1 DEF BeginIngest, WTypes
<1>3. CASE IngestOn
  BY <1>3 DEF IngestOn, WTypes
<1>4. CASE EndIngest
  <2>1. pc'[Watcher] = "idle"
    BY <1>4, <1>w DEF EndIngest, Leave, Goto
  <2> QED BY <1>4, <2>1 DEF EndIngest, WTypes
<1>5. CASE Evaluate
  BY <1>5, PairsTyped DEF Evaluate, WTypes, vars
<1>6. CASE CrashWatcher
  <2>1. pc'[Watcher] = "idle"
    BY <1>6, <1>w DEF CrashWatcher, Crash, WTypes, vars
  <2> QED BY <1>6, <2>1 DEF CrashWatcher, WTypes
<1>7. ASSUME NEW w \in Workers \ {Watcher}, OtherStarts(w) \/ OtherGoesOn(w) \/ OtherCrashes(w)
      PROVE  WTypes'
  <2>1. pc'[Watcher] = pc[Watcher]
    BY <1>7, <1>w, StepLocal DEF OtherStarts, OtherGoesOn, OtherCrashes
  <2> QED BY <1>7, <2>1 DEF OtherStarts, OtherGoesOn, OtherCrashes, Interferes, watch, WTypes
<1>8. CASE Author
  BY <1>8 DEF Author, Edit, WTypes
<1>9. CASE Environment
  <2>1. CASE Restart /\ wpc' = "ended" /\ Interferes /\ UNCHANGED evaluated
    BY <1>w, <2>1 DEF Restart, Interferes, WTypes
  <2>2. CASE Recreate /\ UNCHANGED watch
    BY <2>2 DEF Recreate, watch, WTypes
  <2> QED BY <1>9, <2>1, <2>2 DEF Environment
<1>10. CASE UNCHANGED allvars
  BY <1>10 DEF allvars, vars, watch, WTypes
<1> QED
  BY <1>1, <1>2, <1>3, <1>4, <1>5, <1>6, <1>7, <1>8, <1>9, <1>10 DEF ANext, WatcherStep

(* The types, for the watcher and for all workers, always hold.            *)
LEMMA AlwaysTypes == ASpec => [](TypeOK /\ WTypes)
<1>1. AInit => TypeOK /\ WTypes
  <2> SUFFICES ASSUME AInit PROVE TypeOK /\ WTypes
    OBVIOUS
  <2>1. TypeOK
    BY InitTypes DEF AInit
  <2>2. pc[Watcher] = "idle"
    BY WatcherIsWorker DEF AInit, Init
  <2> QED BY <2>1, <2>2 DEF AInit, WTypes
<1>2. TypeOK /\ WTypes /\ [ANext]_allvars => (TypeOK /\ WTypes)'
  BY NextTypes, NextWTypes, WatchedStep
<1> QED BY <1>1, <1>2, PTL DEF ASpec

(* Every variable of the watcher and of the workers beside it keeps its    *)
(* type.                                                                   *)
THEOREM WatcherTypes == ASpec => []ATypeOK
<1>1. TypeOK /\ WTypes => ATypeOK
  BY DEF WTypes, ATypeOK
<1> QED BY <1>1, AlwaysTypes, PTL
-----------------------------------------------------------------------------
(* What is recorded has been evaluated, or will be: it is the text on disk *)
(* while the watcher is between detecting and having evaluated.            *)
Accounted(s) ==
  \A d \in Docs \ Nested : s[d] # None =>
     \/ <<d, s[d]>> \in evaluated
     \/ wpc \in {"ingesting", "evaluating"} /\ s[d] = disk[d]

(* The inductive invariant of a watcher nobody interferes with.  The table *)
(* belongs to it although the watcher compares with the file: in Postgres  *)
(* mode the next save writes what was loaded from the table into the file. *)
WInv ==
  ~ interfered =>
    /\ \A w \in Workers \ {Watcher} : pc[w] = "idle"
    /\ Accounted(table) /\ (Readable => Accounted(file)) /\ Accounted(state[Watcher])
    /\ \A d \in Docs : read[Watcher][d] \in {None, disk[d]}
    /\ pc[Watcher] = "idle" => read[Watcher] = Nothing

(* Nothing is recorded at the start.                                       *)
LEMMA InitWInv == AInit => WInv
<1> SUFFICES ASSUME AInit PROVE WInv
  OBVIOUS
<1>1. file = Nothing /\ table = Nothing /\ \A w \in Workers : pc[w] = "idle"
  BY DEF AInit, Init
<1>2. state[Watcher] = Nothing /\ read[Watcher] = Nothing
  BY WatcherIsWorker DEF AInit, Init
<1> QED BY <1>1, <1>2 DEF WInv, Accounted, Nothing

(* A step of the watcher's ingestion records what is on disk, or what was  *)
(* recorded before.                                                        *)
LEMMA IngestOnWInv ==
  ASSUME TypeOK, WTypes, WInv, IngestOn
  PROVE  WInv'
<1> SUFFICES ASSUME ~ interfered' PROVE WInv'
  BY DEF WInv
<1> DEFINE w == Watcher
<1>w. w \in Workers /\ ~ interfered /\ wpc = "ingesting" /\ wpc' = "ingesting" /\ pc'[w] # "idle"
  BY WatcherIsWorker DEF IngestOn, WTypes
<1>t. /\ pc \in [Workers -> Places] /\ todo \in [Workers -> SUBSET Docs]
      /\ read \in [Workers -> State] /\ state \in [Workers -> State]
      /\ doc \in [Workers -> Docs \cup {None}] /\ disk \in State /\ table \in State
  BY DEF TypeOK, Places
<1>i. /\ \A u \in Workers \ {w} : pc[u] = "idle"
      /\ Accounted(table) /\ (Readable => Accounted(file)) /\ Accounted(state[w])
      /\ \A d \in Docs : read[w][d] \in {None, disk[d]}
  BY <1>w DEF WInv
<1>s. Step(w) /\ evaluated' = evaluated
  BY DEF IngestOn
<1>u. \A u \in Workers \ {w} : pc'[u] = "idle"
  BY <1>w, <1>s, <1>i, StepLocal
<1>d. disk' = disk
  BY <1>s DEF Step, ReadFile, Check, Upsert, Load, SaveRows, OpenFile, DumpFile, Finish,
              Raise, files
<1>a. \A s : Accounted(s) <=> \A d \in Docs \ Nested : s[d] # None =>
                 <<d, s[d]>> \in evaluated' \/ s[d] = disk'[d]
  BY <1>w, <1>s, <1>d DEF Accounted
<1> HIDE DEF w
<1> SUFFICES /\ Accounted(table') /\ (Readable' => Accounted(file')) /\ Accounted(state'[w])
             /\ \A d \in Docs : read'[w][d] \in {None, disk[d]}
  BY <1>w, <1>u, <1>d, <1>a DEF WInv, Accounted, w
<1>1. CASE ReadFile(w)
  <2>1. PICK d \in todo[w] : /\ read' = [read EXCEPT ![w][d] = disk[d]]
                             /\ UNCHANGED <<records, state>>
    BY <1>1 DEF ReadFile
  <2>2. \A e \in Docs : read'[w][e] \in {read[w][e], disk[e]}
    BY <1>w, <1>t, <2>1 DEF State
  <2> QED BY <1>i, <2>1, <2>2 DEF records, Readable
<1>2. CASE Check(w) \/ Upsert(w) \/ Finish(w)
  BY <1>2, <1>i DEF Check, Upsert, Finish, records, locals, Readable
<1>3. CASE Load(w)
  <2>1. PICK s \in Loadable :
          /\ pc[w] = "load"
          /\ state' = [state EXCEPT ![w] = [s EXCEPT ![doc[w]] = read[w][doc[w]]]]
          /\ UNCHANGED <<records, read>>
    BY <1>3 DEF Load, Goto
  <2>2. s \in State /\ Accounted(s)
    BY <1>i, LoadableTyped DEF Readable
  <2>3. doc[w] \in Docs /\ read[w][doc[w]] = disk[doc[w]]
    BY <1>w, <1>i, <2>1, MarkersDistinct DEF TypeOK
  <2>4. /\ state'[w][doc[w]] = disk[doc[w]]
        /\ \A d \in Docs : d # doc[w] => state'[w][d] = s[d]
    BY <1>w, <1>t, <2>1, <2>2, <2>3 DEF State
  <2>5. Accounted(state'[w])
    BY <1>w, <2>2, <2>4 DEF Accounted
  <2> QED BY <1>i, <2>1, <2>5 DEF records, Readable
<1>4. CASE SaveRows(w)
  <2>1. PICK rows : table' = [d \in Docs |-> IF d \in rows THEN state[w][d] ELSE table[d]]
    BY <1>4 DEF SaveRows
  <2>2. Accounted(table')
    BY <1>i, <2>1 DEF Accounted
  <2> QED BY <1>4, <1>i, <2>2 DEF SaveRows, locals, Readable
<1>5. CASE OpenFile(w)
  BY <1>5, <1>i DEF OpenFile, locals, Readable
<1>6. CASE DumpFile(w)
  <2>1. Readable' => file' = state[w]
    BY <1>6 DEF DumpFile, Readable
  <2>2. Accounted(state'[w])
    BY <1>6, <1>w, <1>t DEF DumpFile, Accounted, Nothing
  <2> QED BY <1>6, <1>i, <2>1, <2>2 DEF DumpFile
<1>7. CASE Raise(w)
  BY <1>7, <1>w, <1>t DEF Raise
<1> QED BY <1>s, <1>1, <1>2, <1>3, <1>4, <1>5, <1>6, <1>7 DEF Step

(* So does everything around it, or it interferes.                         *)
LEMMA NextWInv == TypeOK /\ WTypes /\ WInv /\ [ANext]_allvars => WInv'
<1> SUFFICES ASSUME TypeOK, WTypes, WInv, [ANext]_allvars, ~ interfered'
             PROVE  WInv'
  BY DEF WInv
<1>w. Watcher \in Workers /\ pc \in [Workers -> Places]
  BY WatcherIsWorker DEF TypeOK, Places
<1>1. CASE Detect \/ DetectRaises \/ Revive
  <2>1. /\ UNCHANGED <<disk, file, table, pc, read, state, evaluated, interfered>>
        /\ wpc \notin {"ingesting", "evaluating"}
    BY <1>1 DEF Detect, DetectRaises, Revive, vars, files, records, locals
  <2> QED BY <2>1 DEF WInv, Accounted, Readable
<1>2. CASE BeginIngest
  <2>1. /\ UNCHANGED <<disk, file, table, read, state, evaluated, interfered>>
        /\ wpc = "detected" /\ pc'[Watcher] = "next"
        /\ \A u \in Workers \ {Watcher} : pc'[u] = pc[u]
    BY <1>2, <1>w DEF BeginIngest, Start, Goto, files, records
  <2> QED BY <2>1 DEF WInv, Accounted, Readable
<1>3. CASE EndIngest
  <2>1. /\ UNCHANGED <<disk, file, table, evaluated, interfered>>
        /\ wpc = "ingesting" /\ wpc' = "evaluating"
        /\ \A u \in Workers \ {Watcher} : pc'[u] = pc[u]
    BY <1>3, <1>w DEF EndIngest, Leave, Goto, files, records
  <2>2. state'[Watcher] = Nothing /\ read'[Watcher] = Nothing
    BY <1>3, <1>w DEF EndIngest, Leave, Over, TypeOK
  <2> QED BY <2>1, <2>2 DEF WInv, Accounted, Readable, Nothing
<1>4. CASE Evaluate
  <2>1. /\ UNCHANGED <<disk, file, table, pc, read, state, interfered>>
        /\ wpc = "evaluating"
        /\ evaluated' = evaluated \cup Pairs(Docs \ Nested)
    BY <1>4 DEF Evaluate, vars, files, records, locals
  <2>2. \A s : Accounted(s) => \A d \in Docs \ Nested : s[d] # None => <<d, s[d]>> \in evaluated'
    BY <2>1 DEF Accounted, Pairs, Known
  <2> QED BY <2>1, <2>2 DEF WInv, Accounted, Readable
<1>5. CASE CrashWatcher
  <2>1. interfered' = (interfered \/ wpc \in {"ingesting", "evaluating"})
    BY <1>5 DEF CrashWatcher
  <2>2. wpc \notin {"ingesting", "evaluating"} /\ pc[Watcher] = "idle" /\ ~ interfered
    BY <2>1 DEF WTypes
  <2>3. UNCHANGED vars /\ wpc' = "ended" /\ UNCHANGED evaluated
    BY <1>5, <2>2 DEF CrashWatcher, Crash
  <2> QED BY <2>2, <2>3 DEF WInv, Accounted, Readable, vars, files, records, locals
<1>6. ASSUME NEW w \in Workers \ {Watcher}, OtherStarts(w) \/ OtherGoesOn(w) \/ OtherCrashes(w)
      PROVE  WInv'
  <2>1. CASE OtherStarts(w)
    BY <2>1 DEF OtherStarts, Interferes
  <2>2. CASE OtherGoesOn(w) \/ OtherCrashes(w)
    <3>1. ~ interfered
      BY <2>2 DEF OtherGoesOn, OtherCrashes, watch
    <3>2. pc[w] = "idle"
      BY <3>1 DEF WInv
    <3> QED
      BY <2>2, <3>2 DEF OtherGoesOn, OtherCrashes, Crash, Leave, Step, ReadFile, Check, Upsert,
         Load, SaveRows, OpenFile, DumpFile, Finish, Raise, Goto
  <2> QED BY <1>6, <2>1, <2>2
<1>7. CASE Author
  <2>1. interfered' = (interfered \/ wpc \in {"ingesting", "evaluating"})
    BY <1>7 DEF Author
  <2>2. wpc \notin {"ingesting", "evaluating"} /\ pc[Watcher] = "idle" /\ ~ interfered
    BY <2>1 DEF WTypes
  <2>3. UNCHANGED <<file, table, pc, read, state, wpc, evaluated>>
    BY <1>7 DEF Author, Edit, records, locals
  <2>4. \A d \in Docs : read'[Watcher][d] = None
    BY <2>2, <2>3 DEF WInv, Nothing
  <2> QED BY <2>2, <2>3, <2>4 DEF WInv, Accounted, Readable
<1>8. CASE Environment
  <2>1. UNCHANGED <<disk, file, table, pc, read, state, wpc, evaluated, interfered>>
    BY <1>8 DEF Environment, Interferes, Recreate, watch, files, records, locals
  <2> QED BY <2>1 DEF WInv, Accounted, Readable
<1>9. CASE UNCHANGED allvars
  <2>1. UNCHANGED <<disk, file, table, pc, read, state, wpc, evaluated, interfered>>
    BY <1>9 DEF allvars, vars, watch, files, records, locals
  <2> QED BY <2>1 DEF WInv, Accounted, Readable
<1>10. CASE EvaluateRaises
  BY <1>10 DEF EvaluateRaises, Interferes
<1> QED
  BY <1>1, <1>2, <1>3, <1>4, <1>5, <1>6, <1>7, <1>8, <1>9, <1>10, IngestOnWInv
  DEF ANext, WatcherStep

(* A watcher that sees no change has evaluated all there is, as long as    *)
(* nobody else ingests, its own runs are not cut short and no document     *)
(* changes in the middle of one: for any number of documents and texts,    *)
(* with Postgres failing or without.                                       *)
THEOREM WatcherReacts == ASpec => []ReactsUndisturbed
<1>1. TypeOK /\ WInv => ReactsUndisturbed
  <2> SUFFICES ASSUME TypeOK, WInv, ~ interfered, SeesNoChange,
                      NEW d \in Docs \ Nested, disk[d] # None
               PROVE  <<d, disk[d]>> \in evaluated
    BY DEF ReactsUndisturbed, ReactsToChanges, AllEvaluated, Pairs, Known
  <2>1. file[d] = disk[d] /\ wpc = "asleep" /\ Readable
    BY DEF SeesNoChange, Changed, Known
  <2> QED BY <2>1 DEF WInv, Accounted
<1> QED BY <1>1, InitWInv, NextWInv, AlwaysTypes, PTL DEF ASpec
=============================================================================

------------------------------ MODULE LossyMap ------------------------------
(***************************************************************************)
(* What a cache promises its callers: a map that may forget any entry at   *)
(* any time, but answers a lookup with the value last stored for that key  *)
(* or with nothing.  Concurrent callers see lookups and stores as atomic.  *)
(***************************************************************************)
CONSTANTS
  Callers,   \* the threads that use the map
  Keys,      \* the keys they look up
  Vals,      \* the values they store
  NoVal      \* the reply for a key the map holds no value of

VARIABLES
  mem,       \* the value of every key, or NoVal
  reply      \* the last reply every caller got

(* The map after it forgot the keys in `lost`.                             *)
Forgetting(lost) == [k \in Keys |-> IF k \in lost THEN NoVal ELSE mem[k]]

Init ==
  /\ mem   = [k \in Keys |-> NoVal]
  /\ reply = [c \in Callers |-> NoVal]

(* The map loses entries: expiry, eviction or a clear.                     *)
Forget ==
  /\ \E lost \in SUBSET Keys : mem' = Forgetting(lost)
  /\ UNCHANGED reply

(* A caller looks a key up.                                                *)
Lookup(c, k) ==
  /\ reply' = [reply EXCEPT ![c] = mem[k]]
  /\ UNCHANGED mem

(* A caller stores a value; other entries may be lost to make room.        *)
Store(c, k, v) ==
  /\ \E lost \in SUBSET (Keys \ {k}) :
        mem' = [Forgetting(lost) EXCEPT ![k] = v]
  /\ UNCHANGED reply

Next ==
  \/ Forget
  \/ \E c \in Callers, k \in Keys :
        Lookup(c, k) \/ \E v \in Vals : Store(c, k, v)

Spec == Init /\ [][Next]_<<mem, reply>>
=============================================================================

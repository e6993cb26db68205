----------------------------- MODULE QuerySlots -----------------------------
(***************************************************************************)
(* The ceiling on concurrent agent runs: POST /query and /query/stream     *)
(* take a slot of a bounded semaphore or are shed with 503.  /query gives  *)
(* it back when its run returns or raises; a stream gives it back in the   *)
(* `finally` of the generator that produces its events.  The server starts *)
(* that generator, resumes it for every event, and drops it when the       *)
(* client is gone.                                                         *)
(***************************************************************************)
EXTENDS Integers, FiniteSets

CONSTANTS
  Clients,        \* clients, each with one request at a time
  MaxConcurrent,  \* api.max_concurrent_queries
  MaxEvents,      \* events a stream sends at most: max_steps bounds them
  MayLeaveEarly   \* may a client go before its stream has begun?

ASSUME SlotConstants ==
  /\ IsFiniteSet(Clients)
  /\ MaxConcurrent \in Nat \ {0} /\ MaxEvents \in Nat /\ MayLeaveEarly \in BOOLEAN

VARIABLES
  slots,  \* the value of _QUERY_SEM
  where,  \* where each client's request is
  left,   \* events its stream may still send
  lost    \* history: streams dropped before their generator began

slotsVars == <<slots, where, left, lost>>

SlotsInit ==
  /\ slots = MaxConcurrent
  /\ where = [c \in Clients |-> "idle"]
  /\ left = [c \in Clients |-> 0]
  /\ lost = 0

Goto(c, from, to) == where[c] = from /\ where' = [where EXCEPT ![c] = to]

(* _acquire_query_slot.                                                    *)
Acquire == slots > 0 /\ slots' = slots - 1

Release == slots' = slots + 1

(* Without a slot the request is shed with 503 ...                         *)
Shed(c) ==
  /\ slots = 0 /\ Goto(c, "idle", "shed")
  /\ UNCHANGED <<slots, left, lost>>

(* ... and "Retry-After": 1.                                               *)
Retry(c) ==
  /\ Goto(c, "shed", "idle")
  /\ UNCHANGED <<slots, left, lost>>

(* POST /query ...                                                         *)
Query(c) ==
  /\ Goto(c, "idle", "query") /\ Acquire
  /\ UNCHANGED <<left, lost>>

(* ... whose run returns or raises.                                        *)
EndQuery(c) ==
  /\ Goto(c, "query", "idle") /\ Release
  /\ UNCHANGED <<left, lost>>

(* POST /query/stream makes the generator and returns the response ...     *)
Stream(c) ==
  /\ Goto(c, "idle", "accepted") /\ Acquire
  /\ left' = [left EXCEPT ![c] = MaxEvents]
  /\ UNCHANGED lost

(* ... the server asks for the first event: the run begins ...             *)
Begin(c) ==
  /\ Goto(c, "accepted", "running")
  /\ UNCHANGED <<slots, left, lost>>

(* ... it yields one, which is sent while the generator is suspended ...   *)
Send(c) ==
  /\ left[c] > 0 /\ Goto(c, "running", "sending")
  /\ left' = [left EXCEPT ![c] = @ - 1]
  /\ UNCHANGED <<slots, lost>>

(* ... and goes on when it was ...                                         *)
Resume(c) ==
  /\ Goto(c, "sending", "running")
  /\ UNCHANGED <<slots, left, lost>>

(* ... until the run returns or raises.                                    *)
EndStream(c) ==
  /\ Goto(c, "running", "idle") /\ Release
  /\ UNCHANGED <<left, lost>>

(* The client goes while an event is sent: the generator is dropped ...    *)
Leave(c) ==
  /\ Goto(c, "sending", "dropped")
  /\ UNCHANGED <<slots, left, lost>>

(* Slip: the slot is given back after the loop, not in a `finally`.        *)
CollectForgets(c) ==
  /\ Goto(c, "dropped", "idle")
  /\ UNCHANGED <<slots, left, lost>>

(* ... and closed when it is collected, which runs its `finally`.          *)
Collect(c) ==
  /\ Goto(c, "dropped", "idle") /\ Release
  /\ UNCHANGED <<left, lost>>

(* The client goes before: a generator that never began has no `finally`.  *)
LeaveEarly(c) ==
  /\ MayLeaveEarly /\ Goto(c, "accepted", "idle")
  /\ lost' = lost + 1
  /\ UNCHANGED <<slots, left>>

Advance(c) ==
  \/ EndQuery(c) \/ Begin(c) \/ Send(c) \/ EndStream(c) \/ Collect(c)
  \/ Resume(c) \/ Leave(c)

SlotsNext ==
  \E c \in Clients :
    Query(c) \/ Stream(c) \/ Shed(c) \/ Retry(c) \/ Advance(c) \/ LeaveEarly(c)

SlotsSpec == SlotsInit /\ [][SlotsNext]_slotsVars

(* Agent runs go on and end, clients read what they are sent or go, and    *)
(* dropped generators are collected.                                       *)
FairSlotsSpec == SlotsSpec /\ \A c \in Clients : WF_slotsVars(Advance(c))
-----------------------------------------------------------------------------
Serving == {c \in Clients : where[c] \in {"query", "running", "sending", "dropped"}}
Holders == {c \in Clients : where[c] \notin {"idle", "shed"}}

SlotsTypeOK ==
  /\ slots \in 0 .. MaxConcurrent
  /\ where \in [Clients -> {"idle", "shed", "query", "accepted", "running", "sending", "dropped"}]
  /\ left \in [Clients -> 0 .. MaxEvents] /\ lost \in Nat

(* The comment at _QUERY_SEM: a ceiling on concurrent agent runs.          *)
AgentsBounded == Cardinality(Serving) <= MaxConcurrent

(* No slot is given back twice, and the only slots that are never given    *)
(* back are those of streams whose generator never began.                  *)
SlotsAccounted == slots + Cardinality(Holders) + lost = MaxConcurrent

(* A saturated server admits requests again ("retry shortly"), until every *)
(* slot was lost to such streams.                                          *)
AdmitsAgain == []<>(slots > 0 \/ lost = MaxConcurrent)

(* query_stream: "hold a concurrency slot for the whole stream; release    *)
(* when it ends".  With nothing to serve, every slot is free.              *)
SlotReturned == Holders = {} => slots = MaxConcurrent
=============================================================================

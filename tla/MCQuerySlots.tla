---------------------------- MODULE MCQuerySlots ----------------------------
(* Small instances of QuerySlots: more clients than slots.                 *)
EXTENDS QuerySlots, TLC

CONSTANTS c1, c2, c3, c4
=============================================================================

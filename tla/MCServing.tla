----------------------------- MODULE MCServing -----------------------------
(* Small instances of Serving; each .cfg picks the mode and the bounds.    *)
EXTENDS Serving, TLC

CONSTANTS t1, t2, i1, i2, q1, q2, s1, s2

(* The threads of a kind are interchangeable.                              *)
Symmetric == Permutations({t1, t2}) \cup Permutations({i1, i2})
=============================================================================

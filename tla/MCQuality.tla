----------------------------- MODULE MCQuality -----------------------------
(* A small instance of Quality: thresholds as configured, scores on either *)
(* side of them, and judges that could not score.                          *)
EXTENDS Quality, TLC

CONSTANTS v1, v2, p1, p2, t1, q1, a, b

Scored(faithfulness, recall) ==
  [m \in {"faithfulness", "context_recall"} |-> IF m = "faithfulness" THEN faithfulness ELSE recall]

SomeOutcomes ==
  {Scored(900, 900), Scored(900, 860), Scored(900, 820), Scored(700, 900), Scored(NaN, 860),
   Scored(NaN, NaN)}

TheBaseline == Scored(900, 900)

Symmetric == Permutations({v1, v2}) \cup Permutations({p1, p2}) \cup Permutations({a, b})
=============================================================================

---------------------------- MODULE MCBenchmark ----------------------------
(* Small instances of Benchmark: jobs of the API beside an operator's run. *)
EXTENDS Benchmark, TLC

CONSTANTS j1, j2, p1, a, b

(* The committed files are of different benchmarks, as in the repository.  *)
MCShipped == [n \in {"scores", "champion"} |->
                [run |-> 0, champion |-> IF n = "scores" THEN a ELSE b]]
=============================================================================

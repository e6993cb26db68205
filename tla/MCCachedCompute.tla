-------------------------- MODULE MCCachedCompute --------------------------
(* A small instance of CachedCompute: see MCCachedCompute.cfg.             *)
EXTENDS CachedCompute, TLC

CONSTANTS t1, t2, k1, k2, k3

MCThreads == {t1, t2}
MCKeys    == {k1, k2, k3}

Symmetric == Permutations(MCThreads) \cup Permutations(MCKeys)
=============================================================================

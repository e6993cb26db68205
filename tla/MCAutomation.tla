---------------------------- MODULE MCAutomation ----------------------------
(* Small instances of Automation: a watcher w1, with or without the API w2. *)
EXTENDS Automation, TLC

CONSTANTS w1, w2, d1, d2, a, b
=============================================================================

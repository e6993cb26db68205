------------------------------ MODULE Database ------------------------------
(***************************************************************************)
(* core/pg.py, as far as its users can tell: pg_enabled() says whether the *)
(* stores of feedback, traces and scores are Postgres or local files.      *)
(***************************************************************************)
VARIABLE durable   \* is DATABASE_URL set?

DatabaseInit == durable \in BOOLEAN
=============================================================================

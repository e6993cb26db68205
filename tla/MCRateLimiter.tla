--------------------------- MODULE MCRateLimiter ---------------------------
(* Two instances and a limit of two in a window of three seconds.            *)
EXTENDS RateLimiter

CONSTANTS i1, i2
=============================================================================

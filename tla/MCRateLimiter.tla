--------------------------- MODULE MCRateLimiter ---------------------------
(* Model checking of RateLimiter on a few tasks and a window of a few ticks. *)
EXTENDS RateLimiter
=============================================================================

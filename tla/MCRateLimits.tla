---------------------------- MODULE MCRateLimits ----------------------------
(* A small instance of RateLimits for TLC: its values are in rate_limits.cfg. *)
EXTENDS RateLimits
=============================================================================

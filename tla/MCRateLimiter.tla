---------------------------- MODULE MCRateLimiter ----------------------------
(***************************************************************************)
(* The limiter alone, for TLC.  A minute is three ticks; with at most two  *)
(* requests a minute a tick earns less than one request, as in the code.   *)
(***************************************************************************)
EXTENDS RateLimiter
=============================================================================

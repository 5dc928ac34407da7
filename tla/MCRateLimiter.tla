--------------------------- MODULE MCRateLimiter ----------------------------
(***************************************************************************)
(* Two requests at a time for one counter with a limit of two.           *)
(***************************************************************************)
EXTENDS RateLimiter

CONSTANT k1

Limits == [k \in {k1} |-> 2]
=============================================================================

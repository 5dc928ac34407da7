----------------------------- MODULE MCTenants ------------------------------
(***************************************************************************)
(* Two requests at a time over one connection, a run of the seed, and      *)
(* three keys of which two have the same prefix.                           *)
(***************************************************************************)
EXTENDS Tenants

CONSTANTS k1, k2, k3

Prefixes == [key \in {k1, k2, k3} |-> IF key = k3 THEN "q" ELSE "p"]
=============================================================================

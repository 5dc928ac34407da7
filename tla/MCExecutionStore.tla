-------------------------- MODULE MCExecutionStore --------------------------
(***************************************************************************)
(* One page holds one execution.                                           *)
(***************************************************************************)
EXTENDS ExecutionStore

Symmetry == Permutations(Session)
=============================================================================

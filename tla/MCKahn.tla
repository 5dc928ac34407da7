------------------------------- MODULE MCKahn -------------------------------
(***************************************************************************)
(* Every graph over three steps, repeated mentions and cycles included,    *)
(* and every graph over four steps with at most two dependencies each.     *)
(***************************************************************************)
EXTENDS GraphValidation

Lists(ids, n) == UNION {[1..m -> ids] : m \in 0..n}

Graphs3 ==
  LET ids == {"a", "b", "c"}
  IN  {[steps |-> <<"a", "b", "c">>, depends_on |-> d] :
         d \in [ids -> Lists(ids, 2)]}

\* The order of a list and repetitions matter only in Graphs3.
Graphs4 ==
  LET ids == {"a", "b", "c", "d"}
      choices == {<< >>, <<"a">>, <<"b">>, <<"c">>, <<"d">>, <<"d", "a">>}
  IN  {[steps |-> <<"d", "b", "a", "c">>, depends_on |-> d] :
         d \in [ids -> choices]}

Both == Graphs3 \cup Graphs4
=============================================================================

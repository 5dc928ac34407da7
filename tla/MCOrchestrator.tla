--------------------------- MODULE MCOrchestrator ---------------------------
(***************************************************************************)
(* Small sets of workflow definitions for the runs of Orchestrator.tla.    *)
(***************************************************************************)
EXTENDS Orchestrator, TLC

None(ids) == [s \in ids |-> << >>]
Empty(ids) == [s \in ids |-> {}]
All(ids, x) == [s \in ids |-> x]

\* A step list with http steps, no dependencies, nothing read, no branches.
Base(steps) ==
  LET ids == Ids(steps)
  IN  [steps |-> steps, depends_on |-> None(ids), type |-> All(ids, "http"),
       max_attempts |-> All(ids, 2), reads |-> Empty(ids), sound |-> ids,
       true_branch |-> Empty(ids), false_branch |-> Empty(ids),
       no_list |-> Empty(ids)]

\* b is an http step after a; a fails, is retried, is exhausted.
Chain == [Base(<<"b", "a">>) EXCEPT
            !.depends_on["b"] = <<"a", "a">>, !.reads["b"] = {"a"},
            !.max_attempts["b"] = 1]

\* A diamond behind a condition, joined by a step that reads the condition and one
\* side.
Diamond ==
  [Base(<<"check", "yes", "no", "join">>) EXCEPT
     !.type = [check |-> "condition", yes |-> "http", no |-> "transform",
               join |-> "transform"],
     !.depends_on = [check |-> << >>, yes |-> <<"check">>, no |-> <<"check">>,
                     join |-> <<"yes", "no", "check">>],
     !.true_branch["check"] = {"yes"}, !.false_branch["check"] = {"no"},
     !.reads["join"] = {"check", "yes"}]

\* The listed branch step does not depend on the condition and comes first.
EarlyBranch ==
  [Base(<<"no", "check">>) EXCEPT
     !.type["check"] = "condition", !.false_branch["check"] = {"no"}]

\* Two conditions that both decide about "last".
TwoConditions ==
  [Base(<<"c1", "c2", "last">>) EXCEPT
     !.type = [c1 |-> "condition", c2 |-> "condition", last |-> "http"],
     !.depends_on["last"] = <<"c1", "c2">>,
     !.true_branch["c1"] = {"last"}, !.false_branch["c2"] = {"last"}]

\* A delay with a bad config, after a step that works.
Unsound ==
  [Base(<<"a", "wait">>) EXCEPT
     !.type["wait"] = "delay", !.depends_on["wait"] = <<"a">>, !.sound = {"a"}]

Nested ==
  [Base(<<"a", "child">>) EXCEPT
     !.type["child"] = "sub_workflow", !.depends_on["child"] = <<"a">>]

\* A false branch that is null, which shows only when the result is true, after
\* a condition that decides about the last step.
NullBranch ==
  [Base(<<"a", "check", "last">>) EXCEPT
     !.type = [a |-> "condition", check |-> "condition", last |-> "http"],
     !.depends_on["last"] = <<"a", "check">>,
     !.true_branch["a"] = {"last"}, !.no_list["check"] = {TRUE}]

Chosen == {Chain, Diamond, EarlyBranch, TwoConditions, Unsound, Nested, NullBranch}

\* Every workflow of three steps a, b, c listed in this order, over three step
\* types and every acyclic graph, c a condition over either of the others or
\* reading them.
Three == <<"a", "b", "c">>
Abc == Ids(Three)
DepLists == {<< >>, <<"a">>, <<"b">>, <<"c">>, <<"a", "b">>, <<"b", "c">>,
             <<"c", "a">>}
Graphs3 == {deps \in [Abc -> DepLists] : Acyclic(Three, deps)}
Generated ==
  {[Base(Three) EXCEPT !.depends_on = deps,
                       !.type = [a |-> t[1], b |-> t[2], c |-> t[3]],
                       !.max_attempts = [a |-> 2, b |-> 1, c |-> 1],
                       !.reads["b"] = {"a"},
                       !.true_branch["c"] = {"a"}, !.false_branch["c"] = {"b"}] :
     deps \in Graphs3,
     t \in {"http", "transform", "condition"} \X {"http", "delay"}
             \X {"condition", "http"}}

Both == Chosen \cup Generated
=============================================================================

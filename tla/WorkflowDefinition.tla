-------------------------- MODULE WorkflowDefinition ------------------------
(***************************************************************************)
(* Workflow definitions as the orchestrator sees them: what                *)
(* parse_workflow_definition has accepted.  A definition is a record       *)
(*   steps         the step list, in the order of the JSON array           *)
(*   depends_on    each step's dependency list                             *)
(*   type          each step's StepType                                    *)
(*   max_attempts  its retry.max_attempts (3 when it has no retry block)   *)
(*   reads         the steps whose output its templates refer to           *)
(*   sound         the steps whose config is well formed and whose         *)
(*                 templates evaluate once those outputs are there         *)
(*   true_branch, false_branch  what a condition step lists                *)
(*   no_list       for each condition, the results whose branch not taken   *)
(*                 is no list of ids: null, or with a member like {}       *)
(***************************************************************************)
EXTENDS StepGraph

CONSTANT Workflows      \* the definitions in play

StepType == {"http", "transform", "condition", "delay", "sub_workflow"}

StepsOf(w) == Ids(w.steps)

\* build_dependency_graph, multiplicities forgotten.
Dependencies(w, s) == {w.depends_on[s][i] : i \in DOMAIN w.depends_on[s]}

\* The steps a condition's result sends to "skipped".
NonTaken(w, c, is_truthy) ==
  IF is_truthy THEN w.false_branch[c] ELSE w.true_branch[c]

\* order runs through every step of w once, dependencies first.  TopologicalSort
\* returns such an order for every workflow: OrchestratorProofs.tla.
IsTopological(w, order) ==
  /\ order \in Seq(StepsOf(w))
  /\ \A i, j \in 1..Len(order) : order[i] = order[j] => i = j
  /\ \A s \in StepsOf(w) : \E i \in 1..Len(order) : order[i] = s
  /\ \A i \in 1..Len(order) : \A d \in Dependencies(w, order[i]) :
       \E j \in 1..(i-1) : order[j] = d

\* _validate_unique_ids, _validate_step_types, _validate_dependencies,
\* detect_cycles and the bounds of RetryConfig.
IsWorkflow(w) ==
  LET S == StepsOf(w)
  IN  /\ IsGraph(w.steps, w.depends_on) /\ Len(w.steps) > 0
      /\ Acyclic(w.steps, w.depends_on)
      /\ w.type \in [S -> StepType]
      /\ w.max_attempts \in [S -> 1..10]
      /\ w.reads \in [S -> SUBSET S]
      /\ w.sound \subseteq S
      /\ w.true_branch \in [S -> SUBSET S]
      /\ w.false_branch \in [S -> SUBSET S]
      /\ w.no_list \in [S -> SUBSET BOOLEAN]

ASSUME WorkflowsAssumption == \A w \in Workflows : IsWorkflow(w)
=============================================================================

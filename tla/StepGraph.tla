------------------------------ MODULE StepGraph -----------------------------
(***************************************************************************)
(* The dependency graph of a workflow's step list, and the sort that fixes *)
(* the order in which the orchestrator walks it (_topological_sort, Kahn's *)
(* algorithm).  A graph is a step list (a sequence of distinct ids) with,  *)
(* for each id, its depends_on list; depends_on may name a step twice, and *)
(* each mention counts in the in-degree.                                   *)
(***************************************************************************)
EXTENDS Integers, Sequences, FiniteSets

Ids(steps) == {steps[i] : i \in DOMAIN steps}

\* How often node appears in the dependency list deps: as many entries as it
\* puts in graph[node] for that step, and as many as its visit takes away.
Mentions(deps, node) == Cardinality({i \in DOMAIN deps : deps[i] = node})

\* A step list without repetitions, and for each step a list of steps.
IsGraph(steps, depends_on) ==
  /\ steps \in Seq(Ids(steps))
  /\ \A i, j \in 1..Len(steps) : steps[i] = steps[j] => i = j
  /\ depends_on \in [Ids(steps) -> Seq(Ids(steps))]

\* No cycle: every set of steps has one that depends on none of the set.  This
\* is what detect_cycles accepts.
Acyclic(steps, depends_on) ==
  \A U \in SUBSET Ids(steps) : U # {} =>
    \E s \in U : \A i \in DOMAIN depends_on[s] : depends_on[s][i] \notin U

\* Of the first n steps of a list those in S, in list order.
Picked(steps, S) ==
  LET pick[n \in 0..Len(steps)] ==
        IF n = 0 THEN << >>
        ELSE IF steps[n] \in S THEN Append(pick[n-1], steps[n]) ELSE pick[n-1]
  IN  pick

InListOrder(steps, S) == Picked(steps, S)[Len(steps)]

Roots(steps, depends_on) == {s \in Ids(steps) : Len(depends_on[s]) = 0}

\* The sort before its loop: in-degrees counted, roots queued in list order.
KahnStart(steps, depends_on) ==
  [in_degree |-> [s \in Ids(steps) |-> Len(depends_on[s])],
   queue     |-> InListOrder(steps, Roots(steps, depends_on)),
   result    |-> << >>]

\* The steps that miss nothing any more once node is visited and its mentions
\* are taken away from the in-degrees.
Freed(steps, depends_on, node, in_degree) ==
  {s \in Ids(steps) : Mentions(depends_on[s], node) > 0 /\ in_degree[s] = 0}

\* One turn of `while queue`: the head moves to the result, and the children
\* it was the last missing dependency of are queued, in list order.
KahnVisit(steps, depends_on, k) ==
  LET node == Head(k.queue)
      left == [s \in Ids(steps) |->
                 k.in_degree[s] - Mentions(depends_on[s], node)]
  IN  [in_degree |-> left,
       queue     |-> Tail(k.queue)
                       \o InListOrder(steps, Freed(steps, depends_on, node, left)),
       result    |-> Append(k.result, node)]

\* The loop ends when the queue is empty, after at most one turn per step.
Turns(steps, depends_on) ==
  LET turn[n \in 0..Len(steps)] ==
        IF n = 0 THEN KahnStart(steps, depends_on)
        ELSE IF turn[n-1].queue = << >> THEN turn[n-1]
        ELSE KahnVisit(steps, depends_on, turn[n-1])
  IN  turn

\* The whole sort.
TopologicalSort(steps, depends_on) == Turns(steps, depends_on)[Len(steps)].result
=============================================================================

-------------------------------- MODULE Kahn --------------------------------
(***************************************************************************)
(* _topological_sort of the orchestrator, loop turn by loop turn, on every *)
(* graph of Graphs, cyclic ones included (the parser refuses those, the    *)
(* sort itself does not look).  StepGraph!TopologicalSort is the same sort *)
(* as one operator; SameAsOperator says that they agree.                   *)
(***************************************************************************)
EXTENDS StepGraph

CONSTANT Graphs      \* records of a step list and its dependency lists

ASSUME GraphsAssumption == \A g \in Graphs : IsGraph(g.steps, g.depends_on)

VARIABLES
  graph,        \* the graph being sorted
  in_degree,    \* `in_degree`
  queue,        \* `queue`
  result,       \* `result`
  loop,         \* the loop the sort is in
  next          \* that loop's position in the step list

vars == <<graph, in_degree, queue, result, loop, next>>

Nodes == Ids(graph.steps)
N == Len(graph.steps)
Deps(s) == graph.depends_on[s]

Visited == {result[i] : i \in DOMAIN result}
Waiting == {queue[i] : i \in DOMAIN queue}

TypeOK ==
  /\ graph \in Graphs
  /\ in_degree \in [Nodes -> Nat]
  /\ queue \in Seq(Nodes) /\ result \in Seq(Nodes)
  /\ loop \in {"roots", "while", "children", "done"}
  /\ next \in 1..(N + 1)
-----------------------------------------------------------------------------
\* The edges have been counted, one per mention.
Init ==
  /\ graph \in Graphs
  /\ in_degree = [s \in Nodes |-> Len(Deps(s))]
  /\ queue = << >> /\ result = << >>
  /\ loop = "roots" /\ next = 1

\* A definition introduced by "Mistake:" is a variant of the action after it that
\* a plausible bug would make; no specification uses it.

\* for step_id, degree in in_degree.items(): the dict is in list order.
QueueRoot ==
  /\ loop = "roots" /\ next <= N
  /\ queue' = IF in_degree[graph.steps[next]] = 0
              THEN Append(queue, graph.steps[next]) ELSE queue
  /\ next' = next + 1
  /\ UNCHANGED <<graph, in_degree, result, loop>>

EndFor ==
  /\ loop \in {"roots", "children"} /\ next > N
  /\ loop' = "while"
  /\ UNCHANGED <<graph, in_degree, queue, result, next>>

\* Mistake: pop() for popleft().
Pop_last ==
  /\ loop = "while" /\ queue # << >>
  /\ result' = Append(result, queue[Len(queue)])
  /\ queue' = SubSeq(queue, 1, Len(queue) - 1)
  /\ loop' = "children" /\ next' = 1
  /\ UNCHANGED <<graph, in_degree>>

Pop ==
  /\ loop = "while" /\ queue # << >>
  /\ result' = Append(result, Head(queue))
  /\ queue' = Tail(queue)
  /\ loop' = "children" /\ next' = 1
  /\ UNCHANGED <<graph, in_degree>>

\* Mistake: a repeated mention is taken away once only.
VisitChild_once ==
  /\ loop = "children" /\ next <= N
  /\ LET child    == graph.steps[next]
         mentions == Mentions(Deps(child), result[Len(result)])
         taken    == IF mentions > 0 THEN 1 ELSE 0
     IN  /\ in_degree' = [in_degree EXCEPT ![child] = @ - taken]
         /\ queue' = IF taken > 0 /\ in_degree[child] = taken
                     THEN Append(queue, child) ELSE queue
  /\ next' = next + 1
  /\ UNCHANGED <<graph, result, loop>>

\* Mistake: the first dependency visited frees the step.
VisitChild_early ==
  /\ loop = "children" /\ next <= N
  /\ LET child    == graph.steps[next]
         mentions == Mentions(Deps(child), result[Len(result)])
     IN  /\ in_degree' = [in_degree EXCEPT ![child] = @ - mentions]
         /\ queue' = IF mentions > 0 THEN Append(queue, child) ELSE queue
  /\ next' = next + 1
  /\ UNCHANGED <<graph, result, loop>>

\* `for child in graph.get(node, [])`: the children stand in list order, each
\* as often as it mentions node; the last mention may free it.
VisitChild ==
  /\ loop = "children" /\ next <= N
  /\ LET child    == graph.steps[next]
         mentions == Mentions(Deps(child), result[Len(result)])
     IN  /\ in_degree' = [in_degree EXCEPT ![child] = @ - mentions]
         /\ queue' = IF mentions > 0 /\ in_degree[child] = mentions
                     THEN Append(queue, child) ELSE queue
  /\ next' = next + 1
  /\ UNCHANGED <<graph, result, loop>>

Return ==
  /\ loop = "while" /\ queue = << >>
  /\ loop' = "done"
  /\ UNCHANGED <<graph, in_degree, queue, result, next>>

Next == QueueRoot \/ EndFor \/ Pop \/ VisitChild \/ Return

Spec == Init /\ [][Next]_vars
-----------------------------------------------------------------------------
WellFounded == Acyclic(graph.steps, graph.depends_on)

\* Whatever the graph, a step comes after every step it depends on.
DependenciesPrecede ==
  \A i \in 1..Len(result) : \A d \in DOMAIN Deps(result[i]) :
    \E j \in 1..(i-1) : result[j] = Deps(result[i])[d]

\* A step is queued once: the mention that brings its in-degree to zero is
\* met once, however often a dependency is repeated.
QueuedOnce ==
  /\ \A i, j \in 1..Len(result) : result[i] = result[j] => i = j
  /\ \A i, j \in 1..Len(queue) : queue[i] = queue[j] => i = j
  /\ Visited \cap Waiting = {}

\* The sort is complete on exactly the graphs without a cycle; on the others
\* it silently leaves out the steps behind a cycle.
CompleteIffWellFounded ==
  loop = "done" => (Visited = Nodes <=> WellFounded)

SameAsOperator ==
  loop = "done" => result = TopologicalSort(graph.steps, graph.depends_on)
-----------------------------------------------------------------------------
(* The inductive invariant *)

\* Inside the children loop, the steps not yet looked at still count the node
\* that was just visited as missing.
Counted(s) ==
  IF loop = "children"
     /\ \A i \in 1..N : graph.steps[i] = s => next <= i
  THEN {result[i] : i \in 1..(Len(result) - 1)}
  ELSE Visited

\* The mentions that keep s waiting.
Missing(s) == {i \in DOMAIN Deps(s) : Deps(s)[i] \notin Counted(s)}

InDegreeInv == \A s \in Nodes : in_degree[s] = Cardinality(Missing(s))

\* Outside the first loop exactly the steps with nothing missing are queued or
\* visited; inside it, those it has passed.
QueueInv ==
  \A s \in Nodes :
    s \in Visited \cup Waiting <=>
      /\ in_degree[s] = 0
      /\ loop = "roots" => \E i \in 1..N : i < next /\ graph.steps[i] = s

LoopInv ==
  /\ loop = "roots" => result = << >>
  /\ loop = "children" => result # << >>
  /\ loop = "while" => next = N + 1
  /\ loop = "done" => queue = << >>

SortInv == /\ TypeOK /\ InDegreeInv /\ QueueInv /\ LoopInv
           /\ DependenciesPrecede /\ QueuedOnce

Turn(n) == Turns(graph.steps, graph.depends_on)[n]

\* The first loop has queued the roots among the steps it has passed.
InStart ==
  /\ in_degree = KahnStart(graph.steps, graph.depends_on).in_degree
  /\ queue = Picked(graph.steps, Roots(graph.steps, graph.depends_on))[next-1]

\* The children loop is on its way from the turn k to the turn v: it has queued
\* those that k's head frees among the steps it has passed.
InVisit(k, v) ==
  /\ k.queue # << >> /\ result = v.result
  /\ \A i \in 1..N : LET s == graph.steps[i] IN
       in_degree[s] = IF i < next THEN v.in_degree[s] ELSE k.in_degree[s]
  /\ queue = Tail(k.queue)
               \o Picked(graph.steps, Freed(graph.steps, graph.depends_on,
                                            Head(k.queue), v.in_degree))[next-1]

\* The turns of the loops are those of the operator.
TurnInv ==
  LET n == Len(result)
  IN  /\ n <= N
      /\ loop = "roots" => InStart
      /\ loop \in {"while", "done"} =>
           [in_degree |-> in_degree, queue |-> queue, result |-> result] = Turn(n)
      /\ loop = "children" => InVisit(Turn(n-1), Turn(n))

IInv == SortInv /\ TurnInv
=============================================================================

--------------------------- MODULE GraphValidation --------------------------
(***************************************************************************)
(* What the parser checks of a dependency graph (src/src/engine/graph.py), *)
(* before the sort of Kahn.tla sees it: detect_cycles, a depth-first       *)
(* search with three colours, with the calls of its recursive dfs as an    *)
(* explicit stack, and validate_max_depth, Kahn's algorithm with a depth   *)
(* per step.  The parser checks a graph when the workflow is saved, and    *)
(* _topological_sort sorts it when it runs, so the two must agree.         *)
(***************************************************************************)
EXTENDS Kahn

CONSTANTS MAX_DEPTH, None

ASSUME DepthAssumption == MAX_DEPTH \in Nat \ {0}

ASSUME NoneAssumption == \A g \in Graphs : None \notin Ids(g.steps)

VARIABLES
  check,        \* the function the parser is in, or what it said of the graph
  color,        \* `color`
  parent,       \* `parent`
  calls,        \* the steps whose dfs has not returned, the first call first
  at,           \* for each step, the place of its dfs's loop in the step list
  root,         \* the place of the loop over the graph's steps
  path,         \* _reconstruct_cycle's `path`
  current,      \* _reconstruct_cycle's `current`
  turn,         \* the dicts and the queue of validate_max_depth
  depth         \* `depth`; a step without one counts as 0, as in depth.get

checkVars ==
  <<check, color, parent, calls, at, root, path, current, turn, depth>>
dfsVars   == <<color, parent, calls, at, root>>
pathVars  == <<path, current>>
depthVars == <<turn, depth>>

\* child is in children[node], the steps that depend on node.
IsChild(child, node) == \E d \in DOMAIN Deps(child) : Deps(child)[d] = node

\* The step whose dfs is running.
Node == calls[Len(calls)]
-----------------------------------------------------------------------------
ParseInit ==
  /\ Init
  /\ check = "detect_cycles"
  /\ color = [s \in Nodes |-> "white"] /\ parent = [s \in Nodes |-> None]
  /\ calls = << >> /\ at = [s \in Nodes |-> 1] /\ root = 1
  /\ path = << >> /\ current = None
  /\ turn = KahnStart(graph.steps, graph.depends_on)
  /\ depth = [s \in Nodes |-> 0]

\* dfs(node), as far as its loop.
Call(node) ==
  /\ color' = [color EXCEPT ![node] = "gray"]
  /\ calls' = Append(calls, node)

\* for node in graph: in list order.
TryRoot ==
  /\ check = "detect_cycles" /\ calls = << >> /\ root <= N
  /\ IF color[graph.steps[root]] = "white" THEN Call(graph.steps[root])
     ELSE UNCHANGED <<color, calls>>
  /\ root' = root + 1
  /\ UNCHANGED <<vars, check, parent, at, pathVars, depthVars>>

\* `for child in children.get(node, [])` looks at child.  The children stand in
\* list order; one that mentions node twice is there twice, and black by then.
Looks(child) ==
  /\ check = "detect_cycles" /\ calls # << >> /\ at[Node] <= N
  /\ child = graph.steps[at[Node]]

\* Not a child, or one that is finished.
PassChild ==
  /\ \E child \in Nodes :
       Looks(child) /\ (IsChild(child, Node) => color[child] = "black")
  /\ at' = [at EXCEPT ![Node] = @ + 1]
  /\ UNCHANGED <<vars, check, color, parent, calls, root, pathVars, depthVars>>

\* Mistake: parent[child] is not set.
CallChild_orphan ==
  /\ \E child \in Nodes :
       /\ Looks(child) /\ IsChild(child, Node) /\ color[child] = "white"
       /\ Call(child)
  /\ at' = [at EXCEPT ![Node] = @ + 1]
  /\ UNCHANGED <<vars, check, parent, root, pathVars, depthVars>>

CallChild ==
  /\ \E child \in Nodes :
       /\ Looks(child) /\ IsChild(child, Node) /\ color[child] = "white"
       /\ parent' = [parent EXCEPT ![child] = Node]
       /\ Call(child)
  /\ at' = [at EXCEPT ![Node] = @ + 1]
  /\ UNCHANGED <<vars, check, root, pathVars, depthVars>>

\* return _reconstruct_cycle(parent, node, child): the calls return with it one
\* by one, and nothing more is written.
FindCycle ==
  /\ \E child \in Nodes :
       /\ Looks(child) /\ IsChild(child, Node) /\ color[child] = "gray"
       /\ path' = <<child>>
  /\ current' = Node
  /\ check' = "_reconstruct_cycle"
  /\ UNCHANGED <<vars, dfsVars, depthVars>>

\* The loop is through: color[node] = black, and back to the caller.
ReturnNone ==
  /\ check = "detect_cycles" /\ calls # << >> /\ at[Node] > N
  /\ color' = [color EXCEPT ![Node] = "black"]
  /\ calls' = SubSeq(calls, 1, Len(calls) - 1)
  /\ UNCHANGED <<vars, check, parent, at, root, pathVars, depthVars>>

EndSearch ==
  /\ check = "detect_cycles" /\ calls = << >> /\ root > N
  /\ check' = "validate_max_depth"
  /\ UNCHANGED <<vars, dfsVars, pathVars, depthVars>>

\* `while current != to_node`, and the break at a step without a parent.
FollowParent ==
  /\ check = "_reconstruct_cycle" /\ current \notin {path[1], None}
  /\ path' = Append(path, current)
  /\ current' = parent[current]
  /\ UNCHANGED <<vars, check, dfsVars, depthVars>>

\* path.reverse()
Reversed(p) == [i \in 1..Len(p) |-> p[Len(p) + 1 - i]]

\* Mistake: without path.reverse().
RaiseCycle_backwards ==
  /\ check = "_reconstruct_cycle" /\ current \in {path[1], None}
  /\ path' = Append(path, path[1])
  /\ check' = "refused"
  /\ UNCHANGED <<vars, dfsVars, current, depthVars>>

\* CYCLE_DETECTED with the path.
RaiseCycle ==
  /\ check = "_reconstruct_cycle" /\ current \in {path[1], None}
  /\ path' = Reversed(Append(path, path[1]))
  /\ check' = "refused"
  /\ UNCHANGED <<vars, dfsVars, current, depthVars>>

\* depth[child] = max(depth.get(child, 0), new_depth) for the children of node.
Deepened(node) ==
  [s \in Nodes |-> IF IsChild(s, node) /\ depth[node] + 1 > depth[s]
                   THEN depth[node] + 1 ELSE depth[s]]

\* A turn of `while queue`: the same as in the sort, and the children deepened.
TakeDepth ==
  /\ check = "validate_max_depth" /\ turn.queue # << >>
  /\ turn' = KahnVisit(graph.steps, graph.depends_on, turn)
  /\ depth' = Deepened(Head(turn.queue))
  /\ UNCHANGED <<vars, check, dfsVars, pathVars>>

\* Mistake: > for >=; depths start at 0.
WithinDepth_off_by_one == \A s \in Nodes : depth[s] <= MAX_DEPTH

WithinDepth == \A s \in Nodes : depth[s] < MAX_DEPTH

\* MAX_DEPTH_EXCEEDED, or the parser goes on.
Judge ==
  /\ check = "validate_max_depth" /\ turn.queue = << >>
  /\ check' = IF WithinDepth THEN "accepted" ELSE "refused"
  /\ UNCHANGED <<vars, dfsVars, pathVars, depthVars>>

\* The sort comes after the check.  It does not ask for its result, so it is
\* followed on the graphs that were refused as well.
Sort ==
  /\ check \in {"accepted", "refused"}
  /\ Next
  /\ UNCHANGED checkVars

ParseNext ==
  \/ TryRoot \/ PassChild \/ CallChild \/ FindCycle \/ ReturnNone \/ EndSearch
  \/ FollowParent \/ RaiseCycle
  \/ TakeDepth \/ Judge
  \/ Sort

ParseSpec == ParseInit /\ [][ParseNext]_<<vars, checkVars>>
-----------------------------------------------------------------------------
\* p is a sequence of steps each of which depends on the one before.
IsPath(p) == \A i \in 1..(Len(p) - 1) : IsChild(p[i+1], p[i])

\* The parser refuses exactly the graphs with a cycle or with more than
\* MAX_DEPTH steps in a row: no cycle hides behind a step the search has already
\* finished, and a step's depth is that of its deepest dependency however often
\* and in which order its dependencies are visited.
AcceptsShallowDags ==
  check \in {"accepted", "refused"} =>
    (check = "accepted" <=>
       /\ WellFounded
       /\ ~\E p \in [1..(MAX_DEPTH + 1) -> Nodes] : IsPath(p))

\* The path in the CYCLE_DETECTED answer is a cycle of the graph, and goes
\* through no step twice.
ReportsACycle ==
  check = "refused" /\ path # << >> =>
    /\ Len(path) > 1 /\ path[1] = path[Len(path)] /\ IsPath(path)
    /\ \A i, j \in 2..Len(path) : path[i] = path[j] => i = j
-----------------------------------------------------------------------------
(* The inductive invariant *)

CheckTypeOK ==
  /\ check \in {"detect_cycles", "_reconstruct_cycle", "validate_max_depth",
                "accepted", "refused"}
  /\ color \in [Nodes -> {"white", "gray", "black"}]
  /\ parent \in [Nodes -> Nodes \cup {None}]
  /\ calls \in Seq(Nodes) /\ at \in [Nodes -> 1..(N + 1)] /\ root \in 1..(N + 1)
  /\ path \in Seq(Nodes) /\ current \in Nodes \cup {None}
  /\ depth \in [Nodes -> Nat]

\* The gray steps are those being called, each by its parent, of which it is a
\* child.
CallsInv ==
  /\ \A s \in Nodes : color[s] = "gray" <=> \E i \in 1..Len(calls) : calls[i] = s
  /\ \A i, j \in 1..Len(calls) : calls[i] = calls[j] => i = j
  /\ \A i, j \in 1..Len(calls) : j = i + 1 =>
       parent[calls[j]] = calls[i] /\ IsChild(calls[j], calls[i])

\* s is through with child: it is black, or s is calling it.
DoneWith(s, child) ==
  \/ color[child] = "black"
  \/ \E i, j \in 1..Len(calls) : j = i + 1 /\ calls[i] = s /\ calls[j] = child

\* A call is through with the children its loop has passed, a finished one with
\* all, and detect_cycles has called what it has passed.
LoopsInv ==
  /\ \A s \in Nodes : color[s] = "white" => at[s] = 1
  /\ \A s \in Nodes : \A i \in 1..N :
       /\ IsChild(graph.steps[i], s)
       /\ color[s] = "black" \/ i < at[s]
       => DoneWith(s, graph.steps[i])
  /\ \A i \in 1..N : i < root => color[graph.steps[i]] # "white"

Black == {s \in Nodes : color[s] = "black"}

\* There is no cycle among the finished steps.
BlackInv ==
  \A U \in SUBSET Black : U # {} =>
    \E s \in U : \A d \in DOMAIN Deps(s) : Deps(s)[d] \notin U

\* _reconstruct_cycle has followed the calls from the last to the one before
\* calls[i], and to_node is the one at j, or it is done.
Follows(i, j) ==
  /\ j <= i /\ current = calls[i] /\ path[1] = calls[j]
  /\ Len(path) = Len(calls) - i + 1
  /\ \A n \in 2..Len(path) : path[n] = calls[Len(calls) + 2 - n]

CycleInv ==
  /\ check = "_reconstruct_cycle" =>
       /\ path # << >> /\ IsChild(path[1], Node)
       /\ \E i, j \in 1..Len(calls) : Follows(i, j)
  /\ check \in {"detect_cycles", "validate_max_depth", "accepted"} => path = << >>

\* The turns are those of the sort.  Each step stands at the end of as many steps
\* in a row as its depth says, and is deeper than its visited dependencies.
DepthInv ==
  /\ \E n \in 0..N : turn = Turn(n)
  /\ \A s \in Nodes : \E p \in [1..(depth[s] + 1) -> Nodes] :
       IsPath(p) /\ p[depth[s] + 1] = s
  /\ \A s \in Nodes : \A i \in 1..Len(turn.result) :
       IsChild(s, turn.result[i]) => depth[s] > depth[turn.result[i]]

CheckInv ==
  /\ CheckTypeOK /\ CallsInv /\ LoopsInv /\ BlackInv /\ CycleInv /\ DepthInv
  /\ check = "validate_max_depth" => WellFounded
  /\ AcceptsShallowDags /\ ReportsACycle

ParseInv == IInv /\ CheckInv
=============================================================================

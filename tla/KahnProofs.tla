----------------------------- MODULE KahnProofs -----------------------------
(***************************************************************************)
(* Theorems about Kahn.tla and GraphValidation.tla, for every set of       *)
(* graphs and every MAX_DEPTH.                                             *)
(***************************************************************************)
EXTENDS GraphValidation, StepGraphProofs

\* What GraphsAssumption says of the graph at hand.
LEMMA GraphFacts ==
  ASSUME graph \in Graphs
  PROVE  /\ N \in Nat /\ graph.steps \in Seq(Nodes)
         /\ \A i \in 1..N : graph.steps[i] \in Nodes
         /\ \A s \in Nodes : \E i \in 1..N : graph.steps[i] = s
         /\ \A i, j \in 1..N : graph.steps[i] = graph.steps[j] => i = j
         /\ \A s \in Nodes : /\ Deps(s) \in Seq(Nodes)
                             /\ Len(Deps(s)) \in Nat
                             /\ DOMAIN Deps(s) = 1..Len(Deps(s))
<1>1. /\ graph.steps \in Seq(Nodes)
      /\ \A i, j \in 1..N : graph.steps[i] = graph.steps[j] => i = j
      /\ graph.depends_on \in [Nodes -> Seq(Nodes)]
  BY GraphsAssumption DEF IsGraph, Nodes, N
<1>2. N \in Nat /\ DOMAIN graph.steps = 1..N
  BY <1>1 DEF N
<1>3. \A i \in 1..N : graph.steps[i] \in Nodes
  BY <1>1, <1>2
<1>4. \A s \in Nodes : \E i \in 1..N : graph.steps[i] = s
  BY <1>2 DEF Nodes, Ids
<1>5. \A s \in Nodes : Deps(s) \in Seq(Nodes)
  BY <1>1 DEF Deps
<1>6. \A s \in Nodes : /\ Len(Deps(s)) \in Nat
                       /\ DOMAIN Deps(s) = 1..Len(Deps(s))
  BY <1>5
<1>7. QED BY <1>1, <1>2, <1>3, <1>4, <1>5, <1>6

\* Index sets of dependency lists are finite.
LEMMA IndexSetsAreFinite ==
  ASSUME graph \in Graphs, NEW s \in Nodes, NEW I, I \subseteq DOMAIN Deps(s)
  PROVE  IsFiniteSet(I) /\ Cardinality(I) \in Nat
         /\ (Cardinality(I) = 0 <=> I = {})
<1>1. IsFiniteSet(1..Len(Deps(s)))
  BY GraphFacts, FS_Interval
<1>2. IsFiniteSet(I)
  BY <1>1, GraphFacts, FS_Subset
<1>3. QED BY <1>2, FS_CardinalityType, FS_EmptySet

\* A step is mentioned a finite number of times.
LEMMA MentionsAreCounted ==
  ASSUME graph \in Graphs, NEW s \in Nodes, NEW node
  PROVE  Mentions(Deps(s), node) \in Nat
  BY IndexSetsAreFinite DEF Mentions
-----------------------------------------------------------------------------
(* Sequences and the sets of their elements *)

\* Appending adds one element, at the end.
LEMMA AppendFacts ==
  ASSUME NEW S, NEW q \in Seq(S), NEW x \in S
  PROVE  /\ Append(q, x) \in Seq(S) /\ Len(Append(q, x)) = Len(q) + 1
         /\ \A i \in 1..Len(q) : Append(q, x)[i] = q[i]
         /\ Append(q, x)[Len(q) + 1] = x
         /\ {Append(q, x)[i] : i \in DOMAIN Append(q, x)} =
              {q[i] : i \in DOMAIN q} \cup {x}
<1>1. /\ Append(q, x) \in Seq(S) /\ Len(Append(q, x)) = Len(q) + 1
      /\ \A i \in 1..Len(q) : Append(q, x)[i] = q[i]
      /\ Append(q, x)[Len(q) + 1] = x
  OBVIOUS
<1>2. DOMAIN q = 1..Len(q) /\ DOMAIN Append(q, x) = 1..(Len(q) + 1)
      /\ Len(q) \in Nat
  BY <1>1
<1>3. QED BY <1>1, <1>2

\* Taking the head off a sequence without repetitions takes it out of the set.
LEMMA TailFacts ==
  ASSUME NEW S, NEW q \in Seq(S), q # << >>,
         \A i, j \in 1..Len(q) : q[i] = q[j] => i = j
  PROVE  /\ Head(q) \in S /\ Tail(q) \in Seq(S)
         /\ \A i, j \in 1..Len(Tail(q)) : Tail(q)[i] = Tail(q)[j] => i = j
         /\ {Tail(q)[i] : i \in DOMAIN Tail(q)} =
              {q[i] : i \in DOMAIN q} \ {Head(q)}
         /\ Head(q) \in {q[i] : i \in DOMAIN q}
<1>1. /\ Len(q) \in Nat \ {0} /\ Head(q) = q[1] /\ Tail(q) \in Seq(S)
      /\ Len(Tail(q)) = Len(q) - 1 /\ Head(q) \in S
      /\ \A i \in 1..(Len(q) - 1) : Tail(q)[i] = q[i + 1]
  OBVIOUS
<1>2. DOMAIN q = 1..Len(q) /\ DOMAIN Tail(q) = 1..(Len(q) - 1)
  BY <1>1
<1>3. \A i, j \in 1..Len(Tail(q)) : Tail(q)[i] = Tail(q)[j] => i = j
  BY <1>1
<1>4. {Tail(q)[i] : i \in DOMAIN Tail(q)} = {q[i] : i \in DOMAIN q} \ {Head(q)}
  <2>1. \A i \in DOMAIN q : q[i] # Head(q) => i - 1 \in 1..(Len(q) - 1)
    BY <1>1, <1>2
  <2>2. \A i \in DOMAIN Tail(q) : q[i + 1] # Head(q) /\ i + 1 \in DOMAIN q
    BY <1>1, <1>2
  <2>3. \A i \in DOMAIN q : q[i] # Head(q) =>
           i - 1 \in DOMAIN Tail(q) /\ Tail(q)[i - 1] = q[i]
    BY <2>1, <1>1, <1>2
  <2>4. ASSUME NEW i \in DOMAIN Tail(q)
        PROVE  Tail(q)[i] \in {q[j] : j \in DOMAIN q} \ {Head(q)}
    <3>1. Tail(q)[i] = q[i + 1]
      BY <1>1, <1>2
    <3>2. QED BY <2>2, <3>1
  <2>5. ASSUME NEW i \in DOMAIN q, q[i] # Head(q)
        PROVE  q[i] \in {Tail(q)[j] : j \in DOMAIN Tail(q)}
    BY <2>3, <2>5
  <2>6. QED BY <2>4, <2>5
<1>5. Head(q) \in {q[i] : i \in DOMAIN q}
  <2>1. 1 \in DOMAIN q
    BY <1>1, <1>2
  <2>2. QED BY <1>1, <2>1
<1>6. QED BY <1>1, <1>3, <1>4, <1>5
-----------------------------------------------------------------------------
(* The inductive invariant, action by action *)

\* Before the sort every dependency is missing, and the in-degrees count them all.
LEMMA InitEstablishes == Init => SortInv
<1> SUFFICES ASSUME Init PROVE SortInv
  OBVIOUS
<1> USE DEF Init
<1>1. TypeOK
  BY GraphFacts DEF TypeOK
<1>2. Visited = {} /\ Waiting = {}
  BY DEF Visited, Waiting
<1>3. InDegreeInv
  <2> SUFFICES ASSUME NEW s \in Nodes PROVE in_degree[s] = Cardinality(Missing(s))
    BY DEF InDegreeInv
  <2>1. Missing(s) = 1..Len(Deps(s)) /\ Len(Deps(s)) \in Nat
    BY <1>2, GraphFacts DEF Missing, Counted
  <2>2. Cardinality(1..Len(Deps(s))) = Len(Deps(s))
    BY <2>1, IntervalHas
  <2>3. in_degree[s] = Len(Deps(s))
    OBVIOUS
  <2>4. QED BY <2>1, <2>2, <2>3
<1>4. QueueInv
  BY <1>2 DEF QueueInv
<1>5. LoopInv /\ DependenciesPrecede /\ QueuedOnce
  BY <1>2 DEF LoopInv, DependenciesPrecede, QueuedOnce
<1>6. QED BY <1>1, <1>3, <1>4, <1>5 DEF SortInv

\* The first loop queues exactly the steps without dependencies, each once.
LEMMA QueueRootPreserves ==
  ASSUME SortInv, QueueRoot PROVE SortInv'
<1> DEFINE s == graph.steps[next]
<1>1. /\ TypeOK /\ InDegreeInv /\ QueueInv /\ LoopInv
      /\ DependenciesPrecede /\ QueuedOnce
  BY DEF SortInv
<1>2. graph \in Graphs /\ queue \in Seq(Nodes) /\ in_degree \in [Nodes -> Nat]
  BY <1>1 DEF TypeOK
<1>3. N \in Nat
  BY <1>2, GraphFacts
<1>4. /\ next \in 1..N /\ next' = next + 1 /\ loop = "roots" /\ loop' = "roots"
      /\ UNCHANGED <<graph, in_degree, result>> /\ result = << >>
  BY <1>1, <1>3 DEF QueueRoot, TypeOK, LoopInv
<1>5. s \in Nodes
  BY <1>2, <1>4, GraphFacts
<1>6. Nodes' = Nodes /\ N' = N /\ Visited' = Visited /\ Visited = {}
  BY <1>4 DEF Nodes, N, Visited
<1>7. InDegreeInv' /\ LoopInv' /\ DependenciesPrecede'
  BY <1>1, <1>4, <1>6 DEF InDegreeInv, Missing, Counted, Deps, LoopInv,
                          DependenciesPrecede
<1>8. \A i \in 1..N : graph.steps[i] = s => i = next
  BY <1>2, <1>4, GraphFacts
<1>9. s \notin Waiting
  BY <1>1, <1>3, <1>4, <1>5, <1>8 DEF QueueInv
<1>10. \A t \in Nodes : (\E i \in 1..N : i < next' /\ graph.steps[i] = t)
         <=> t = s \/ \E i \in 1..N : i < next /\ graph.steps[i] = t
  BY <1>3, <1>4
<1>11. CASE in_degree[s] = 0
  <2>1. queue' = Append(queue, s)
    BY <1>11 DEF QueueRoot
  <2>2. /\ queue' \in Seq(Nodes) /\ Waiting' = Waiting \cup {s}
        /\ Len(queue') = Len(queue) + 1 /\ queue'[Len(queue) + 1] = s
        /\ \A i \in 1..Len(queue) : queue'[i] = queue[i]
    <3>1. \A x \in Nodes :
            /\ Append(queue, x) \in Seq(Nodes)
            /\ Len(Append(queue, x)) = Len(queue) + 1
            /\ Append(queue, x)[Len(queue) + 1] = x
            /\ \A i \in 1..Len(queue) : Append(queue, x)[i] = queue[i]
            /\ {Append(queue, x)[i] : i \in DOMAIN Append(queue, x)} =
                 {queue[i] : i \in DOMAIN queue} \cup {x}
      <4>1. queue \in Seq(Nodes)
        BY <1>2
      <4>2. QED BY ONLY <4>1, AppendFacts
    <3>2. Waiting' = {Append(queue, s)[i] : i \in DOMAIN Append(queue, s)}
      BY <2>1 DEF Waiting
    <3>3. QED BY <1>5, <2>1, <3>1, <3>2 DEF Waiting
  <2>3. QueueInv'
    BY <1>1, <1>4, <1>6, <1>10, <1>11, <2>2 DEF QueueInv
  <2>4. QueuedOnce'
    <3>1. \A i \in 1..Len(queue) : queue[i] # s
      BY <1>2, <1>9 DEF Waiting
    <3>2. Len(queue) \in Nat
      BY <1>2
    <3>3. \A i, j \in 1..Len(queue') : queue'[i] = queue'[j] => i = j
      BY <1>1, <2>2, <3>1, <3>2 DEF QueuedOnce
    <3>4. QED BY <1>4, <1>6, <3>3 DEF QueuedOnce
  <2>5. TypeOK'
    BY <1>1, <1>3, <1>4, <1>6, <2>2 DEF TypeOK
  <2>6. QED BY <1>7, <2>3, <2>4, <2>5 DEF SortInv
<1>12. CASE in_degree[s] # 0
  <2>1. queue' = queue /\ Waiting' = Waiting
    BY <1>12 DEF QueueRoot, Waiting
  <2>2. QueueInv'
    BY <1>1, <1>4, <1>6, <1>10, <1>12, <2>1 DEF QueueInv
  <2>3. QueuedOnce' /\ TypeOK'
    BY <1>1, <1>3, <1>4, <1>6, <2>1 DEF QueuedOnce, TypeOK
  <2>4. QED BY <1>7, <2>2, <2>3 DEF SortInv
<1>13. QED BY <1>11, <1>12

\* Leaving a loop changes nothing the invariant speaks of.
LEMMA EndForPreserves ==
  ASSUME SortInv, EndFor PROVE SortInv'
<1> USE DEF SortInv, TypeOK
<1>1. /\ loop \in {"roots", "children"} /\ loop' = "while" /\ next = N + 1
      /\ UNCHANGED <<graph, in_degree, queue, result, next>> /\ N \in Nat
  <2>1. N \in Nat /\ next \in 1..(N + 1)
    BY GraphFacts
  <2>2. QED BY <2>1 DEF EndFor
<1>2. /\ Nodes' = Nodes /\ N' = N /\ Visited' = Visited /\ Waiting' = Waiting
  BY <1>1 DEF Nodes, N, Visited, Waiting
<1>3. \A s \in Nodes : Counted(s) = Visited /\ Counted(s)' = Visited
  BY <1>1, <1>2, GraphFacts DEF Counted
<1>4. InDegreeInv'
  BY <1>1, <1>2, <1>3 DEF InDegreeInv, Missing, Deps
<1>5. QueueInv'
  BY <1>1, <1>2, GraphFacts DEF QueueInv
<1>6. LoopInv' /\ DependenciesPrecede' /\ QueuedOnce'
  BY <1>1, <1>2 DEF LoopInv, DependenciesPrecede, QueuedOnce, Deps
<1>7. QED BY <1>1, <1>2, <1>4, <1>5, <1>6

\* Nor does leaving the while loop with an empty queue.
LEMMA ReturnPreserves ==
  ASSUME SortInv, Return PROVE SortInv'
<1> USE DEF SortInv, TypeOK
<1>1. /\ loop = "while" /\ loop' = "done" /\ queue = << >>
      /\ UNCHANGED <<graph, in_degree, queue, result, next>>
  BY DEF Return
<1>2. /\ Nodes' = Nodes /\ N' = N /\ Visited' = Visited /\ Waiting' = Waiting
  BY <1>1 DEF Nodes, N, Visited, Waiting
<1>3. InDegreeInv'
  BY <1>1, <1>2 DEF InDegreeInv, Missing, Counted, Deps
<1>4. QueueInv' /\ LoopInv' /\ DependenciesPrecede' /\ QueuedOnce'
  BY <1>1, <1>2 DEF QueueInv, LoopInv, DependenciesPrecede, QueuedOnce, Deps
<1>5. QED BY <1>1, <1>2, <1>3, <1>4

\* What appending x to a sequence over the nodes does to it and to its elements.
LEMMA AppendNode ==
  ASSUME NEW q \in Seq(Nodes), NEW x \in Nodes, NEW r, r = Append(q, x)
  PROVE  /\ r \in Seq(Nodes) /\ Len(q) \in Nat /\ Len(r) = Len(q) + 1
         /\ \A i \in 1..Len(q) : r[i] = q[i]
         /\ r[Len(q) + 1] = x
         /\ {r[i] : i \in DOMAIN r} = {q[i] : i \in DOMAIN q} \cup {x}
         /\ (\A i, j \in 1..Len(q) : q[i] = q[j] => i = j)
              /\ x \notin {q[i] : i \in DOMAIN q}
            => \A i, j \in 1..Len(r) : r[i] = r[j] => i = j
<1>1. /\ r \in Seq(Nodes) /\ Len(q) \in Nat /\ Len(r) = Len(q) + 1
      /\ \A i \in 1..Len(q) : r[i] = q[i]
      /\ r[Len(q) + 1] = x
      /\ {r[i] : i \in DOMAIN r} = {q[i] : i \in DOMAIN q} \cup {x}
  BY AppendFacts
<1>2. ASSUME \A i, j \in 1..Len(q) : q[i] = q[j] => i = j,
             x \notin {q[i] : i \in DOMAIN q},
             NEW i \in 1..Len(r), NEW j \in 1..Len(r), r[i] = r[j]
      PROVE  i = j
  <2>1. \A k \in 1..Len(q) : q[k] # x
    BY <1>2
  <2>2. QED BY <1>1, <1>2, <2>1
<1>3. QED BY <1>1, <1>2

\* The same of result when node is visited.
LEMMA AppendResult ==
  ASSUME result \in Seq(Nodes), NEW x \in Nodes, result' = Append(result, x),
         \A i, j \in 1..Len(result) : result[i] = result[j] => i = j,
         x \notin Visited
  PROVE  /\ result' \in Seq(Nodes) /\ Len(result) \in Nat
         /\ Len(result') = Len(result) + 1
         /\ \A i \in 1..Len(result) : result'[i] = result[i]
         /\ result'[Len(result) + 1] = x
         /\ Visited' = Visited \cup {x}
         /\ \A i, j \in 1..Len(result') : result'[i] = result'[j] => i = j
<1> DEFINE r == Append(result, x)
<1>1. /\ r \in Seq(Nodes) /\ Len(result) \in Nat /\ Len(r) = Len(result) + 1
      /\ \A i \in 1..Len(result) : r[i] = result[i]
      /\ r[Len(result) + 1] = x
      /\ {r[i] : i \in DOMAIN r} = {result[i] : i \in DOMAIN result} \cup {x}
      /\ \A i, j \in 1..Len(r) : r[i] = r[j] => i = j
  <2>1. x \notin {result[i] : i \in DOMAIN result}
    BY DEF Visited
  <2>2. QED BY <2>1, AppendNode
<1>2. Visited' = {r[i] : i \in DOMAIN r}
  BY DEF Visited
<1>3. QED BY <1>1, <1>2 DEF Visited

\* The node at the head of the queue has nothing missing.
LEMMA PopPreserves ==
  ASSUME SortInv, Pop PROVE SortInv'
<1> DEFINE node == Head(queue)
<1>1. /\ TypeOK /\ InDegreeInv /\ QueueInv /\ LoopInv
      /\ DependenciesPrecede /\ QueuedOnce
  BY DEF SortInv
<1>2. /\ graph \in Graphs /\ queue \in Seq(Nodes) /\ result \in Seq(Nodes)
      /\ in_degree \in [Nodes -> Nat]
  BY <1>1 DEF TypeOK
<1>3. /\ loop = "while" /\ loop' = "children" /\ next' = 1 /\ queue # << >>
      /\ UNCHANGED <<graph, in_degree>>
      /\ result' = Append(result, node) /\ queue' = Tail(queue)
  BY DEF Pop
<1>4. Nodes' = Nodes /\ N' = N /\ N \in Nat
  BY <1>2, <1>3, GraphFacts DEF Nodes, N
<1>5. /\ node \in Nodes /\ queue' \in Seq(Nodes)
      /\ \A i, j \in 1..Len(queue') : queue'[i] = queue'[j] => i = j
      /\ Waiting' = Waiting \ {node} /\ node \in Waiting
  <2>1. \A i, j \in 1..Len(queue) : queue[i] = queue[j] => i = j
    BY <1>1 DEF QueuedOnce
  <2>2. /\ Head(queue) \in Nodes /\ Tail(queue) \in Seq(Nodes)
        /\ \A i, j \in 1..Len(Tail(queue)) :
             Tail(queue)[i] = Tail(queue)[j] => i = j
        /\ {Tail(queue)[i] : i \in DOMAIN Tail(queue)} =
             {queue[i] : i \in DOMAIN queue} \ {Head(queue)}
        /\ Head(queue) \in {queue[i] : i \in DOMAIN queue}
    BY <1>2, <1>3, <2>1, TailFacts
  <2>3. Waiting' = {Tail(queue)[i] : i \in DOMAIN Tail(queue)}
    BY <1>3 DEF Waiting
  <2>4. QED BY <1>3, <2>2, <2>3 DEF Waiting
<1>6. node \notin Visited
  BY <1>1, <1>5 DEF QueuedOnce
<1>7. /\ result' \in Seq(Nodes) /\ Len(result) \in Nat
      /\ Len(result') = Len(result) + 1
      /\ \A i \in 1..Len(result) : result'[i] = result[i]
      /\ result'[Len(result) + 1] = node
      /\ Visited' = Visited \cup {node}
      /\ \A i, j \in 1..Len(result') : result'[i] = result'[j] => i = j
  BY <1>1, <1>2, <1>3, <1>5, <1>6, AppendResult DEF QueuedOnce
<1>8. \A s \in Nodes : Missing(s)' = Missing(s)
  <2>1. {result'[i] : i \in 1..(Len(result') - 1)} = Visited
    <3>1. DOMAIN result = 1..Len(result) /\ Len(result') - 1 = Len(result)
      BY <1>2, <1>7
    <3>2. {result'[i] : i \in 1..Len(result)} = {result[i] : i \in 1..Len(result)}
      BY <1>7
    <3>3. QED BY <3>1, <3>2 DEF Visited
  <2>2. \A s \in Nodes : Counted(s)' = Visited
    BY <1>3, <1>4, <2>1 DEF Counted
  <2>3. \A s \in Nodes : Counted(s) = Visited
    BY <1>3 DEF Counted
  <2>4. QED BY <1>3, <2>2, <2>3 DEF Missing, Deps
<1>9. InDegreeInv' /\ LoopInv'
  BY <1>1, <1>3, <1>4, <1>7, <1>8 DEF InDegreeInv, LoopInv
<1>10. QueueInv'
  BY <1>1, <1>3, <1>4, <1>5, <1>7 DEF QueueInv
<1>11. QueuedOnce'
  BY <1>1, <1>5, <1>7 DEF QueuedOnce
<1>12. DependenciesPrecede'
  <2>1. Missing(node) = {}
    <3>1. in_degree[node] = 0
      BY <1>1, <1>5 DEF QueueInv
    <3>2. Missing(node) \subseteq DOMAIN Deps(node)
      BY DEF Missing
    <3>3. QED BY <1>1, <1>2, <1>5, <3>1, <3>2, IndexSetsAreFinite DEF InDegreeInv
  <2>2. \A d \in DOMAIN Deps(node) : Deps(node)[d] \in Visited
    BY <1>3, <2>1 DEF Missing, Counted
  <2>3. \A d \in DOMAIN Deps(node) : \E j \in 1..Len(result) :
           result[j] = Deps(node)[d]
    BY <1>2, <2>2 DEF Visited
  <2> SUFFICES ASSUME NEW i \in 1..Len(result'),
                      NEW d \in DOMAIN Deps(result'[i])
               PROVE  \E j \in 1..(i-1) : result'[j] = Deps(result'[i])[d]
    BY <1>3 DEF DependenciesPrecede, Deps
  <2>4. CASE i \in 1..Len(result)
    <3>1. result'[i] = result[i]
      BY <1>7, <2>4
    <3>2. PICK j \in 1..(i-1) : result[j] = Deps(result[i])[d]
      BY <1>1, <2>4, <3>1 DEF DependenciesPrecede
    <3>3. j \in 1..Len(result)
      BY <1>7, <2>4
    <3>4. QED BY <1>7, <3>1, <3>2, <3>3
  <2>5. CASE i = Len(result) + 1
    <3>1. result'[i] = node
      BY <1>7, <2>5
    <3>2. PICK j \in 1..Len(result) : result[j] = Deps(node)[d]
      BY <2>3, <3>1
    <3>3. QED BY <1>7, <2>5, <3>1, <3>2
  <2>6. QED BY <1>7, <2>4, <2>5
<1>13. TypeOK'
  BY <1>1, <1>3, <1>4, <1>5, <1>7 DEF TypeOK
<1>14. QED BY <1>9, <1>10, <1>11, <1>12, <1>13 DEF SortInv

\* A step joins the queue.
LEMMA AppendQueue ==
  ASSUME queue \in Seq(Nodes), NEW x \in Nodes, queue' = Append(queue, x),
         \A i, j \in 1..Len(queue) : queue[i] = queue[j] => i = j,
         x \notin Waiting
  PROVE  /\ queue' \in Seq(Nodes) /\ Waiting' = Waiting \cup {x}
         /\ \A i, j \in 1..Len(queue') : queue'[i] = queue'[j] => i = j
<1> DEFINE r == Append(queue, x)
<1>1. /\ r \in Seq(Nodes)
      /\ {r[i] : i \in DOMAIN r} = {queue[i] : i \in DOMAIN queue} \cup {x}
      /\ \A i, j \in 1..Len(r) : r[i] = r[j] => i = j
  <2>1. x \notin {queue[i] : i \in DOMAIN queue}
    BY DEF Waiting
  <2>2. QED BY <2>1, AppendNode
<1>2. Waiting' = {r[i] : i \in DOMAIN r}
  BY DEF Waiting
<1>3. QED BY <1>1, <1>2 DEF Waiting

\* While the children of node are visited, those already looked at count it
\* and the others do not: visiting one moves it from the second to the first.
LEMMA VisitChildPreserves ==
  ASSUME SortInv, VisitChild PROVE SortInv'
<1> PICK child : child = graph.steps[next]
  OBVIOUS
<1> DEFINE node     == result[Len(result)]
           mentions == Mentions(Deps(child), node)
           Before   == {result[i] : i \in 1..(Len(result) - 1)}
           Freeing  == {i \in DOMAIN Deps(child) : Deps(child)[i] = node}
<1>1. /\ TypeOK /\ InDegreeInv /\ QueueInv /\ LoopInv
      /\ DependenciesPrecede /\ QueuedOnce
  BY DEF SortInv
<1>2. /\ graph \in Graphs /\ queue \in Seq(Nodes) /\ result \in Seq(Nodes)
      /\ in_degree \in [Nodes -> Nat] /\ N \in Nat
  BY <1>1, GraphFacts DEF TypeOK
<1>3. /\ loop = "children" /\ loop' = "children" /\ next \in 1..N
      /\ next' = next + 1 /\ UNCHANGED <<graph, result>> /\ result # << >>
      /\ in_degree' = [in_degree EXCEPT ![child] = @ - mentions]
      /\ queue' = IF mentions > 0 /\ in_degree[child] = mentions
                  THEN Append(queue, child) ELSE queue
  BY <1>1, <1>2 DEF VisitChild, TypeOK, LoopInv
<1>4. /\ Nodes' = Nodes /\ N' = N /\ Visited' = Visited
      /\ \A t : Deps(t)' = Deps(t)
  BY <1>3 DEF Nodes, N, Visited, Deps
<1>5. child \in Nodes /\ \A i \in 1..N : graph.steps[i] = child <=> i = next
  BY <1>2, <1>3, GraphFacts
<1>6. Visited = Before \cup {node} /\ node \notin Before
  <2>1. Len(result) \in Nat \ {0} /\ DOMAIN result = 1..Len(result)
    BY <1>2, <1>3
  <2>2. \A i \in 1..Len(result) : i = Len(result) \/ i \in 1..(Len(result) - 1)
    <3>1. \A n \in Nat : \A i \in 1..n : i = n \/ i \in 1..(n - 1)
      OBVIOUS
    <3>2. Len(result) \in Nat
      BY <2>1
    <3>3. QED BY <3>1, <3>2
  <2>3. \A i, j \in 1..Len(result) : result[i] = result[j] => i = j
    BY <1>1 DEF QueuedOnce
  <2>4. node \notin Before
    BY <2>1, <2>3
  <2>5. Visited \subseteq Before \cup {node}
    BY <2>1, <2>2 DEF Visited
  <2>6. Before \cup {node} \subseteq Visited
    BY <2>1 DEF Visited
  <2>7. QED BY <2>4, <2>5, <2>6
<1>7. Counted(child) = Before /\ Counted(child)' = Visited
  BY <1>2, <1>3, <1>4, <1>5 DEF Counted
<1>8. \A t \in Nodes \ {child} : Missing(t)' = Missing(t)
  <2> TAKE t \in Nodes \ {child}
  <2>1. \A i \in 1..N : graph.steps[i] = t => (next + 1 <= i <=> next <= i)
    BY <1>2, <1>3, <1>5
  <2>2. (\A i \in 1..N : graph.steps[i] = t => next' <= i)
          <=> \A i \in 1..N : graph.steps[i] = t => next <= i
    BY <1>3, <2>1
  <2>3. Counted(t)' = Counted(t)
    BY <1>3, <1>4, <2>2 DEF Counted
  <2>4. QED BY <1>4, <2>3 DEF Missing
<1>9. /\ in_degree[child] \in Nat /\ mentions \in Nat
      /\ in_degree[child] - mentions \in Nat
      /\ in_degree[child] - mentions = Cardinality(Missing(child)')
  <2>1. Missing(child) = {i \in DOMAIN Deps(child) : Deps(child)[i] \notin Before}
    BY <1>7 DEF Missing
  <2>2. Missing(child)' = {i \in DOMAIN Deps(child) : Deps(child)[i] \notin Visited}
    BY <1>3, <1>4, <1>7 DEF Missing
  <2>3. Missing(child)' = Missing(child) \ Freeing
    BY <1>6, <2>1, <2>2
  <2>4. Missing(child) \cap Freeing = Freeing
    BY <1>6, <2>1
  <2>5. /\ IsFiniteSet(Missing(child)) /\ Cardinality(Missing(child)) \in Nat
        /\ Cardinality(Freeing) \in Nat /\ Cardinality(Missing(child)') \in Nat
    <3>1. \A I : I \subseteq DOMAIN Deps(child) =>
             IsFiniteSet(I) /\ Cardinality(I) \in Nat
      BY <1>2, <1>5, IndexSetsAreFinite
    <3>2. /\ Missing(child) \subseteq DOMAIN Deps(child)
          /\ Freeing \subseteq DOMAIN Deps(child)
          /\ Missing(child)' \subseteq DOMAIN Deps(child)
      BY <2>1, <2>3
    <3>3. QED BY <3>1, <3>2
  <2>6. Cardinality(Missing(child) \ Freeing)
          = Cardinality(Missing(child)) - Cardinality(Missing(child) \cap Freeing)
    BY <2>5, FS_Difference
  <2>7. in_degree[child] = Cardinality(Missing(child))
    BY <1>1, <1>5 DEF InDegreeInv
  <2>8. mentions = Cardinality(Freeing)
    BY DEF Mentions
  <2>9. QED BY <2>3, <2>4, <2>5, <2>6, <2>7, <2>8
<1>10. /\ in_degree'[child] = in_degree[child] - mentions
       /\ \A t \in Nodes \ {child} : in_degree'[t] = in_degree[t]
       /\ in_degree' \in [Nodes -> Nat]
  BY <1>2, <1>3, <1>5, <1>9
<1>11. InDegreeInv'
  <2> SUFFICES ASSUME NEW t \in Nodes
               PROVE  in_degree'[t] = Cardinality(Missing(t)')
    BY <1>4 DEF InDegreeInv
  <2>1. CASE t = child
    BY <1>9, <1>10, <2>1
  <2>2. CASE t # child
    BY <1>1, <1>8, <1>10, <2>2 DEF InDegreeInv
  <2>3. QED BY <2>1, <2>2
<1>12. \A t \in Nodes : t \in Visited \cup Waiting <=> in_degree[t] = 0
  BY <1>1, <1>3 DEF QueueInv
<1>13. LoopInv' /\ DependenciesPrecede'
  BY <1>1, <1>3, <1>4 DEF LoopInv, DependenciesPrecede
<1>14. ASSUME queue' \in Seq(Nodes), QueueInv', QueuedOnce' PROVE SortInv'
  <2>1. TypeOK'
    BY <1>1, <1>2, <1>3, <1>4, <1>10, <1>14 DEF TypeOK
  <2>2. QED BY <1>11, <1>13, <1>14, <2>1 DEF SortInv
<1>15. CASE mentions > 0 /\ in_degree[child] = mentions
  <2>1. child \notin Visited /\ child \notin Waiting
    BY <1>5, <1>9, <1>12, <1>15
  <2>2. /\ queue' \in Seq(Nodes) /\ Waiting' = Waiting \cup {child}
        /\ \A i, j \in 1..Len(queue') : queue'[i] = queue'[j] => i = j
    <3>1. queue' = Append(queue, child)
      BY <1>3, <1>15
    <3>2. \A i, j \in 1..Len(queue) : queue[i] = queue[j] => i = j
      BY <1>1 DEF QueuedOnce
    <3>3. QED BY <1>2, <1>5, <2>1, <3>1, <3>2, AppendQueue
  <2>3. QueuedOnce'
    BY <1>1, <1>3, <1>4, <2>1, <2>2 DEF QueuedOnce
  <2>4. \A t \in Nodes : t \in Visited \cup Waiting' <=> in_degree'[t] = 0
    <3>1. in_degree'[child] = 0
      BY <1>9, <1>10, <1>15
    <3>2. QED BY <1>10, <1>12, <2>2, <3>1
  <2>5. QueueInv'
    BY <1>3, <1>4, <2>4 DEF QueueInv
  <2>6. QED BY <1>14, <2>2, <2>3, <2>5
<1>16. CASE ~(mentions > 0 /\ in_degree[child] = mentions)
  <2>1. queue' = queue /\ Waiting' = Waiting
    BY <1>3, <1>16 DEF Waiting
  <2>2. QueuedOnce'
    BY <1>1, <1>3, <1>4, <2>1 DEF QueuedOnce
  <2>3. in_degree'[child] = 0 <=> in_degree[child] = 0
    BY <1>9, <1>10, <1>16
  <2>4. \A t \in Nodes : in_degree'[t] = 0 <=> in_degree[t] = 0
    BY <1>10, <2>3
  <2>5. QueueInv'
    BY <1>3, <1>4, <1>12, <2>1, <2>4 DEF QueueInv
  <2>6. QED BY <1>2, <1>14, <2>1, <2>2, <2>5
<1>17. QED BY <1>15, <1>16

\* Every step of the sort keeps the invariant.
LEMMA NextPreserves == SortInv /\ [Next]_vars => SortInv'
<1> SUFFICES ASSUME SortInv, [Next]_vars PROVE SortInv'
  OBVIOUS
<1>1. CASE UNCHANGED vars
  <2>1. UNCHANGED <<graph, in_degree, queue, result, loop, next>>
    BY <1>1 DEF vars
  <2>2. /\ Nodes' = Nodes /\ N' = N /\ Visited' = Visited /\ Waiting' = Waiting
        /\ \A s : Deps(s)' = Deps(s)
    BY <2>1 DEF Nodes, N, Visited, Waiting, Deps
  <2>3. \A s : Counted(s)' = Counted(s)
    BY <2>1, <2>2 DEF Counted
  <2>4. InDegreeInv' = InDegreeInv
    BY <2>1, <2>2, <2>3 DEF InDegreeInv, Missing
  <2>5. TypeOK' = TypeOK /\ QueueInv' = QueueInv /\ LoopInv' = LoopInv
    BY <2>1, <2>2 DEF TypeOK, QueueInv, LoopInv
  <2>6. DependenciesPrecede' = DependenciesPrecede /\ QueuedOnce' = QueuedOnce
    BY <2>1, <2>2 DEF DependenciesPrecede, QueuedOnce
  <2>7. QED BY <2>4, <2>5, <2>6 DEF SortInv
<1>2. QED BY <1>1, QueueRootPreserves, EndForPreserves, PopPreserves,
             VisitChildPreserves, ReturnPreserves DEF Next

\* _topological_sort keeps its in-degrees equal to the number of dependencies
\* still missing, on every graph.
THEOREM SortInvariance == Spec => []SortInv
  BY InitEstablishes, NextPreserves, PTL DEF Spec

\* Whatever the graph, a cyclic one included, _topological_sort lists a step
\* only after everything it depends on.
THEOREM SortRespectsDependencies == Spec => []DependenciesPrecede
<1>1. SortInv => DependenciesPrecede
  BY DEF SortInv
<1>2. QED BY <1>1, SortInvariance, PTL

\* _topological_sort queues no step twice, however often a depends_on list
\* repeats a step.
THEOREM SortQueuesOnce == Spec => []QueuedOnce
<1>1. SortInv => QueuedOnce
  BY DEF SortInv
<1>2. QED BY <1>1, SortInvariance, PTL
-----------------------------------------------------------------------------
(* Completeness *)

\* On a graph without a cycle nothing is left behind: the unvisited steps
\* would all be missing one another.
LEMMA AcyclicIsComplete ==
  ASSUME SortInv, loop = "done", WellFounded PROVE Visited = Nodes
<1>1. /\ graph \in Graphs /\ InDegreeInv /\ QueueInv /\ queue = << >>
      /\ result \in Seq(Nodes)
  BY DEF SortInv, TypeOK, LoopInv
<1>2. Visited \subseteq Nodes /\ Waiting = {}
  BY <1>1 DEF Visited, Waiting
<1>3. SUFFICES ASSUME Nodes \ Visited # {} PROVE FALSE
  BY <1>2
<1>4. PICK s \in Nodes \ Visited :
        \A i \in DOMAIN Deps(s) : Deps(s)[i] \notin Nodes \ Visited
  BY <1>3 DEF WellFounded, Acyclic, Nodes, Deps
<1>5. \A i \in DOMAIN Deps(s) : Deps(s)[i] \in Nodes
  BY <1>1, <1>4, GraphFacts
<1>6. Missing(s) = {}
  BY <1>4, <1>5 DEF Missing, Counted
<1>7. in_degree[s] = 0
  BY <1>1, <1>4, <1>6, FS_EmptySet DEF InDegreeInv
<1>8. QED BY <1>1, <1>2, <1>4, <1>7 DEF QueueInv

\* In a complete result, the first member of any set of steps depends on none
\* of the others: there is no cycle.
LEMMA CompleteIsAcyclic ==
  ASSUME SortInv, Visited = Nodes PROVE WellFounded
<1>1. DependenciesPrecede /\ result \in Seq(Nodes)
  BY DEF SortInv, TypeOK
<1>2. Len(result) \in Nat /\ DOMAIN result = 1..Len(result)
  BY <1>1
<1> SUFFICES ASSUME NEW U \in SUBSET Nodes, U # {}
             PROVE  \E s \in U : \A d \in DOMAIN Deps(s) : Deps(s)[d] \notin U
  BY DEF WellFounded, Acyclic, Nodes, Deps
<1> DEFINE Places == {i \in 1..Len(result) : result[i] \in U}
           Less == OpToRel(<, Nat)
<1>3. Places # {} /\ Places \subseteq Nat
  BY <1>2 DEF Visited
<1>4. \E i \in Places : \A j \in Places : ~(<<j, i>> \in Less)
  <2> HIDE DEF Places, Less
  <2>1. IsWellFoundedOn(Less, Nat)
    BY NatLessThanWellFounded DEF Less
  <2>2. QED BY <1>3, <2>1, WFMin
<1>5. PICK i \in Places : \A j \in Places : ~(j < i)
  <2>1. \A i, j \in Nat : j < i => <<j, i>> \in Less
    BY DEF OpToRel
  <2>2. QED BY <1>3, <1>4, <2>1
<1>6. ASSUME NEW d \in DOMAIN Deps(result[i]) PROVE Deps(result[i])[d] \notin U
  <2>1. PICK j \in 1..(i - 1) : result[j] = Deps(result[i])[d]
    BY <1>1 DEF DependenciesPrecede
  <2>2. j \in 1..Len(result) /\ j < i
    BY <1>2
  <2>3. QED BY <1>5, <2>1, <2>2
<1>7. QED BY <1>6

\* _topological_sort returns every step on exactly the graphs that
\* detect_cycles accepts; on a cyclic one it returns a shorter list in silence.
THEOREM SortIsComplete == Spec => []CompleteIffWellFounded
<1>1. SortInv => CompleteIffWellFounded
  BY AcyclicIsComplete, CompleteIsAcyclic DEF CompleteIffWellFounded
<1>2. QED BY <1>1, SortInvariance, PTL
-----------------------------------------------------------------------------
(* The loops and the operator *)

\* The loops' state at a turn, by its fields.
LEMMA AtTurn ==
  ASSUME NEW k \in KahnState(graph.steps)
  PROVE  [in_degree |-> in_degree, queue |-> queue, result |-> result] = k
           <=> in_degree = k.in_degree /\ queue = k.queue /\ result = k.result
  BY DEF KahnState

\* No more turns than steps.
LEMMA ResultIsShort == SortInv => Len(result) \in 0..N
<1> SUFFICES ASSUME SortInv PROVE Len(result) \in 0..N
  OBVIOUS
<1>1. /\ IsGraph(graph.steps, graph.depends_on)
      /\ result \in Seq(Ids(graph.steps)) /\ Distinct(result)
  BY GraphsAssumption DEF SortInv, TypeOK, QueuedOnce, Distinct, Nodes
<1> QED
  BY <1>1, NoLongerThanList DEF N

LEMMA InitIsStart == Init => TurnInv
<1> SUFFICES ASSUME Init PROVE TurnInv
  OBVIOUS
<1>1. /\ IsGraph(graph.steps, graph.depends_on) /\ Len(result) = 0 /\ N \in Nat
      /\ loop = "roots" /\ next = 1 /\ queue = << >>
  BY GraphFacts, GraphsAssumption DEF Init
<1>2. Picked(graph.steps, Roots(graph.steps, graph.depends_on))[0] = << >>
  BY <1>1, GraphIs, PickedUnfolds
<1>3. InStart
  BY <1>1, <1>2 DEF Init, InStart, KahnStart, Nodes, Deps
<1> QED
  BY <1>1, <1>3 DEF TurnInv

LEMMA QueueRootKeeps ==
  ASSUME SortInv, TurnInv, QueueRoot PROVE TurnInv'
<1> PICK steps : steps = graph.steps
  OBVIOUS
<1> PICK deps : deps = graph.depends_on
  OBVIOUS
<1> PICK roots : roots = Roots(steps, deps)
  OBVIOUS
<1> PICK pick : pick = Picked(steps, roots)
  OBVIOUS
<1>1. /\ IsGraph(steps, deps) /\ loop = "roots" /\ loop' = "roots"
      /\ next \in 1..Len(steps) /\ next' = next + 1 /\ (next + 1) - 1 = next
      /\ UNCHANGED <<graph, in_degree, result>> /\ Len(result) <= N
      /\ in_degree = KahnStart(steps, deps).in_degree /\ queue = pick[next-1]
      /\ queue' = IF in_degree[steps[next]] = 0 THEN Append(queue, steps[next])
                  ELSE queue
  BY GraphsAssumption, GraphFacts
     DEF QueueRoot, SortInv, TypeOK, TurnInv, InStart, N
<1>2. pick[next] = IF steps[next] \in roots THEN Append(pick[next-1], steps[next])
                   ELSE pick[next-1]
  BY <1>1, GraphIs, PickedUnfolds
<1>3. steps[next] \in Ids(steps)
  BY <1>1 DEF Ids, IsGraph
<1>4. steps[next] \in roots <=> in_degree[steps[next]] = 0
  BY <1>1, <1>3 DEF Roots, KahnStart
<1>5. queue' = pick[next' - 1]
  BY <1>1, <1>2, <1>4
<1>6. InStart'
  BY <1>1, <1>5 DEF InStart
<1> QED
  BY <1>1, <1>6 DEF TurnInv, N

\* What TurnsUnfold says of the turns at hand.
LEMMA TurnFacts ==
  ASSUME graph \in Graphs
  PROVE  /\ IsGraph(graph.steps, graph.depends_on) /\ N \in Nat
         /\ \A n \in 0..N : Turn(n) \in KahnState(graph.steps)
         /\ Turn(0) = KahnStart(graph.steps, graph.depends_on)
         /\ \A n \in 1..N : Turn(n-1).queue # << >> =>
              IsVisit(graph.steps, graph.depends_on, Turn(n-1), Turn(n))
<1> PICK steps : steps = graph.steps
  OBVIOUS
<1> PICK deps : deps = graph.depends_on
  OBVIOUS
<1> PICK turns : turns = Turns(steps, deps)
  OBVIOUS
<1>1. IsGraph(steps, deps) /\ Len(steps) \in Nat
  BY GraphsAssumption, GraphIs
<1>2. /\ turns[0] = KahnStart(steps, deps)
      /\ \A n \in 1..Len(steps) :
           turns[n] = IF turns[n-1].queue = << >> THEN turns[n-1]
                      ELSE KahnVisit(steps, deps, turns[n-1])
      /\ \A n \in 0..Len(steps) : turns[n] \in KahnState(steps)
  BY <1>1, TurnsUnfold
<1>3. ASSUME NEW n \in 1..Len(steps), turns[n-1].queue # << >>
      PROVE  IsVisit(steps, deps, turns[n-1], turns[n])
  <2>1. PICK k : k = turns[n-1]
    OBVIOUS
  <2>2. k \in KahnState(steps) /\ k.queue # << >>
    BY <1>1, <1>2, <1>3, <2>1
  <2>3. IsVisit(steps, deps, k, KahnVisit(steps, deps, k))
    BY <1>1, <2>2, VisitIs
  <2> QED
    BY <1>2, <1>3, <2>1, <2>3
<1> QED
  BY <1>1, <1>2, <1>3 DEF Turn, N

LEMMA EndForKeeps ==
  ASSUME SortInv, TurnInv, EndFor PROVE TurnInv'
<1> PICK steps : steps = graph.steps
  OBVIOUS
<1> PICK deps : deps = graph.depends_on
  OBVIOUS
<1> PICK n : n = Len(result)
  OBVIOUS
<1>1. /\ loop' = "while" /\ next = Len(steps) + 1 /\ next - 1 = Len(steps)
      /\ UNCHANGED <<graph, in_degree, queue, result>>
      /\ N' = N /\ Turn(n)' = Turn(n) /\ n \in 0..N
      /\ N = Len(steps) /\ N \in Nat
  <2>1. loop' = "while" /\ UNCHANGED <<graph, in_degree, queue, result>> /\ next > N
    BY DEF EndFor
  <2>2. N = Len(steps) /\ N \in Nat /\ next \in 1..(N + 1) /\ n \in 0..N
    BY ResultIsShort, GraphFacts DEF SortInv, TypeOK, N
  <2>3. N' = N /\ Turn(n)' = Turn(n)
    BY <2>1 DEF N, Turn
  <2>4. next = N + 1 /\ next - 1 = N
    BY <2>1, <2>2
  <2> QED
    BY <2>1, <2>2, <2>3, <2>4
<1>2. /\ IsGraph(steps, deps) /\ Turn(n) \in KahnState(steps)
      /\ Turn(0) = KahnStart(steps, deps)
      /\ n # 0 /\ Turn(n-1).queue # << >> => IsVisit(steps, deps, Turn(n-1), Turn(n))
  BY <1>1, TurnFacts DEF SortInv, TypeOK
<1>3. in_degree = Turn(n).in_degree /\ queue = Turn(n).queue /\ result = Turn(n).result
  <2>1. CASE loop = "roots"
    <3>1. result = << >> /\ n = 0
      BY <2>1 DEF SortInv, LoopInv
    <3>2. /\ in_degree = KahnStart(steps, deps).in_degree
          /\ queue = InListOrder(steps, Roots(steps, deps))
      BY <1>1, <2>1 DEF TurnInv, InStart, InListOrder
    <3> QED
      BY <1>2, <3>1, <3>2 DEF KahnStart
  <2>2. CASE loop = "children"
    <3> PICK k : k = Turn(n-1)
      OBVIOUS
    <3> PICK v : v = Turn(n)
      OBVIOUS
    <3>1. result # << >> /\ n # 0
      BY <2>2 DEF SortInv, LoopInv, TypeOK
    <3>2. /\ k.queue # << >> /\ result = v.result
          /\ \A i \in 1..Len(steps) : in_degree[steps[i]] = v.in_degree[steps[i]]
          /\ queue = Tail(k.queue)
                       \o InListOrder(steps, Freed(steps, deps, Head(k.queue), v.in_degree))
      <4>1. InVisit(k, v)
        BY <2>2 DEF TurnInv
      <4>2. \A i \in 1..Len(steps) : i < next
        BY <1>1
      <4> QED
        BY <1>1, <4>1, <4>2 DEF InVisit, InListOrder
    <3>3. IsVisit(steps, deps, k, v) /\ v \in KahnState(steps)
      BY <1>2, <3>1, <3>2
    <3>4. queue = v.queue
      BY <3>2, <3>3 DEF IsVisit
    <3>5. in_degree = v.in_degree
      <4>1. \A s \in Ids(steps) : \E i \in 1..Len(steps) : steps[i] = s
        BY <1>2, GraphIs DEF In
      <4>2. in_degree \in [Ids(steps) -> Nat] /\ v.in_degree \in [Ids(steps) -> Int]
        BY <3>3 DEF SortInv, TypeOK, Nodes, KahnState
      <4>3. \A s \in Ids(steps) : in_degree[s] = v.in_degree[s]
        BY <3>2, <4>1
      <4> QED
        BY <4>2, <4>3
    <3> QED
      BY <3>2, <3>4, <3>5
  <2> QED
    BY <2>1, <2>2 DEF EndFor
<1>4. [in_degree |-> in_degree, queue |-> queue, result |-> result] = Turn(n)
  BY <1>2, <1>3, AtTurn
<1> QED
  BY <1>1, <1>4 DEF TurnInv

LEMMA PopKeeps ==
  ASSUME SortInv, SortInv', TurnInv, Pop PROVE TurnInv'
<1> PICK steps : steps = graph.steps
  OBVIOUS
<1> PICK deps : deps = graph.depends_on
  OBVIOUS
<1> PICK n : n = Len(result)
  OBVIOUS
<1> PICK k : k = Turn(n)
  OBVIOUS
<1> PICK v : v = Turn(n + 1)
  OBVIOUS
<1>1. /\ loop = "while" /\ loop' = "children" /\ next' = 1 /\ queue # << >>
      /\ UNCHANGED <<graph, in_degree>> /\ queue' = Tail(queue)
      /\ result' = Append(result, Head(queue))
      /\ N' = N /\ N = Len(steps) /\ N \in Nat /\ n \in 0..N
      /\ queue \in Seq(Nodes) /\ result \in Seq(Nodes)
  BY ResultIsShort, GraphFacts DEF Pop, SortInv, TypeOK, N
<1>2. Len(result') = n + 1 /\ (n + 1) - 1 = n
  BY <1>1
<1>3. n + 1 \in 1..N
  <2>1. IsGraph(steps, deps) /\ result' \in Seq(Ids(steps)) /\ Distinct(result')
    BY <1>1, GraphsAssumption DEF SortInv, TypeOK, QueuedOnce, Distinct, Nodes
  <2>2. Len(result') \in 0..Len(steps)
    BY <2>1, NoLongerThanList
  <2> QED
    BY <1>1, <1>2, <2>2
<1>4. /\ IsGraph(steps, deps) /\ k \in KahnState(steps)
      /\ k.queue # << >> => IsVisit(steps, deps, k, v)
  BY <1>1, <1>2, <1>3, TurnFacts DEF SortInv, TypeOK
<1>5. in_degree = k.in_degree /\ queue = k.queue /\ result = k.result
  <2>1. [in_degree |-> in_degree, queue |-> queue, result |-> result] = k
    BY <1>1 DEF TurnInv
  <2> QED
    BY <1>4, <2>1, AtTurn
<1>6. v.result = result'
  BY <1>1, <1>4, <1>5 DEF IsVisit
<1> PICK pick : pick = Picked(steps, Freed(steps, deps, Head(k.queue), v.in_degree))
  OBVIOUS
<1>7. queue' = Tail(k.queue) \o pick[0]
  <2>1. pick[0] = << >>
    BY <1>4, GraphIs, PickedUnfolds
  <2>2. Tail(queue) \in Seq(Nodes)
    BY <1>1
  <2>3. Tail(queue) \o << >> = Tail(queue)
    BY <2>2
  <2> QED
    BY <1>1, <1>5, <2>1, <2>3
<1>8. InVisit(k, v)'
  <2>1. \A i \in 1..N : ~(i < 1)
    BY <1>1
  <2>2. queue' = Tail(k.queue) \o pick[next' - 1]
    <3>1. next' - 1 = 0
      BY <1>1
    <3> QED
      BY <1>7, <3>1
  <2>3. k.queue # << >>
    BY <1>1, <1>5
  <2> QED
    BY <1>1, <1>5, <1>6, <2>1, <2>2, <2>3 DEF InVisit
<1>9. Turn(Len(result) - 1)' = k /\ Turn(Len(result))' = v
  BY <1>1, <1>2 DEF Turn
<1> QED
  BY <1>1, <1>2, <1>3, <1>8, <1>9 DEF TurnInv

LEMMA VisitChildKeeps ==
  ASSUME SortInv, TurnInv, VisitChild PROVE TurnInv'
<1> PICK steps : steps = graph.steps
  OBVIOUS
<1> PICK deps : deps = graph.depends_on
  OBVIOUS
<1> PICK n : n = Len(result)
  OBVIOUS
<1> PICK k : k = Turn(n-1)
  OBVIOUS
<1> PICK v : v = Turn(n)
  OBVIOUS
<1> PICK child : child = steps[next]
  OBVIOUS
<1> PICK mentions : mentions = Mentions(deps[child], Head(k.queue))
  OBVIOUS
<1> PICK freed : freed = Freed(steps, deps, Head(k.queue), v.in_degree)
  OBVIOUS
<1> PICK pick : pick = Picked(steps, freed)
  OBVIOUS
<1> PICK rest : rest = Tail(k.queue)
  OBVIOUS
<1>1. /\ loop = "children" /\ loop' = "children" /\ next \in 1..N /\ next' = next + 1
      /\ (next + 1) - 1 = next /\ UNCHANGED <<graph, result>> /\ result # << >>
      /\ N' = N /\ N = Len(steps) /\ N \in Nat
      /\ in_degree \in [Ids(steps) -> Nat] /\ child \in Ids(steps)
      /\ \A i, j \in 1..N : steps[i] = steps[j] => i = j
      /\ \A i \in 1..N : steps[i] \in Ids(steps)
  <2>1. graph \in Graphs /\ next \in 1..(N + 1) /\ in_degree \in [Nodes -> Nat]
    BY DEF SortInv, TypeOK
  <2>2. /\ N \in Nat /\ \A i \in 1..N : graph.steps[i] \in Nodes
        /\ \A i, j \in 1..N : graph.steps[i] = graph.steps[j] => i = j
    BY <2>1, GraphFacts
  <2>3. /\ loop = "children" /\ loop' = "children" /\ next <= N /\ next' = next + 1
        /\ UNCHANGED <<graph, result>> /\ result # << >>
    BY DEF VisitChild, SortInv, LoopInv
  <2> QED
    BY <2>1, <2>2, <2>3 DEF N, Nodes
<1>2. n \in 1..N
  BY <1>1, ResultIsShort DEF SortInv, TypeOK
<1>3. InVisit(k, v)
  BY <1>1 DEF TurnInv
<1>4. /\ k.queue # << >> /\ result = v.result /\ queue = rest \o pick[next-1]
      /\ \A i \in 1..N : in_degree[steps[i]] =
           IF i < next THEN v.in_degree[steps[i]] ELSE k.in_degree[steps[i]]
  BY <1>3 DEF InVisit
<1>5. /\ IsGraph(steps, deps) /\ IsVisit(steps, deps, k, v) /\ k \in KahnState(steps)
  <2>1. n - 1 \in 0..N
    BY <1>1, <1>2
  <2> QED
    BY <1>2, <1>4, <2>1, TurnFacts DEF SortInv, TypeOK
<1>6. /\ k.queue \in Seq(Ids(steps)) /\ k.result \in Seq(Ids(steps))
      /\ Head(k.queue) \in Ids(steps) /\ rest \in Seq(Ids(steps))
  <2>1. k.queue \in Seq(Ids(steps)) /\ k.result \in Seq(Ids(steps))
    BY <1>5 DEF KahnState
  <2> QED
    BY <1>4, <2>1, TailIn
<1>7. result[Len(result)] = Head(k.queue)
  <2>1. result = Append(k.result, Head(k.queue))
    BY <1>4, <1>5 DEF IsVisit
  <2> QED
    BY <1>6, <2>1
<1>8. /\ in_degree' = [in_degree EXCEPT ![child] = @ - mentions]
      /\ queue' = IF mentions > 0 /\ in_degree[child] = mentions
                  THEN Append(queue, child) ELSE queue
  BY <1>7 DEF VisitChild, Deps
<1>9. /\ mentions \in Nat /\ in_degree[child] = k.in_degree[child]
      /\ v.in_degree[child] = k.in_degree[child] - mentions
      /\ in_degree[child] \in Nat
  <2>1. ~(next < next)
    BY <1>1
  <2> QED
    BY <1>1, <1>4, <1>5, <2>1, MentionsFit DEF IsVisit
<1>10. child \in freed <=> mentions > 0 /\ in_degree[child] = mentions
  BY <1>1, <1>9 DEF Freed
<1>11. /\ pick[next-1] \in Seq(Ids(steps))
       /\ pick[next] = IF child \in freed THEN Append(pick[next-1], child)
                       ELSE pick[next-1]
  BY <1>1, <1>5, GraphIs, PickedUnfolds
<1>12. queue' = rest \o pick[next]
  <2>1. CASE child \in freed
    <3> PICK p : p = pick[next-1]
      OBVIOUS
    <3> PICK S : S = Ids(steps)
      OBVIOUS
    <3>1. rest \in Seq(S) /\ p \in Seq(S) /\ child \in S
      BY <1>1, <1>6, <1>11
    <3>2. Append(rest \o p, child) = rest \o Append(p, child)
      BY ONLY <3>1
    <3> QED
      BY <1>4, <1>8, <1>10, <1>11, <2>1, <3>2
  <2>2. CASE child \notin freed
    BY <1>4, <1>8, <1>10, <1>11, <2>2
  <2> QED
    BY <2>1, <2>2
<1>13. ASSUME NEW i \in 1..N
       PROVE  in_degree'[steps[i]] =
                IF i < next' THEN v.in_degree[steps[i]] ELSE k.in_degree[steps[i]]
  <2>1. CASE i = next
    <3>1. in_degree'[child] = in_degree[child] - mentions /\ i < next' /\ steps[i] = child
      BY <1>1, <1>8, <2>1
    <3> QED
      BY <1>9, <3>1
  <2>2. CASE i # next
    <3>1. steps[i] # child /\ steps[i] \in Ids(steps) /\ (i < next' <=> i < next)
      BY <1>1, <2>2
    <3>2. in_degree'[steps[i]] = in_degree[steps[i]]
      BY <1>1, <1>8, <3>1
    <3> QED
      BY <1>4, <3>1, <3>2
  <2> QED
    BY <2>1, <2>2
<1>14. queue' = rest \o pick[next' - 1]
  BY <1>1, <1>12
<1>15. InVisit(k, v)'
  BY <1>1, <1>4, <1>13, <1>14 DEF InVisit
<1>16. /\ Turn(Len(result) - 1)' = k /\ Turn(Len(result))' = v
       /\ Len(result') <= N'
  BY <1>1, <1>2 DEF Turn
<1> QED
  BY <1>1, <1>15, <1>16 DEF TurnInv

LEMMA NextKeeps == SortInv /\ SortInv' /\ TurnInv /\ [Next]_vars => TurnInv'
<1> SUFFICES ASSUME SortInv, SortInv', TurnInv, [Next]_vars PROVE TurnInv'
  OBVIOUS
<1>1. ASSUME UNCHANGED <<graph, in_degree, queue, result, next>>,
             loop' = loop \/ (loop = "while" /\ loop' = "done")
      PROVE  TurnInv'
  <2>1. N' = N /\ \A n : Turn(n)' = Turn(n)
    BY <1>1 DEF N, Turn
  <2>2. \A k, v : InVisit(k, v)' <=> InVisit(k, v)
    BY <1>1, <2>1 DEF InVisit
  <2>3. InStart' <=> InStart
    BY <1>1 DEF InStart
  <2> QED
    BY <1>1, <2>1, <2>2, <2>3 DEF TurnInv
<1>2. CASE Return
  BY <1>1, <1>2 DEF Return
<1>3. CASE UNCHANGED vars
  BY <1>1, <1>3 DEF vars
<1> QED
  BY <1>2, <1>3, QueueRootKeeps, EndForKeeps, PopKeeps, VisitChildKeeps DEF Next

\* The state of the loops is at every step that of the operator's turns.
THEOREM Invariance == Spec => []IInv
<1>1. Init /\ SortInv => TurnInv
  BY InitIsStart
<1>2. Init => SortInv
  BY InitEstablishes
<1>3. SortInv /\ [Next]_vars => SortInv'
  BY NextPreserves
<1> QED
  BY <1>1, <1>2, <1>3, NextKeeps, PTL DEF Spec, IInv

\* _topological_sort, loop by loop, returns what TopologicalSort says, on every
\* graph: what the other modules use of the sort is what the code computes.
THEOREM LoopsAreTheOperator == Spec => []SameAsOperator
<1>1. ASSUME SortInv, TurnInv, loop = "done"
      PROVE  result = TopologicalSort(graph.steps, graph.depends_on)
  <2> PICK steps : steps = graph.steps
    OBVIOUS
  <2> PICK deps : deps = graph.depends_on
    OBVIOUS
  <2> PICK n : n = Len(result)
    OBVIOUS
  <2> PICK k : k = Turns(steps, deps)[n]
    OBVIOUS
  <2>1. n \in 0..N /\ N = Len(steps) /\ queue = << >>
    BY <1>1, ResultIsShort DEF N, SortInv, LoopInv
  <2>2. IsGraph(steps, deps) /\ Turn(n) \in KahnState(graph.steps) /\ Turn(n) = k
    BY <1>1, <2>1, TurnFacts DEF SortInv, TypeOK, Turn
  <2>3. queue = k.queue /\ result = k.result
    BY <1>1, <2>2, AtTurn DEF TurnInv
  <2>4. Turns(steps, deps)[Len(steps)] = k
    BY <2>1, <2>2, <2>3, TurnsStand
  <2> QED
    BY <2>3, <2>4 DEF TopologicalSort
<1>2. IInv => SameAsOperator
  BY <1>1 DEF IInv, SameAsOperator
<1> QED
  BY <1>2, Invariance, PTL
-----------------------------------------------------------------------------
(* The parser's checks *)

\* What is said of the graph alone stays true of it.
LEMMA SameGraph ==
  ASSUME UNCHANGED graph
  PROVE  /\ N' = N /\ Nodes' = Nodes /\ \A s : Deps(s)' = Deps(s)
         /\ \A s, t : IsChild(s, t)' <=> IsChild(s, t)
         /\ \A p : IsPath(p)' <=> IsPath(p)
         /\ \A n : Turn(n)' = Turn(n)
         /\ WellFounded' <=> WellFounded
<1>1. /\ N' = N /\ Nodes' = Nodes /\ \A s : Deps(s)' = Deps(s)
      /\ \A s, t : IsChild(s, t)' <=> IsChild(s, t)
  BY DEF N, Nodes, Deps, IsChild
<1>2. \A p : IsPath(p)' <=> IsPath(p)
  BY <1>1 DEF IsPath
<1>3. (\A n : Turn(n)' = Turn(n)) /\ (WellFounded' <=> WellFounded)
  BY DEF Turn, WellFounded
<1> QED
  BY <1>1, <1>2, <1>3

\* The conjuncts about the search, and those about the two loops that follow it.
SearchInv == CallsInv /\ LoopsInv /\ BlackInv

LEMMA SearchStands ==
  ASSUME SearchInv, UNCHANGED <<graph, dfsVars>> PROVE SearchInv'
<1>1. /\ UNCHANGED <<graph, color, parent, calls, at, root>>
      /\ \A s, t : DoneWith(s, t)' <=> DoneWith(s, t)
  BY DEF dfsVars, DoneWith
<1>2. CallsInv'
  BY <1>1, SameGraph DEF SearchInv, CallsInv
<1>3. LoopsInv'
  BY <1>1, SameGraph DEF SearchInv, LoopsInv
<1>4. BlackInv'
  BY <1>1, SameGraph DEF SearchInv, BlackInv, Black
<1> QED
  BY <1>2, <1>3, <1>4 DEF SearchInv

LEMMA DepthStands ==
  ASSUME DepthInv, UNCHANGED <<graph, depthVars>> PROVE DepthInv'
  BY SameGraph DEF DepthInv, depthVars

\* A step that was white is called: by the loop over the roots, or by the call
\* that has just looked at it.
LEMMA CallKeeps ==
  ASSUME graph \in Graphs, CheckTypeOK, CheckTypeOK', SearchInv, UNCHANGED graph,
         NEW node \in Nodes, color[node] = "white", Call(node),
         \A s \in Nodes : s # node => parent'[s] = parent[s],
         calls # << >> => IsChild(node, Node) /\ parent'[node] = Node,
         \A s \in Nodes : at'[s] = at[s]
                          \/ /\ calls # << >> /\ s = Node
                             /\ at'[s] = at[s] + 1 /\ graph.steps[at[s]] = node,
         \A i \in 1..N : i < root' =>
           i < root \/ graph.steps[i] = node \/ color[graph.steps[i]] # "white"
  PROVE  SearchInv'
<1> PICK L : L = Len(calls)
  OBVIOUS
<1>1. /\ calls \in Seq(Nodes) /\ L \in Nat /\ calls' = Append(calls, node)
      /\ Len(calls') = L + 1 /\ calls'[L + 1] = node
      /\ \A i \in 1..L : calls'[i] = calls[i] /\ calls[i] \in Nodes
  BY DEF CheckTypeOK, Call
<1>2. /\ color \in [Nodes -> {"white", "gray", "black"}]
      /\ color' \in [Nodes -> {"white", "gray", "black"}]
      /\ color'[node] = "gray" /\ \A s \in Nodes : s # node => color'[s] = color[s]
  BY SameGraph DEF CheckTypeOK, Call
<1>3. \A i \in 1..L : calls[i] # node /\ color[calls[i]] = "gray"
  BY <1>1 DEF SearchInv, CallsInv
<1>4. calls # << >> <=> L > 0
  BY <1>1
<1>5. CallsInv'
  <2>1. \A s \in Nodes : color'[s] = "gray" <=> \E i \in 1..(L + 1) : calls'[i] = s
    BY <1>1, <1>2 DEF SearchInv, CallsInv
  <2>2. \A i, j \in 1..(L + 1) : calls'[i] = calls'[j] => i = j
    BY <1>1, <1>3 DEF SearchInv, CallsInv
  <2>3. ASSUME NEW i \in 1..(L + 1), NEW j \in 1..(L + 1), j = i + 1
        PROVE  parent'[calls'[j]] = calls'[i] /\ IsChild(calls'[j], calls'[i])
    <3>1. i \in 1..L /\ calls'[i] = calls[i]
      BY <1>1, <2>3
    <3>2. CASE j \in 1..L
      BY <1>1, <1>3, <2>3, <3>1, <3>2 DEF SearchInv, CallsInv
    <3>3. CASE j = L + 1
      <4>1. i = L /\ calls[i] = Node
        BY <1>1, <2>3, <3>3 DEF Node
      <4> QED
        BY <1>1, <1>4, <3>1, <3>3, <4>1
    <3> QED
      BY <1>1, <3>2, <3>3
  <2> QED
    BY <1>1, <2>1, <2>2, <2>3, SameGraph DEF CallsInv
<1>6. ASSUME NEW s \in Nodes PROVE color'[s] = "white" => at'[s] = 1
  <2>1. calls # << >> => color[Node] = "gray"
    BY <1>1, <1>3, <1>4 DEF Node
  <2> QED
    BY <1>2, <2>1 DEF SearchInv, LoopsInv
<1>7. ASSUME NEW s \in Nodes, NEW i \in 1..N, IsChild(graph.steps[i], s),
             color'[s] = "black" \/ i < at'[s]
      PROVE  DoneWith(s, graph.steps[i])'
  <2> PICK child : child = graph.steps[i]
    OBVIOUS
  <2> SUFFICES DoneWith(s, child)'
    OBVIOUS
  <2>1. child \in Nodes /\ (color'[s] = "black" => color[s] = "black")
    BY <1>2, GraphFacts
  <2>2. CASE DoneWith(s, child)
    <3>1. CASE color[child] = "black"
      BY <1>2, <2>1, <3>1 DEF DoneWith
    <3>2. ASSUME NEW n \in 1..L, NEW m \in 1..L, m = n + 1, calls[n] = s, calls[m] = child
          PROVE  n \in 1..(L + 1) /\ m \in 1..(L + 1) /\ calls'[n] = s /\ calls'[m] = child
      BY <1>1, <3>2
    <3> QED
      BY <1>1, <2>2, <3>1, <3>2 DEF DoneWith
  <2>3. CASE calls # << >> /\ s = Node /\ child = node
    <3>1. /\ L \in 1..(L + 1) /\ L + 1 \in 1..(L + 1)
          /\ calls'[L] = s /\ calls'[L + 1] = child
      BY <1>1, <1>4, <2>3 DEF Node
    <3> QED
      BY <1>1, <3>1 DEF DoneWith
  <2>4. color[s] = "black" \/ i < at[s] => DoneWith(s, child)
    BY <1>7 DEF SearchInv, LoopsInv
  <2>5. CASE color[s] = "black" \/ i < at[s]
    BY <2>2, <2>4, <2>5
  <2>6. CASE ~(color[s] = "black" \/ i < at[s])
    <3>1. i < at'[s] /\ at'[s] # at[s]
      BY <1>7, <2>1, <2>6
    <3>2. calls # << >> /\ s = Node /\ at'[s] = at[s] + 1 /\ graph.steps[at[s]] = node
      BY <3>1
    <3>3. at[s] \in Nat
      BY GraphFacts DEF CheckTypeOK
    <3>4. i = at[s]
      BY <2>6, <3>1, <3>2, <3>3, GraphFacts
    <3> QED
      BY <2>3, <3>2, <3>4
  <2> QED
    BY <2>5, <2>6
<1>8. LoopsInv'
  <2>1. ASSUME NEW i \in 1..N, i < root' PROVE color'[graph.steps[i]] # "white"
    <3>1. graph.steps[i] \in Nodes
      BY GraphFacts
    <3>2. graph.steps[i] = node \/ color[graph.steps[i]] # "white"
      BY <2>1 DEF SearchInv, LoopsInv
    <3> QED
      BY <1>2, <3>1, <3>2
  <2> QED
    BY <1>6, <1>7, <2>1, SameGraph DEF LoopsInv
<1>9. BlackInv'
  <2>1. Black' = Black
    BY <1>2, SameGraph DEF Black
  <2> QED
    BY <2>1, SameGraph DEF SearchInv, BlackInv
<1> QED
  BY <1>5, <1>8, <1>9 DEF SearchInv

\* dfs(node) returns: node is through with all its children, so none of its
\* dependencies has finished before it.
LEMMA ReturnKeeps ==
  ASSUME graph \in Graphs, CheckTypeOK, CheckTypeOK', SearchInv, ReturnNone
  PROVE  SearchInv'
<1> PICK L : L = Len(calls)
  OBVIOUS
<1> PICK x : x = Node
  OBVIOUS
<1>1. /\ calls \in Seq(Nodes) /\ L \in Nat /\ L > 0 /\ x = calls[L] /\ x \in Nodes
      /\ calls' \in Seq(Nodes) /\ Len(calls') = L - 1
      /\ \A i \in 1..(L - 1) : calls'[i] = calls[i]
      /\ UNCHANGED <<graph, parent, at, root>> /\ at[x] > N
  <2>1. calls \in Seq(Nodes) /\ L \in Nat /\ L > 0
    BY DEF CheckTypeOK, ReturnNone
  <2>2. x = calls[L] /\ x \in Nodes
    BY <2>1 DEF Node
  <2>3. calls' = SubSeq(calls, 1, L - 1) /\ at[x] > N
        /\ UNCHANGED <<graph, parent, at, root>>
    BY DEF ReturnNone, vars
  <2> QED
    BY <2>1, <2>2, <2>3
<1>2. /\ color \in [Nodes -> {"white", "gray", "black"}]
      /\ color' \in [Nodes -> {"white", "gray", "black"}]
      /\ color'[x] = "black" /\ \A s \in Nodes : s # x => color'[s] = color[s]
  BY <1>1, SameGraph DEF CheckTypeOK, ReturnNone
<1>3. /\ \A i, j \in 1..L : calls[i] = calls[j] => i = j
      /\ \A i \in 1..L : color[calls[i]] = "gray" /\ calls[i] \in Nodes
  BY <1>1 DEF SearchInv, CallsInv
<1>4. color[x] = "gray" /\ \A i \in 1..(L - 1) : calls[i] # x
  BY <1>1, <1>3
<1>5. ASSUME NEW s \in Nodes, NEW i \in 1..N, IsChild(graph.steps[i], s),
             color[s] = "black" \/ i < at[s]
      PROVE  \/ color[graph.steps[i]] = "black"
             \/ \E n \in 1..(L - 1) : calls[n] = s /\ calls[n+1] = graph.steps[i]
  <2>1. DoneWith(s, graph.steps[i])
    BY <1>5 DEF SearchInv, LoopsInv
  <2> QED
    BY <1>1, <2>1 DEF DoneWith
<1>6. ASSUME NEW s \in Nodes, IsChild(s, x) PROVE color[s] = "black"
  <2>1. PICK i \in 1..N : graph.steps[i] = s
    BY GraphFacts
  <2>2. i < at[x]
    <3>1. at[x] \in 1..(N + 1) /\ N \in Nat
      BY <1>1, GraphFacts DEF CheckTypeOK
    <3> QED
      BY <1>1, <3>1
  <2> QED
    BY <1>1, <1>4, <1>5, <1>6, <2>1, <2>2
<1>7. ASSUME NEW s \in Nodes, color[s] = "black" PROVE ~IsChild(x, s)
  <2>1. PICK i \in 1..N : graph.steps[i] = x
    BY <1>1, GraphFacts
  <2>2. \A n \in 1..(L - 1) : calls[n] # s
    BY <1>1, <1>3, <1>7
  <2> QED
    BY <1>4, <1>5, <1>7, <2>1, <2>2
<1>8. CallsInv'
  <2>1. ASSUME NEW s \in Nodes
        PROVE  color'[s] = "gray" <=> \E i \in 1..(L - 1) : calls'[i] = s
    <3>1. color[s] = "gray" <=> \E i \in 1..L : calls[i] = s
      BY DEF SearchInv, CallsInv
    <3>2. ASSUME NEW i \in 1..L PROVE i = L \/ i \in 1..(L - 1)
      BY <1>1
    <3>3. \A i \in 1..(L - 1) : i \in 1..L /\ calls'[i] = calls[i]
      BY <1>1
    <3>4. (\E i \in 1..L : calls[i] = s) /\ s # x <=> \E i \in 1..(L - 1) : calls'[i] = s
      BY <1>1, <1>4, <3>2, <3>3
    <3> QED
      BY <1>2, <3>1, <3>4
  <2>2. \A i, j \in 1..(L - 1) : calls'[i] = calls'[j] => i = j
    BY <1>1, <1>3
  <2>3. ASSUME NEW i \in 1..(L - 1), NEW j \in 1..(L - 1), j = i + 1
        PROVE  parent'[calls'[j]] = calls'[i] /\ IsChild(calls'[j], calls'[i])
    <3>1. i \in 1..L /\ j \in 1..L /\ calls'[i] = calls[i] /\ calls'[j] = calls[j]
      BY <1>1
    <3> QED
      BY <1>1, <2>3, <3>1 DEF SearchInv, CallsInv
  <2> QED
    BY <1>1, <2>1, <2>2, <2>3, SameGraph DEF CallsInv
<1>9. LoopsInv'
  <2>1. \A s \in Nodes : color'[s] = "white" => at'[s] = 1
    BY <1>1, <1>2 DEF SearchInv, LoopsInv
  <2>2. ASSUME NEW s \in Nodes, NEW i \in 1..N, IsChild(graph.steps[i], s),
               color'[s] = "black" \/ i < at'[s]
        PROVE  DoneWith(s, graph.steps[i])'
    <3> PICK child : child = graph.steps[i]
      OBVIOUS
    <3>1. child \in Nodes /\ graph.steps[i]' = child
      BY <1>1, GraphFacts
    <3> SUFFICES DoneWith(s, child)'
      BY <3>1
    <3>2. CASE color[child] = "black" \/ child = x
      BY <1>2, <3>1, <3>2 DEF DoneWith
    <3>3. CASE ~(color[child] = "black" \/ child = x)
      <4>1. s # x
        BY <1>6, <2>2, <3>1, <3>3
      <4>2. color[s] = "black" \/ i < at[s]
        BY <1>1, <1>2, <2>2, <4>1
      <4>3. PICK n \in 1..(L - 1) : calls[n] = s /\ calls[n+1] = child
        BY <1>5, <2>2, <3>3, <4>2
      <4>4. n + 1 \in 1..(L - 1)
        BY <1>1, <3>3, <4>3
      <4>5. calls'[n] = s /\ calls'[n+1] = child
        BY <1>1, <4>3, <4>4
      <4> QED
        BY <1>1, <4>4, <4>5 DEF DoneWith
    <3> QED
      BY <3>2, <3>3
  <2>3. ASSUME NEW i \in 1..N, i < root' PROVE color'[graph.steps[i]] # "white"
    <3>1. graph.steps[i] \in Nodes /\ color[graph.steps[i]] # "white"
      BY <1>1, <2>3, GraphFacts DEF SearchInv, LoopsInv
    <3> QED
      BY <1>2, <3>1
  <2> QED
    BY <1>1, <2>1, <2>2, <2>3, SameGraph DEF LoopsInv
<1>10. BlackInv'
  <2>1. Black' = Black \cup {x} /\ Black \subseteq Nodes
    BY <1>1, <1>2, SameGraph DEF Black
  <2>2. ASSUME NEW U, U \subseteq Black \cup {x}, U # {}
        PROVE  \E s \in U : \A d \in DOMAIN Deps(s) : Deps(s)[d] \notin U
    <3>1. CASE x \in U
      <4>1. ~IsChild(x, x)
        BY <1>1, <1>4, <1>6
      <4>2. \A s \in U : ~IsChild(x, s)
        BY <1>7, <2>1, <2>2, <4>1 DEF Black
      <4> QED
        BY <3>1, <4>2 DEF IsChild
    <3>2. CASE x \notin U
      BY <2>2, <3>2 DEF SearchInv, BlackInv
    <3> QED
      BY <3>1, <3>2
  <2> QED
    BY <1>1, <2>1, <2>2, SameGraph DEF BlackInv
<1> QED
  BY <1>8, <1>9, <1>10 DEF SearchInv

LEMMA NodeIs ==
  ASSUME CheckTypeOK, calls # << >>
  PROVE  Node \in Nodes /\ Len(calls) \in Nat \ {0} /\ Node = calls[Len(calls)]
<1>1. calls \in Seq(Nodes) /\ Len(calls) \in Nat \ {0}
  BY DEF CheckTypeOK
<1> QED
  BY <1>1 DEF Node

\* What the loop of dfs looks at.
LEMMA LooksAt ==
  ASSUME graph \in Graphs, CheckTypeOK, NEW child \in Nodes, Looks(child)
  PROVE  /\ calls # << >> /\ Node \in Nodes /\ at[Node] \in 1..N
         /\ graph.steps[at[Node]] = child /\ check = "detect_cycles"
<1>1. calls # << >> /\ at[Node] <= N /\ graph.steps[at[Node]] = child
      /\ check = "detect_cycles"
  BY DEF Looks
<1>2. Node \in Nodes /\ N \in Nat
  BY <1>1, NodeIs, GraphFacts
<1>3. at[Node] \in 1..(N + 1)
  BY <1>2 DEF CheckTypeOK
<1> QED
  BY <1>1, <1>2, <1>3

LEMMA TypesKeep ==
  ASSUME graph \in Graphs, CheckTypeOK, CycleInv, [ParseNext]_<<vars, checkVars>>
  PROVE  CheckTypeOK' /\ UNCHANGED graph
<1>1. UNCHANGED graph
  BY DEF ParseNext, TryRoot, PassChild, CallChild, FindCycle, ReturnNone, EndSearch,
         FollowParent, RaiseCycle, TakeDepth, Judge, Sort, Next, QueueRoot, EndFor,
         Pop, VisitChild, Return, vars, checkVars
<1>2. N' = N /\ Nodes' = Nodes /\ N \in Nat
  BY <1>1, SameGraph, GraphFacts
<1> DEFINE NewTypes ==
             /\ color' \in [Nodes -> {"white", "gray", "black"}]
             /\ parent' \in [Nodes -> Nodes \cup {None}]
             /\ calls' \in Seq(Nodes) /\ at' \in [Nodes -> 1..(N + 1)]
             /\ root' \in 1..(N + 1)
             /\ path' \in Seq(Nodes) /\ current' \in Nodes \cup {None}
             /\ depth' \in [Nodes -> Nat]
<1>3. SUFFICES NewTypes /\ check' \in {"detect_cycles", "_reconstruct_cycle",
                                       "validate_max_depth", "accepted", "refused"}
  BY <1>1, <1>2 DEF CheckTypeOK
<1>4. ASSUME NEW node \in Nodes, Call(node)
      PROVE  /\ color' \in [Nodes -> {"white", "gray", "black"}]
             /\ calls' \in Seq(Nodes)
  BY <1>4 DEF Call, CheckTypeOK
<1>5. ASSUME calls # << >>, at[Node] \in 1..N, at' = [at EXCEPT ![Node] = @ + 1]
      PROVE  at' \in [Nodes -> 1..(N + 1)]
  <2>1. at[Node] + 1 \in 1..(N + 1) /\ at \in [Nodes -> 1..(N + 1)]
    BY <1>2, <1>5 DEF CheckTypeOK
  <2> QED
    BY <1>5, <2>1
<1>6. CASE TryRoot
  <2>1. graph.steps[root] \in Nodes /\ root' \in 1..(N + 1)
    BY <1>2, <1>6, GraphFacts DEF TryRoot, CheckTypeOK
  <2> QED
    BY <1>4, <1>6, <2>1 DEF TryRoot, CheckTypeOK, pathVars, depthVars
<1>7. CASE PassChild
  <2>1. calls # << >> /\ at[Node] \in 1..N
    BY <1>7, LooksAt DEF PassChild
  <2> QED
    BY <1>5, <1>7, <2>1 DEF PassChild, CheckTypeOK, pathVars, depthVars
<1>8. CASE CallChild
  <2>1. PICK child \in Nodes : /\ Looks(child) /\ Call(child)
                               /\ parent' = [parent EXCEPT ![child] = Node]
    BY <1>8 DEF CallChild
  <2>2. calls # << >> /\ at[Node] \in 1..N /\ Node \in Nodes
    BY <2>1, LooksAt
  <2>3. parent' \in [Nodes -> Nodes \cup {None}]
    BY <2>1, <2>2 DEF CheckTypeOK
  <2> QED
    BY <1>4, <1>5, <1>8, <2>1, <2>2, <2>3 DEF CallChild, CheckTypeOK, pathVars, depthVars
<1>9. CASE FindCycle
  <2>1. PICK child \in Nodes : Looks(child) /\ path' = <<child>>
    BY <1>9 DEF FindCycle
  <2>2. Node \in Nodes
    BY <2>1, LooksAt
  <2> QED
    BY <1>9, <2>1, <2>2 DEF FindCycle, CheckTypeOK, dfsVars, depthVars
<1>10. CASE ReturnNone
  <2>1. Node \in Nodes /\ Len(calls) \in Nat \ {0}
    BY <1>10, NodeIs DEF ReturnNone
  <2>2. calls' \in Seq(Nodes)
    BY <1>10, <2>1 DEF ReturnNone, CheckTypeOK
  <2>3. color' \in [Nodes -> {"white", "gray", "black"}]
    BY <1>10, <2>1 DEF ReturnNone, CheckTypeOK
  <2> QED
    BY <1>10, <2>2, <2>3 DEF ReturnNone, CheckTypeOK, pathVars, depthVars
<1>11. CASE EndSearch
  BY <1>11 DEF EndSearch, CheckTypeOK, dfsVars, pathVars, depthVars
<1>12. CASE FollowParent
  <2>1. current \in Nodes /\ parent[current] \in Nodes \cup {None}
    BY <1>12 DEF FollowParent, CheckTypeOK
  <2>2. path' \in Seq(Nodes) /\ current' \in Nodes \cup {None}
    BY <1>12, <2>1 DEF FollowParent, CheckTypeOK
  <2> QED
    BY <1>12, <2>2 DEF FollowParent, CheckTypeOK, dfsVars, depthVars
<1>13. CASE RaiseCycle
  <2>1. path' \in Seq(Nodes)
    <3> PICK q : q = Append(path, path[1])
      OBVIOUS
    <3>1. path[1] \in Nodes /\ path \in Seq(Nodes)
      BY <1>13 DEF RaiseCycle, CycleInv, CheckTypeOK
    <3>2. q \in Seq(Nodes) /\ path' = Reversed(q)
      BY <1>13, <3>1 DEF RaiseCycle
    <3>3. Len(q) \in Nat /\ \A i \in 1..Len(q) : q[Len(q) + 1 - i] \in Nodes
      BY <3>2
    <3> QED
      BY <3>2, <3>3 DEF Reversed
  <2> QED
    BY <1>13, <2>1 DEF RaiseCycle, CheckTypeOK, dfsVars, depthVars
<1>14. CASE TakeDepth
  <2>1. depth' \in [Nodes -> Nat]
    <3> PICK node : node = Head(turn.queue)
      OBVIOUS
    <3>1. depth' = Deepened(node) /\ depth \in [Nodes -> Nat]
      BY <1>14 DEF TakeDepth, CheckTypeOK
    <3>2. ASSUME NEW s \in Nodes, IsChild(s, node) PROVE node \in Nodes
      BY <3>2, GraphFacts DEF IsChild
    <3> QED
      BY <3>1, <3>2 DEF Deepened
  <2> QED
    BY <1>14, <2>1 DEF TakeDepth, CheckTypeOK, dfsVars, pathVars
<1>15. CASE Judge
  BY <1>15 DEF Judge, CheckTypeOK, dfsVars, pathVars, depthVars
<1>16. CASE Sort \/ UNCHANGED <<vars, checkVars>>
  BY <1>16 DEF Sort, CheckTypeOK, checkVars
<1> QED
  BY <1>1, <1>6, <1>7, <1>8, <1>9, <1>10, <1>11, <1>12, <1>13, <1>14, <1>15, <1>16
     DEF ParseNext

\* dfs goes on from a child that is black, or from a step that is no child.
LEMMA PassKeeps ==
  ASSUME graph \in Graphs, CheckTypeOK, SearchInv, PassChild PROVE SearchInv'
<1>1. PICK child \in Nodes : /\ Looks(child)
                             /\ IsChild(child, Node) => color[child] = "black"
  BY DEF PassChild
<1>2. /\ calls # << >> /\ Node \in Nodes /\ at[Node] \in 1..N
      /\ graph.steps[at[Node]] = child
  BY <1>1, LooksAt
<1>3. /\ UNCHANGED <<graph, color, parent, calls, root>>
      /\ at' = [at EXCEPT ![Node] = @ + 1] /\ at \in [Nodes -> 1..(N + 1)]
  BY DEF PassChild, vars, CheckTypeOK
<1>4. CallsInv' /\ BlackInv'
  BY <1>3, SameGraph DEF SearchInv, CallsInv, BlackInv, Black
<1>5. \A s, t : DoneWith(s, t)' <=> DoneWith(s, t)
  BY <1>3 DEF DoneWith
<1>6. color[Node] # "white"
  <2>1. Len(calls) \in 1..Len(calls) /\ Node = calls[Len(calls)]
    BY <1>2, NodeIs
  <2>2. color[Node] = "gray"
    BY <1>2, <2>1 DEF SearchInv, CallsInv
  <2> QED
    BY <2>2
<1>7. ASSUME NEW s \in Nodes, NEW i \in 1..N, IsChild(graph.steps[i], s),
             color[s] = "black" \/ i < at'[s]
      PROVE  DoneWith(s, graph.steps[i])
  <2>1. CASE color[s] = "black" \/ i < at[s]
    BY <1>7, <2>1 DEF SearchInv, LoopsInv
  <2>2. CASE s = Node /\ i = at[s]
    BY <1>1, <1>2, <1>7, <2>2 DEF DoneWith
  <2>3. s # Node => at'[s] = at[s]
    BY <1>3
  <2>4. at'[Node] = at[Node] + 1
    BY <1>2, <1>3
  <2> QED
    BY <1>2, <1>7, <2>1, <2>2, <2>3, <2>4
<1>8. \A s \in Nodes : color[s] = "white" => at'[s] = 1
  BY <1>3, <1>6 DEF SearchInv, LoopsInv
<1>9. LoopsInv'
  BY <1>3, <1>5, <1>7, <1>8, SameGraph DEF SearchInv, LoopsInv
<1> QED
  BY <1>4, <1>9 DEF SearchInv

LEMMA SearchKeeps ==
  ASSUME graph \in Graphs, CheckTypeOK, CheckTypeOK', SearchInv, UNCHANGED graph,
         [ParseNext]_<<vars, checkVars>>
  PROVE  SearchInv'
<1>1. CASE TryRoot
  <2> PICK node : node = graph.steps[root]
    OBVIOUS
  <2>1. node \in Nodes /\ root' = root + 1 /\ root \in 1..N /\ calls = << >>
        /\ UNCHANGED <<parent, at>>
    <3>1. /\ root <= N /\ root' = root + 1 /\ calls = << >>
          /\ UNCHANGED <<parent, at>>
      BY <1>1 DEF TryRoot
    <3>2. root \in 1..N
      BY <3>1, GraphFacts DEF CheckTypeOK
    <3> QED
      BY <3>1, <3>2, GraphFacts
  <2>2. CASE color[node] = "white"
    <3>1. Call(node)
      BY <1>1, <2>2 DEF TryRoot
    <3>2. \A i \in 1..N : i < root' => i < root \/ graph.steps[i] = node
      BY <2>1, GraphFacts
    <3> QED
      BY <2>1, <2>2, <3>1, <3>2, CallKeeps
  <2>3. CASE color[node] # "white"
    <3>1. UNCHANGED <<color, parent, calls, at>>
      BY <1>1, <2>3 DEF TryRoot
    <3>2. \A i \in 1..N : i < root' => i < root \/ i = root
      BY <2>1, GraphFacts
    <3>3. \A s, t : DoneWith(s, t)' <=> DoneWith(s, t)
      BY <3>1 DEF DoneWith
    <3>4. CallsInv' /\ BlackInv'
      BY <3>1, SameGraph DEF SearchInv, CallsInv, BlackInv, Black
    <3>5. LoopsInv'
      BY <2>3, <3>1, <3>2, <3>3, SameGraph DEF SearchInv, LoopsInv
    <3> QED
      BY <3>4, <3>5 DEF SearchInv
  <2> QED
    BY <2>2, <2>3
<1>2. CASE CallChild
  <2>1. PICK child \in Nodes :
          /\ Looks(child) /\ IsChild(child, Node) /\ color[child] = "white"
          /\ parent' = [parent EXCEPT ![child] = Node] /\ Call(child)
    BY <1>2 DEF CallChild
  <2>2. /\ calls # << >> /\ Node \in Nodes /\ at[Node] \in 1..N
        /\ graph.steps[at[Node]] = child
    BY <2>1, LooksAt
  <2>3. parent'[child] = Node /\ \A s \in Nodes : s # child => parent'[s] = parent[s]
    BY <2>1 DEF CheckTypeOK
  <2>4. \A s \in Nodes : at'[s] = at[s] \/ (s = Node /\ at'[s] = at[s] + 1)
    BY <1>2, <2>2 DEF CallChild, CheckTypeOK
  <2>5. \A s \in Nodes : at'[s] = at[s]
                         \/ /\ calls # << >> /\ s = Node
                            /\ at'[s] = at[s] + 1 /\ graph.steps[at[s]] = child
    BY <2>2, <2>4
  <2>6. root' = root
    BY <1>2 DEF CallChild
  <2> QED
    BY <2>1, <2>2, <2>3, <2>5, <2>6, CallKeeps
<1>3. ASSUME UNCHANGED dfsVars PROVE SearchInv'
  BY <1>3, SearchStands
<1>4. FindCycle \/ EndSearch \/ FollowParent \/ RaiseCycle \/ TakeDepth \/ Judge
      \/ Sort \/ UNCHANGED <<vars, checkVars>> => UNCHANGED dfsVars
  BY DEF FindCycle, EndSearch, FollowParent, RaiseCycle, TakeDepth, Judge, Sort,
         checkVars, dfsVars
<1> QED
  BY <1>1, <1>2, <1>3, <1>4, PassKeeps, ReturnKeeps DEF ParseNext

\* At the end of the search every step is black.
LEMMA SearchFinds ==
  ASSUME graph \in Graphs, CheckTypeOK, SearchInv, EndSearch PROVE WellFounded
<1>1. calls = << >> /\ \A i \in 1..N : i < root
  BY GraphFacts DEF EndSearch, CheckTypeOK
<1>2. ASSUME NEW s \in Nodes PROVE color[s] = "black"
  <2>1. color[s] # "white"
    BY <1>1, GraphFacts DEF SearchInv, LoopsInv
  <2>2. color[s] # "gray"
    BY <1>1 DEF SearchInv, CallsInv
  <2> QED
    BY <2>1, <2>2 DEF CheckTypeOK
<1>3. Black = Nodes
  BY <1>2 DEF Black
<1> QED
  BY <1>3 DEF SearchInv, BlackInv, WellFounded, Acyclic, Nodes, Deps

\* Each step of a cycle depends on another of the cycle.
LEMMA CycleRefutes ==
  ASSUME graph \in Graphs, NEW p \in Seq(Nodes), Len(p) > 1, p[1] = p[Len(p)], IsPath(p)
  PROVE  ~WellFounded
<1> DEFINE U == {p[i] : i \in 1..Len(p)}
<1>1. U \subseteq Nodes /\ p[1] \in U
  OBVIOUS
<1>2. ASSUME NEW s \in U PROVE \E t \in U : IsChild(s, t)
  <2>1. PICK i \in 2..Len(p) : p[i] = s
    <3>1. PICK j \in 1..Len(p) : p[j] = s
      BY <1>2
    <3>2. j \in 2..Len(p) \/ (j = 1 /\ Len(p) \in 2..Len(p))
      OBVIOUS
    <3> QED
      BY <3>1, <3>2
  <2> PICK j : j = i - 1
    OBVIOUS
  <2>2. j \in 1..(Len(p) - 1) /\ j + 1 = i /\ j \in 1..Len(p)
    OBVIOUS
  <2>3. IsChild(p[j+1], p[j])
    BY <2>2 DEF IsPath
  <2> QED
    BY <2>1, <2>2, <2>3
<1> HIDE DEF U
<1>3. \A s \in U : \E d \in DOMAIN Deps(s) : Deps(s)[d] \in U
  BY <1>2 DEF IsChild
<1> QED
  BY <1>1, <1>3 DEF WellFounded, Acyclic, Nodes, Deps

\* A gray child is being called, and _reconstruct_cycle starts from the last call.
LEMMA FindCycleKeeps ==
  ASSUME graph \in Graphs, CheckTypeOK, SearchInv, UNCHANGED graph, FindCycle
  PROVE  CycleInv'
<1>1. PICK child \in Nodes : /\ Looks(child) /\ IsChild(child, Node)
                             /\ color[child] = "gray" /\ path' = <<child>>
  BY DEF FindCycle
<1>2. /\ check' = "_reconstruct_cycle" /\ current' = Node /\ calls' = calls
      /\ calls # << >>
  BY <1>1, LooksAt DEF FindCycle, dfsVars
<1>3. Node' = Node /\ Node = calls[Len(calls)] /\ Len(calls) \in 1..Len(calls)
  BY <1>2, NodeIs DEF Node
<1>4. PICK j \in 1..Len(calls) : calls[j] = child
  BY <1>1 DEF SearchInv, CallsInv
<1>5. Follows(Len(calls), j)'
  BY <1>1, <1>2, <1>3, <1>4 DEF Follows
<1>6. \E i, n \in 1..Len(calls') : Follows(i, n)'
  BY <1>2, <1>3, <1>5
<1> QED
  BY <1>1, <1>2, <1>3, <1>6, SameGraph DEF CycleInv

LEMMA FollowParentKeeps ==
  ASSUME graph \in Graphs, CheckTypeOK, SearchInv, CycleInv, UNCHANGED graph, FollowParent
  PROVE  CycleInv'
<1> PICK L : L = Len(calls)
  OBVIOUS
<1>1. /\ check = "_reconstruct_cycle" /\ current # path[1]
      /\ path' = Append(path, current) /\ current' = parent[current]
      /\ check' = check /\ calls' = calls
  BY DEF FollowParent, dfsVars
<1>2. PICK i, j \in 1..L : Follows(i, j)
  BY <1>1 DEF CycleInv
<1>3. /\ path \in Seq(Nodes) /\ path # << >> /\ calls \in Seq(Nodes) /\ L \in Nat
      /\ IsChild(path[1], Node) /\ current \in Nodes
  BY <1>1, <1>2 DEF CycleInv, CheckTypeOK, Follows
<1> PICK n : n = i - 1
  OBVIOUS
<1>4. i # j /\ j <= i
  BY <1>1, <1>2 DEF Follows
<1>5. n \in 1..L /\ i = n + 1 /\ j <= n
  BY <1>3, <1>4
<1>6. current' = calls[n]
  BY <1>1, <1>2, <1>5 DEF SearchInv, CallsInv, Follows
<1>7. /\ Len(path') = L - n + 1 /\ path'[1] = path[1] /\ path'[Len(path')] = calls[i]
      /\ Len(path) = L - i + 1 /\ \A m \in 1..Len(path) : path'[m] = path[m]
  <2>1. Len(path) = L - i + 1 /\ current = calls[i]
    BY <1>2 DEF Follows
  <2>2. /\ Len(path) \in Nat \ {0} /\ Len(path') = Len(path) + 1
        /\ path'[Len(path) + 1] = current
        /\ \A m \in 1..Len(path) : path'[m] = path[m]
    BY <1>1, <1>3
  <2>3. Len(path') = L - n + 1
    BY <1>3, <1>5, <2>1, <2>2
  <2> QED
    BY <2>1, <2>2, <2>3
<1>8. \A m \in 2..Len(path') : path'[m] = calls[L + 2 - m]
  <2>1. ASSUME NEW m \in 2..Len(path') PROVE path'[m] = calls[L + 2 - m]
    <3>1. CASE m = Len(path')
      <4>1. L + 2 - m = i
        <5>1. Len(path') = L - n + 1 /\ i = n + 1 /\ L \in Nat /\ n \in Nat
          BY <1>3, <1>5, <1>7
        <5> QED
          BY <3>1, <5>1
      <4> QED
        BY <1>7, <3>1, <4>1
    <3>2. CASE m \in 2..Len(path)
      BY <1>2, <1>7, <3>2 DEF Follows
    <3>3. Len(path') = Len(path) + 1 /\ Len(path) \in Nat
      <4>1. Len(path') = L - n + 1 /\ Len(path) = L - i + 1 /\ i = n + 1
            /\ L \in Nat /\ n \in Nat /\ Len(path) \in Nat
        BY <1>3, <1>5, <1>7
      <4> QED
        BY <4>1
    <3> QED
      BY <2>1, <3>1, <3>2, <3>3
  <2> QED
    BY <2>1
<1>9. Follows(n, j)'
  BY <1>1, <1>2, <1>5, <1>6, <1>7, <1>8 DEF Follows
<1>10. Node' = Node /\ path' # << >>
  BY <1>1, <1>3 DEF Node
<1>11. \E m, o \in 1..Len(calls') : Follows(m, o)'
  BY <1>1, <1>5, <1>9
<1> QED
  BY <1>1, <1>3, <1>7, <1>10, <1>11, SameGraph DEF CycleInv

\* The calls from the one that was found again to the last, and back to the
\* first of them, with the list turned round.
LEMMA RaiseCycleReports ==
  ASSUME graph \in Graphs, CheckTypeOK, CheckTypeOK', SearchInv, CycleInv, RaiseCycle,
         UNCHANGED graph
  PROVE  ReportsACycle' /\ ~WellFounded
<1> PICK L : L = Len(calls)
  OBVIOUS
<1> PICK first : first = path[1]
  OBVIOUS
<1> PICK q : q = Append(path, first)
  OBVIOUS
<1> PICK p : p = path'
  OBVIOUS
<1>1. /\ check = "_reconstruct_cycle" /\ current \in {first, None}
      /\ p = Reversed(q) /\ check' = "refused" /\ UNCHANGED <<graph, calls>>
  BY DEF RaiseCycle, dfsVars
<1>2. PICK i, j \in 1..L : Follows(i, j)
  BY <1>1 DEF CycleInv
<1>3. /\ path \in Seq(Nodes) /\ path # << >> /\ calls \in Seq(Nodes) /\ L \in Nat
      /\ IsChild(first, Node) /\ first \in Nodes
  BY <1>1, <1>2 DEF CycleInv, CheckTypeOK
<1>4. current = calls[i] /\ calls[i] \in Nodes /\ first = calls[j] /\ j <= i
      /\ Len(path) = L - i + 1 /\ \A n \in 2..Len(path) : path[n] = calls[L + 2 - n]
  BY <1>2, <1>3 DEF Follows
<1>5. calls[i] = first
  <2>1. None \notin Nodes
    BY NoneAssumption DEF Nodes
  <2> QED
    BY <1>1, <1>4, <2>1
<1> PICK M : M = Len(path)
  OBVIOUS
<1>15. L \in Nat /\ i \in Nat /\ 1 <= i /\ i <= L /\ M \in Nat /\ 1 <= M /\ M = L - i + 1
  BY <1>3, <1>4
<1>6. /\ q \in Seq(Nodes) /\ Len(q) = M + 1
      /\ q[1] = first /\ q[M + 1] = first
      /\ \A n \in 1..M : q[n] = path[n]
  <2>1. /\ q \in Seq(Nodes) /\ Len(q) = M + 1 /\ q[M + 1] = first
        /\ \A n \in 1..M : q[n] = path[n]
    BY <1>3, AppendFacts
  <2>2. 1 \in 1..M
    BY ONLY <1>15
  <2> QED
    BY <2>1, <2>2
<1>7. \A n \in 2..(M + 1) : q[n] = calls[L + 2 - n]
  <2>1. ASSUME NEW n \in 2..(M + 1) PROVE q[n] = calls[L + 2 - n]
    <3>1. CASE n = M + 1
      <4>1. L + 2 - n = i
        BY <1>15, <3>1
      <4> QED
        BY <1>5, <1>6, <3>1, <4>1
    <3>2. CASE n \in 2..M
      <4>1. n \in 1..M
        BY <3>2, <1>15
      <4> QED
        BY <1>4, <1>6, <3>2, <4>1
    <3>3. n = M + 1 \/ n \in 2..M
      BY ONLY <1>15, n \in 2..(M + 1)
    <3> QED
      BY <3>1, <3>2, <3>3
  <2> QED
    BY <2>1
<1>8. ASSUME NEW n \in 1..M PROVE IsChild(q[n], q[n + 1])
  <2> PICK m : m = L + 1 - n
    OBVIOUS
  <2>1. m \in 1..L /\ L + 2 - (n + 1) = m /\ n + 1 \in 2..(M + 1)
    BY <1>15
  <2>2. q[n + 1] = calls[m]
    BY <1>7, <2>1
  <2>3. CASE n = 1
    <3>1. calls[m] = Node
      BY <1>3, <2>3 DEF Node
    <3> QED
      BY <1>3, <1>6, <2>2, <2>3, <3>1
  <2>4. CASE n \in 2..M
    <3>1. L + 2 - n = m + 1 /\ m + 1 \in 1..L /\ n \in 2..(M + 1)
      BY <1>15, <2>4
    <3>2. q[n] = calls[m + 1]
      BY <1>7, <3>1
    <3> QED
      BY <2>1, <2>2, <3>1, <3>2 DEF SearchInv, CallsInv
  <2>5. n = 1 \/ n \in 2..M
    BY ONLY <1>15, n \in 1..M
  <2> QED
    BY <2>3, <2>4, <2>5
<1>9. /\ p \in Seq(Nodes) /\ Len(p) = M + 1
      /\ \A n \in 1..(M + 1) : p[n] = q[M + 2 - n]
  <2>1. p = [n \in 1..(M + 1) |-> q[M + 2 - n]]
    <3>1. p = [n \in 1..(M + 1) |-> q[(M + 1) + 1 - n]]
      BY <1>1, <1>6 DEF Reversed
    <3>2. \A n \in 1..(M + 1) : (M + 1) + 1 - n = M + 2 - n
      BY <1>15
    <3> QED
      BY <3>1, <3>2
  <2>2. p \in Seq(Nodes)
    BY SameGraph DEF CheckTypeOK
  <2> QED
    BY <1>6, <2>1, <2>2
<1>10. p[1] = p[Len(p)]
  <2>1. 1 \in 1..(M + 1) /\ M + 1 \in 1..(M + 1) /\ M + 2 - 1 = M + 1
        /\ M + 2 - (M + 1) = 1
    BY <1>15
  <2>2. p[1] = q[M + 1] /\ p[M + 1] = q[1]
    BY <1>9, <2>1
  <2> QED
    BY <1>6, <1>9, <2>2
<1>11. IsPath(p)
  <2>1. ASSUME NEW n \in 1..M PROVE IsChild(p[n + 1], p[n])
    <3> PICK m : m = M + 1 - n
      OBVIOUS
    <3>1. m \in 1..M /\ M + 2 - (n + 1) = m /\ M + 2 - n = m + 1
          /\ n \in 1..(M + 1) /\ n + 1 \in 1..(M + 1)
      BY <1>15
    <3>2. p[n + 1] = q[m] /\ p[n] = q[m + 1]
      BY <1>9, <3>1
    <3> QED
      BY <1>8, <3>1, <3>2
  <2>2. Len(p) - 1 = M
    BY <1>9, <1>15
  <2> QED
    BY <2>1, <2>2 DEF IsPath
<1>12. ASSUME NEW a \in 2..Len(p), NEW b \in 2..Len(p), p[a] = p[b] PROVE a = b
  <2>1. ASSUME NEW n \in 2..Len(p)
        PROVE  \E m \in i..L : p[n] = calls[m] /\ m = IF n = M + 1 THEN i ELSE L - M + n
    <3> PICK o : o = M + 2 - n
      OBVIOUS
    <3>1. n \in 2..(M + 1) /\ n \in 1..(M + 1) /\ o \in 1..M
      BY <1>9, <1>15
    <3>4. p[n] = q[o]
      BY <1>9, <3>1
    <3>2. CASE n = M + 1
      <4>1. o = 1 /\ i \in i..L
        BY <1>15, <3>2
      <4> QED
        BY <1>5, <1>6, <3>2, <3>4, <4>1
    <3>3. CASE n # M + 1
      <4> PICK m : m = L - M + n
        OBVIOUS
      <4>1. o \in 2..(M + 1) /\ L + 2 - o = m /\ m \in i..L
        BY ONLY <1>15, <3>1, <3>3, o = M + 2 - n, m = L - M + n
      <4>2. q[o] = calls[m]
        BY <1>7, <4>1
      <4> QED
        BY <3>3, <3>4, <4>1, <4>2
    <3> QED
      BY <3>2, <3>3
  <2>2. PICK m \in i..L : p[a] = calls[m] /\ m = IF a = M + 1 THEN i ELSE L - M + a
    BY <2>1
  <2>3. PICK n \in i..L : p[b] = calls[n] /\ n = IF b = M + 1 THEN i ELSE L - M + b
    BY <2>1
  <2>4. m \in 1..L /\ n \in 1..L
    BY <1>15
  <2>5. m = n
    <3>1. \A x, y \in 1..L : calls[x] = calls[y] => x = y
      BY DEF SearchInv, CallsInv
    <3> QED
      BY <1>12, <2>2, <2>3, <2>4, <3>1
  <2>6. a \in 2..(M + 1) /\ b \in 2..(M + 1)
    BY <1>9
  <2> QED
    BY <1>15, <2>2, <2>3, <2>5, <2>6
<1>13. Len(p) > 1
  BY <1>9, <1>15
<1>14. ~WellFounded
  BY <1>9, <1>10, <1>11, <1>13, CycleRefutes
<1> QED
  BY <1>10, <1>11, <1>12, <1>13, <1>14, SameGraph DEF ReportsACycle
-----------------------------------------------------------------------------
(* The depths *)

\* The turns of validate_max_depth: the next node depends on visited steps only,
\* and they on others.
LEMMA DepthTurn ==
  ASSUME graph \in Graphs, \E n \in 0..N : turn = Turn(n)
  PROVE  /\ turn.result \in Seq(Nodes)
         /\ turn.queue = << >> /\ WellFounded =>
              \A s \in Nodes : \E i \in 1..Len(turn.result) : turn.result[i] = s
         /\ turn.queue # << >> =>
              LET v == KahnVisit(graph.steps, graph.depends_on, turn)
                  node == Head(turn.queue)
              IN  /\ node \in Nodes
                  /\ v.result = Append(turn.result, node)
                  /\ \E n \in 0..N : v = Turn(n)
                  /\ \A s \in Nodes :
                       s = node \/ (\E i \in 1..Len(turn.result) : turn.result[i] = s)
                       => ~IsChild(s, node)
<1> PICK steps : steps = graph.steps
  OBVIOUS
<1> PICK deps : deps = graph.depends_on
  OBVIOUS
<1> PICK k : k = turn
  OBVIOUS
<1> PICK turns : turns = Turns(steps, deps)
  OBVIOUS
<1>1. /\ IsGraph(steps, deps) /\ N = Len(steps) /\ Nodes = Ids(steps) /\ N \in Nat
      /\ \A n : Turn(n) = turns[n]
      /\ \A s : Deps(s) = deps[s]
  BY GraphsAssumption, GraphFacts DEF N, Nodes, Turn, Deps
<1>2. PICK n \in 0..N : k = turns[n]
  BY <1>1
<1>3. Sorts(steps, deps, k) /\ (k.queue = << >> \/ Len(k.result) = n)
  BY <1>1, <1>2, TurnsSort
<1>4. /\ k.result \in Seq(Nodes) /\ k.queue \in Seq(Nodes) /\ Distinct(k.result)
      /\ \A s : ~(In(s, k.result) /\ In(s, k.queue))
      /\ \A s \in Nodes : In(s, k.result) \/ In(s, k.queue) <=> k.in_degree[s] = 0
      /\ \A s \in Nodes : k.in_degree[s] = Cardinality(Awaited(deps, s, k.result))
  BY <1>1, <1>3 DEF Sorts, KahnState, QueuesFree, CountsAwaited
<1>5. ASSUME k.queue = << >>, WellFounded, NEW t \in Nodes, ~In(t, k.result)
      PROVE  FALSE
  <2> DEFINE U == {s \in Nodes : ~In(s, k.result)}
  <2>1. U \in SUBSET Nodes /\ U # {}
    BY <1>5
  <2>2. PICK s \in U : \A i \in DOMAIN deps[s] : deps[s][i] \notin U
    BY <1>1, <1>5, <2>1 DEF WellFounded, Acyclic
  <2>3. \A i \in DOMAIN deps[s] : In(deps[s][i], k.result)
    BY <1>1, <2>2, GraphIs
  <2>4. Awaited(deps, s, k.result) = {}
    BY <2>3 DEF Awaited
  <2>5. k.in_degree[s] = 0
    BY <1>4, <2>4, FS_EmptySet
  <2>6. In(s, k.queue)
    BY <1>4, <2>2, <2>5
  <2> QED
    BY <1>5, <2>6 DEF In
<1>6. k.queue = << >> /\ WellFounded =>
        \A s \in Nodes : \E i \in 1..Len(k.result) : k.result[i] = s
  BY <1>5 DEF In
<1>7. ASSUME k.queue # << >>
      PROVE  LET v == KahnVisit(steps, deps, k)
                 node == Head(k.queue)
             IN  /\ node \in Nodes
                 /\ v.result = Append(k.result, node)
                 /\ \E m \in 0..N : v = Turn(m)
                 /\ \A s \in Nodes :
                      s = node \/ (\E i \in 1..Len(k.result) : k.result[i] = s)
                      => ~IsChild(s, node)
  <2> PICK node : node = Head(k.queue)
    OBVIOUS
  <2> PICK v : v = KahnVisit(steps, deps, k)
    OBVIOUS
  <2>1. node \in Nodes /\ In(node, k.queue) /\ ~In(node, k.result)
    <3>1. node = k.queue[1] /\ 1 \in 1..Len(k.queue) /\ node \in Nodes
      <4> PICK u : u = k.queue
        OBVIOUS
      <4>1. u \in Seq(Nodes) /\ u # << >>
        BY <1>4, <1>7
      <4>2. Head(u) = u[1] /\ 1 \in 1..Len(u) /\ u[1] \in Nodes
        BY ONLY <4>1
      <4> QED
        BY <4>2
    <3> QED
      BY <1>4, <3>1 DEF In
  <2>2. v.result = Append(k.result, node)
    <3>1. k \in KahnState(steps)
      BY <1>3 DEF Sorts
    <3>2. IsVisit(steps, deps, k, v)
      BY <1>1, <1>7, <3>1, VisitIs
    <3> QED
      BY <3>2 DEF IsVisit
  <2>3. n # N
    <3>1. SUFFICES ASSUME n = N PROVE FALSE
      OBVIOUS
    <3>2. Len(k.result) = Len(steps)
      BY <1>1, <1>3, <1>7, <3>1
    <3>3. \A s \in Nodes : In(s, k.result)
      BY <1>1, <1>4, <3>2, NoLongerThanList
    <3> QED
      BY <2>1, <3>3
  <2>4. v = Turn(n + 1) /\ n + 1 \in 0..N
    <3> PICK m : m = n + 1
      OBVIOUS
    <3>1. m \in 1..N /\ m - 1 = n
      BY <1>1, <2>3
    <3>2. turns[m] = KahnVisit(steps, deps, turns[n])
      BY <1>1, <1>2, <1>7, <3>1, TurnsUnfold
    <3> QED
      BY <1>1, <1>2, <3>1, <3>2
  <2>5. \A i \in DOMAIN deps[node] : In(deps[node][i], k.result)
    <3>1. Cardinality(Awaited(deps, node, k.result)) = 0
      BY <1>4, <2>1
    <3>2. Awaited(deps, node, k.result) = {}
      BY <1>1, <2>1, <3>1, PlacesAreFinite DEF Awaited
    <3> QED
      BY <3>2 DEF Awaited
  <2>6. ~IsChild(node, node)
    BY <1>1, <2>1, <2>5 DEF IsChild, Deps
  <2>7. ASSUME NEW i \in 1..Len(k.result) PROVE ~IsChild(k.result[i], node)
    <3>1. \A d \in DOMAIN deps[k.result[i]] : In(deps[k.result[i]][d], k.result)
      <4>1. ASSUME NEW d \in DOMAIN deps[k.result[i]]
            PROVE  In(deps[k.result[i]][d], k.result)
        <5>1. PICK j \in 1..(i-1) : k.result[j] = deps[k.result[i]][d]
          BY <1>3 DEF Sorts, DependenciesStandFirst
        <5>2. j \in 1..Len(k.result)
          BY <1>4
        <5> QED
          BY <5>1, <5>2 DEF In
      <4> QED
        BY <4>1
    <3> QED
      BY <1>1, <2>1, <3>1 DEF IsChild, Deps
  <2> QED
    BY <2>1, <2>2, <2>4, <2>6, <2>7
<1> QED
  BY <1>4, <1>6, <1>7

\* A path of n steps, without Len.
LEMMA PathIs ==
  ASSUME NEW n \in Nat, NEW p \in [1..n -> Nodes]
  PROVE  /\ p \in Seq(Nodes) /\ Len(p) = n
         /\ IsPath(p) <=> \A i \in 1..(n - 1) : IsChild(p[i + 1], p[i])
<1>1. p \in Seq(Nodes) /\ Len(p) = n
  OBVIOUS
<1> QED
  BY <1>1 DEF IsPath

LEMMA TakeDepthKeeps ==
  ASSUME graph \in Graphs, CheckTypeOK, CheckTypeOK', DepthInv, UNCHANGED graph, TakeDepth
  PROVE  DepthInv'
<1> PICK node : node = Head(turn.queue)
  OBVIOUS
<1> PICK r : r = turn.result
  OBVIOUS
<1> PICK v : v = turn'
  OBVIOUS
<1>1. /\ r \in Seq(Nodes) /\ node \in Nodes /\ v.result = Append(r, node)
      /\ \E n \in 0..N : v = Turn(n)
      /\ \A s \in Nodes : s = node \/ (\E i \in 1..Len(r) : r[i] = s) => ~IsChild(s, node)
  BY DepthTurn DEF TakeDepth, DepthInv
<1>2. depth \in [Nodes -> Nat] /\ depth' = Deepened(node)
  BY DEF CheckTypeOK, TakeDepth
<1>3. ASSUME NEW s \in Nodes
      PROVE  /\ depth[s] \in Nat /\ depth'[s] \in Nat /\ depth'[s] >= depth[s]
             /\ IsChild(s, node) => depth'[s] >= depth[node] + 1
             /\ ~IsChild(s, node) => depth'[s] = depth[s]
             /\ depth'[s] = depth[s]
                \/ (IsChild(s, node) /\ depth'[s] = depth[node] + 1)
  <2>1. depth[s] \in Nat /\ depth[node] \in Nat
    BY <1>1, <1>2
  <2>2. depth'[s] = IF IsChild(s, node) /\ depth[node] + 1 > depth[s]
                    THEN depth[node] + 1 ELSE depth[s]
    BY <1>2 DEF Deepened
  <2> QED
    BY <2>1, <2>2
<1>4. ASSUME NEW s \in Nodes, NEW i \in 1..Len(v.result), IsChild(s, v.result[i])
      PROVE  depth'[s] > depth'[v.result[i]]
  <2>1. /\ Len(v.result) = Len(r) + 1 /\ v.result[Len(r) + 1] = node /\ Len(r) \in Nat
        /\ \A n \in 1..Len(r) : v.result[n] = r[n] /\ r[n] \in Nodes
    BY <1>1, AppendFacts
  <2>2. CASE i = Len(r) + 1
    <3>1. IsChild(s, node) /\ ~IsChild(node, node)
      BY <1>1, <1>4, <2>1, <2>2
    <3>2. depth'[s] >= depth[node] + 1 /\ depth'[node] = depth[node]
          /\ depth[node] \in Nat /\ depth'[s] \in Nat
      BY <1>1, <1>3, <3>1
    <3> QED
      BY <2>1, <2>2, <3>2
  <2>3. CASE i \in 1..Len(r)
    <3> PICK x : x = r[i]
      OBVIOUS
    <3>1. x \in Nodes /\ v.result[i] = x /\ IsChild(s, x) /\ ~IsChild(x, node)
      BY <1>1, <1>4, <2>1, <2>3
    <3>2. depth[s] > depth[x]
      BY <2>3, <3>1 DEF DepthInv
    <3>3. depth'[x] = depth[x] /\ depth[x] \in Nat
          /\ depth'[s] >= depth[s] /\ depth[s] \in Nat /\ depth'[s] \in Nat
      BY <1>3, <3>1
    <3> QED
      BY <3>1, <3>2, <3>3
  <2> QED
    BY <2>1, <2>2, <2>3
<1>5. ASSUME NEW s \in Nodes
      PROVE  \E p \in [1..(depth'[s] + 1) -> Nodes] : IsPath(p) /\ p[depth'[s] + 1] = s
  <2>1. CASE depth'[s] = depth[s]
    BY <2>1 DEF DepthInv
  <2>2. CASE IsChild(s, node) /\ depth'[s] = depth[node] + 1
    <3> PICK d : d = depth[node] + 1
      OBVIOUS
    <3>1. d \in Nat \ {0} /\ d = depth'[s]
      BY <1>1, <1>3, <2>2
    <3>2. PICK p \in [1..d -> Nodes] : IsPath(p) /\ p[d] = node
      BY <1>1 DEF DepthInv
    <3> DEFINE q == [i \in 1..(d + 1) |-> IF i = d + 1 THEN s ELSE p[i]]
    <3>3. /\ q \in [1..(d + 1) -> Nodes] /\ q[d + 1] = s
          /\ \A i \in 1..d : q[i] = p[i]
      BY <3>1
    <3> HIDE DEF q
    <3>4. ASSUME NEW i \in 1..d PROVE IsChild(q[i + 1], q[i])
      <4>1. CASE i = d
        BY <2>2, <3>2, <3>3, <4>1
      <4>2. CASE i # d
        <5>1. i \in 1..(d - 1) /\ i + 1 \in 1..d
          BY <3>1, <4>2
        <5>2. IsChild(p[i + 1], p[i])
          BY <3>1, <3>2, <5>1, PathIs
        <5> QED
          BY <3>3, <5>1, <5>2
      <4> QED
        BY <4>1, <4>2
    <3>5. IsPath(q)
      <4>1. d + 1 \in Nat /\ (d + 1) - 1 = d
        BY <3>1
      <4> QED
        BY <3>3, <3>4, <4>1, PathIs
    <3> QED
      BY <3>1, <3>3, <3>5
  <2> QED
    BY <1>3, <2>1, <2>2
<1> QED
  BY <1>1, <1>4, <1>5, SameGraph DEF DepthInv

\* With every step visited, a depth is the number of dependencies in a row
\* before it, at most: along a path it grows with every step.
LEMMA DepthIsLongest ==
  ASSUME CheckTypeOK, DepthInv, NEW n \in Nat, NEW p \in [1..(n + 1) -> Nodes], IsPath(p),
         \A s \in Nodes : \E i \in 1..Len(turn.result) : turn.result[i] = s
  PROVE  depth[p[n + 1]] >= n
<1> DEFINE T == {m \in Nat : m <= n => depth[p[m + 1]] >= m}
<1>1. 0 \in T
  <2>1. 1 \in 1..(n + 1) /\ 0 + 1 = 1
    OBVIOUS
  <2>2. depth[p[1]] \in Nat
    BY <2>1 DEF CheckTypeOK
  <2> QED
    BY <2>1, <2>2
<1>2. ASSUME NEW m \in Nat, m \in T PROVE m + 1 \in T
  <2> SUFFICES ASSUME m + 1 <= n PROVE depth[p[(m + 1) + 1]] >= m + 1
    OBVIOUS
  <2> PICK i : i = m + 1
    OBVIOUS
  <2>1. i \in 1..n /\ i + 1 \in 1..(n + 1) /\ i \in 1..(n + 1) /\ n + 1 \in Nat
        /\ (n + 1) - 1 = n /\ m <= n
    OBVIOUS
  <2>2. IsChild(p[i + 1], p[i])
    BY <2>1, PathIs
  <2>3. p[i] \in Nodes /\ p[i + 1] \in Nodes
    BY <2>1
  <2>4. depth[p[i + 1]] > depth[p[i]]
    BY <2>2, <2>3 DEF DepthInv
  <2>5. depth[p[i + 1]] \in Nat /\ depth[p[i]] \in Nat
    BY <2>3 DEF CheckTypeOK
  <2>6. depth[p[i]] >= m
    BY <1>2, <2>1
  <2> QED
    BY <2>4, <2>5, <2>6
<1> HIDE DEF T
<1>3. Nat \subseteq T
  BY <1>1, <1>2, AllOf
<1> QED
  BY <1>3 DEF T

LEMMA JudgeAccepts ==
  ASSUME graph \in Graphs, CheckTypeOK, DepthInv, WellFounded, UNCHANGED graph, Judge
  PROVE  AcceptsShallowDags'
<1>1. \A s \in Nodes : \E i \in 1..Len(turn.result) : turn.result[i] = s
  BY DepthTurn DEF Judge, DepthInv
<1>2. MAX_DEPTH \in Nat /\ MAX_DEPTH + 1 \in Nat /\ (MAX_DEPTH + 1) - 1 = MAX_DEPTH
      /\ MAX_DEPTH + 1 \in 1..(MAX_DEPTH + 1)
  BY DepthAssumption
<1>3. ASSUME WithinDepth, NEW p \in [1..(MAX_DEPTH + 1) -> Nodes], IsPath(p) PROVE FALSE
  <2>1. depth[p[MAX_DEPTH + 1]] >= MAX_DEPTH
    BY <1>1, <1>2, <1>3, DepthIsLongest
  <2>2. p[MAX_DEPTH + 1] \in Nodes
    BY <1>2
  <2>3. depth[p[MAX_DEPTH + 1]] \in Nat /\ depth[p[MAX_DEPTH + 1]] < MAX_DEPTH
    BY <1>3, <2>2 DEF WithinDepth, CheckTypeOK
  <2> QED
    BY <1>2, <2>1, <2>3
<1>4. ASSUME ~WithinDepth PROVE \E p \in [1..(MAX_DEPTH + 1) -> Nodes] : IsPath(p)
  <2>1. PICK s \in Nodes : ~(depth[s] < MAX_DEPTH)
    BY <1>4 DEF WithinDepth
  <2> PICK d : d = depth[s]
    OBVIOUS
  <2>2. d \in Nat /\ d + 1 \in Nat /\ d >= MAX_DEPTH
    BY <1>2, <2>1 DEF CheckTypeOK
  <2>3. PICK p \in [1..(d + 1) -> Nodes] : IsPath(p)
    BY <2>1 DEF DepthInv
  <2> DEFINE q == [i \in 1..(MAX_DEPTH + 1) |-> p[i]]
  <2>4. q \in [1..(MAX_DEPTH + 1) -> Nodes] /\ \A i \in 1..(MAX_DEPTH + 1) : q[i] = p[i]
    BY <1>2, <2>2
  <2> HIDE DEF q
  <2>5. ASSUME NEW i \in 1..MAX_DEPTH PROVE IsChild(q[i + 1], q[i])
    <3>1. i \in 1..((d + 1) - 1) /\ i \in 1..(MAX_DEPTH + 1) /\ i + 1 \in 1..(MAX_DEPTH + 1)
      BY <1>2, <2>2
    <3>2. IsChild(p[i + 1], p[i])
      BY <2>2, <2>3, <3>1, PathIs
    <3> QED
      BY <2>4, <3>1, <3>2
  <2>6. IsPath(q)
    BY <1>2, <2>4, <2>5, PathIs
  <2> QED
    BY <2>4, <2>6
<1>5. check' = IF WithinDepth THEN "accepted" ELSE "refused"
  BY DEF Judge
<1> QED
  BY <1>3, <1>4, <1>5, SameGraph DEF AcceptsShallowDags
-----------------------------------------------------------------------------
(* The parser and the sort *)

LEMMA ParseInitEstablishes == ParseInit => CheckInv
<1> SUFFICES ASSUME ParseInit PROVE CheckInv
  OBVIOUS
<1>1. graph \in Graphs /\ N \in Nat
  BY GraphFacts DEF ParseInit, Init
<1>2. CheckTypeOK
  BY <1>1 DEF ParseInit, CheckTypeOK
<1>3. calls = << >> /\ Len(calls) = 0 /\ 1..0 = {}
  BY DEF ParseInit
<1>4. CallsInv
  BY <1>3 DEF ParseInit, CallsInv
<1>5. LoopsInv
  BY <1>1 DEF ParseInit, LoopsInv
<1>6. BlackInv
  <2>1. Black = {}
    BY DEF ParseInit, Black
  <2> QED
    BY <2>1 DEF BlackInv
<1>7. DepthInv
  <2>1. turn = Turn(0) /\ turn.result = << >>
    <3>1. IsGraph(graph.steps, graph.depends_on)
      BY <1>1, GraphsAssumption
    <3>2. Turn(0) = KahnStart(graph.steps, graph.depends_on)
      BY <3>1, TurnsUnfold DEF Turn
    <3> QED
      BY <3>2 DEF ParseInit, KahnStart
  <2>2. ASSUME NEW s \in Nodes
        PROVE  \E p \in [1..(depth[s] + 1) -> Nodes] : IsPath(p) /\ p[depth[s] + 1] = s
    <3> DEFINE p == [i \in 1..1 |-> s]
    <3>1. depth[s] + 1 = 1 /\ p \in [1..1 -> Nodes] /\ p[1] = s
      BY DEF ParseInit
    <3>2. 1 \in Nat /\ 1..(1 - 1) = {}
      OBVIOUS
    <3> HIDE DEF p
    <3>3. IsPath(p)
      BY <3>1, <3>2, PathIs
    <3> QED
      BY <3>1, <3>3
  <2>3. 0 \in 0..N /\ Len(turn.result) = 0
    BY <1>1, <2>1
  <2> QED
    BY <2>1, <2>2, <2>3 DEF DepthInv
<1>8. CycleInv /\ AcceptsShallowDags /\ ReportsACycle /\ check # "validate_max_depth"
  BY DEF ParseInit, CycleInv, AcceptsShallowDags, ReportsACycle
<1> QED
  BY <1>2, <1>4, <1>5, <1>6, <1>7, <1>8 DEF CheckInv

LEMMA ParseNextPreserves ==
  ASSUME graph \in Graphs, CheckInv, [ParseNext]_<<vars, checkVars>> PROVE CheckInv'
<1>1. /\ CheckTypeOK /\ SearchInv /\ CycleInv /\ DepthInv /\ AcceptsShallowDags
      /\ ReportsACycle /\ (check = "validate_max_depth" => WellFounded)
  BY DEF CheckInv, SearchInv
<1>2. CheckTypeOK' /\ UNCHANGED graph
  BY <1>1, TypesKeep
<1>3. SearchInv'
  BY <1>1, <1>2, SearchKeeps
<1> DEFINE Rest == /\ CycleInv' /\ DepthInv' /\ AcceptsShallowDags' /\ ReportsACycle'
                   /\ (check = "validate_max_depth" => WellFounded)'
<1>4. SUFFICES Rest
  BY <1>2, <1>3 DEF CheckInv, SearchInv
<1> HIDE DEF Rest
<1>5. ASSUME check = "detect_cycles", check' = check, UNCHANGED pathVars PROVE
        CycleInv' /\ AcceptsShallowDags' /\ ReportsACycle' /\ check' # "validate_max_depth"
  BY <1>1, <1>5 DEF CycleInv, AcceptsShallowDags, ReportsACycle, pathVars
<1>6. ASSUME UNCHANGED depthVars PROVE DepthInv'
  BY <1>1, <1>2, <1>6, DepthStands
<1>7. CASE TryRoot \/ PassChild \/ CallChild \/ ReturnNone
  <2>1. check = "detect_cycles" /\ check' = check /\ UNCHANGED <<pathVars, depthVars>>
    BY <1>7 DEF TryRoot, PassChild, Looks, CallChild, ReturnNone
  <2> QED
    BY <1>5, <1>6, <2>1 DEF Rest
<1>8. CASE FindCycle
  <2>1. check' = "_reconstruct_cycle" /\ UNCHANGED depthVars
    BY <1>8 DEF FindCycle
  <2>2. CycleInv'
    BY <1>1, <1>2, <1>8, FindCycleKeeps
  <2> QED
    BY <1>6, <2>1, <2>2 DEF AcceptsShallowDags, ReportsACycle, Rest
<1>9. CASE EndSearch
  <2>1. check = "detect_cycles" /\ check' = "validate_max_depth"
        /\ UNCHANGED <<pathVars, depthVars>>
    BY <1>9 DEF EndSearch
  <2>2. WellFounded'
    BY <1>1, <1>2, <1>9, SearchFinds, SameGraph
  <2>3. CycleInv'
    BY <1>1, <2>1 DEF CycleInv, pathVars
  <2> QED
    BY <1>6, <2>1, <2>2, <2>3 DEF AcceptsShallowDags, ReportsACycle, Rest
<1>10. CASE FollowParent
  <2>1. check' = "_reconstruct_cycle" /\ UNCHANGED depthVars
    BY <1>10 DEF FollowParent
  <2>2. CycleInv'
    BY <1>1, <1>2, <1>10, FollowParentKeeps
  <2> QED
    BY <1>6, <2>1, <2>2 DEF AcceptsShallowDags, ReportsACycle, Rest
<1>11. CASE RaiseCycle
  <2>1. check' = "refused" /\ UNCHANGED depthVars
    BY <1>11 DEF RaiseCycle
  <2>2. ReportsACycle' /\ ~WellFounded
    BY <1>1, <1>2, <1>11, RaiseCycleReports
  <2> QED
    BY <1>2, <1>6, <2>1, <2>2, SameGraph DEF CycleInv, AcceptsShallowDags, Rest
<1>12. CASE TakeDepth
  <2>1. check = "validate_max_depth" /\ check' = check /\ UNCHANGED <<dfsVars, pathVars>>
    BY <1>12 DEF TakeDepth
  <2>2. DepthInv'
    BY <1>1, <1>2, <1>12, TakeDepthKeeps
  <2>3. CycleInv' /\ WellFounded'
    BY <1>1, <1>2, <2>1, SameGraph DEF CycleInv, pathVars
  <2> QED
    BY <2>1, <2>2, <2>3 DEF AcceptsShallowDags, ReportsACycle, Rest
<1>13. CASE Judge
  <2>1. check = "validate_max_depth" /\ check' \in {"accepted", "refused"}
        /\ UNCHANGED <<pathVars, depthVars>>
    BY <1>13 DEF Judge
  <2>2. path = << >> /\ path' = path
    BY <1>1, <2>1 DEF CycleInv, pathVars
  <2>3. AcceptsShallowDags'
    BY <1>1, <1>2, <1>13, <2>1, JudgeAccepts
  <2> QED
    BY <1>6, <2>1, <2>2, <2>3 DEF CycleInv, ReportsACycle, Rest
<1>14. CASE Sort \/ UNCHANGED <<vars, checkVars>>
  <2>1. UNCHANGED <<check, color, parent, calls, path, current, depthVars>>
    BY <1>14 DEF Sort, checkVars, depthVars
  <2>2. Node' = Node /\ \A i, j : Follows(i, j)' <=> Follows(i, j)
    BY <2>1 DEF Node, Follows
  <2>3. CycleInv'
    BY <1>1, <1>2, <2>1, <2>2, SameGraph DEF CycleInv
  <2>4. /\ AcceptsShallowDags' /\ ReportsACycle'
        /\ (check = "validate_max_depth" => WellFounded)'
    BY <1>1, <1>2, <2>1, SameGraph DEF AcceptsShallowDags, ReportsACycle
  <2> QED
    BY <1>6, <2>1, <2>3, <2>4 DEF Rest
<1> QED
  BY <1>7, <1>8, <1>9, <1>10, <1>11, <1>12, <1>13, <1>14 DEF ParseNext

\* The parser leaves the sort's variables alone: together they are the sort of
\* Kahn.tla with pauses before it, and all that was proved of it holds here.
THEOREM ParserThenSort == ParseSpec => Spec
<1>1. ParseInit => Init
  BY DEF ParseInit
<1>2. [ParseNext]_<<vars, checkVars>> => [Next]_vars
  BY DEF ParseNext, TryRoot, PassChild, CallChild, FindCycle, ReturnNone, EndSearch,
         FollowParent, RaiseCycle, TakeDepth, Judge, Sort
<1> QED
  BY <1>1, <1>2, PTL DEF ParseSpec, Spec

\* The invariant of the search, of the path it reports and of the depths, beside
\* that of the sort.
THEOREM ParseInvariance == ParseSpec => []ParseInv
<1>1. ParseInit => CheckInv
  BY ParseInitEstablishes
<1>2. IInv /\ CheckInv /\ [ParseNext]_<<vars, checkVars>> => CheckInv'
  BY ParseNextPreserves DEF IInv, SortInv, TypeOK
<1> QED
  BY <1>1, <1>2, ParserThenSort, Invariance, PTL DEF ParseSpec, ParseInv

\* parse_workflow_definition lets exactly the graphs pass that have no cycle and
\* no more than MAX_DEPTH steps in a row, whatever the graph and the limit.
THEOREM ParserIsExact == ParseSpec => []AcceptsShallowDags
<1>1. ParseInv => AcceptsShallowDags
  BY DEF ParseInv, CheckInv
<1> QED
  BY <1>1, ParseInvariance, PTL

\* What CYCLE_DETECTED shows the client is a cycle, followed once round:
\* _reconstruct_cycle never meets a step without a parent on its way.
THEOREM ReportedPathIsACycle == ParseSpec => []ReportsACycle
<1>1. ParseInv => ReportsACycle
  BY DEF ParseInv, CheckInv
<1> QED
  BY <1>1, ParseInvariance, PTL

\* _topological_sort, which does not look, gets through every graph the parser
\* has let pass.
THEOREM AcceptedIsSorted ==
  ParseSpec => [](check = "accepted" /\ loop = "done" => Visited = Nodes)
<1>1. AcceptsShallowDags /\ CompleteIffWellFounded
        => (check = "accepted" /\ loop = "done" => Visited = Nodes)
  BY DEF AcceptsShallowDags, CompleteIffWellFounded
<1> QED
  BY <1>1, ParserIsExact, ParserThenSort, SortIsComplete, PTL
=============================================================================

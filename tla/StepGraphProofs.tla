-------------------------- MODULE StepGraphProofs ---------------------------
(***************************************************************************)
(* Theorems about StepGraph: the sort of any graph without a cycle is an   *)
(* order of its steps in which dependencies come first.  The sort and what *)
(* it queues are recursive functions; what they compute is proved with the *)
(* first section, induction stated for sets and functions, so that it can  *)
(* be used where a theorem about every operator P(_) cannot be             *)
(* instantiated.                                                           *)
(***************************************************************************)
EXTENDS StepGraph, FiniteSetTheorems, WellFoundedInduction, TLAPS

\* Every set of natural numbers has a least element.
LEMMA LeastOf ==
  ASSUME NEW T, T \subseteq Nat, T # {}
  PROVE  \E x \in T : \A y \in T : x <= y
<1> DEFINE R == {ss \in Nat \X Nat : ss[1] < ss[2]}
<1>1. IsWellFoundedOn(R, Nat)
  BY NatLessThanWellFounded, Zenon DEF OpToRel
<1>2. \A x, y \in Nat : y < x => <<y, x>> \in R
  OBVIOUS
<1> HIDE DEF R
<1>3. \E x \in T : \A y \in T : ~ (<<y, x>> \in R)
  BY <1>1, WFMin
<1>4. PICK x \in T : \A y \in T : ~ (<<y, x>> \in R)
  BY <1>3
<1>5. \A y \in T : ~ (y < x)
  BY <1>2, <1>4, Zenon
<1>6. \A y \in T : x <= y
  BY <1>5
<1> QED
  BY <1>6

\* A set that has 0 and with every number its successor has them all.
LEMMA AllOf ==
  ASSUME NEW T, 0 \in T, \A n \in Nat : n \in T => n + 1 \in T
  PROVE  Nat \subseteq T
<1> SUFFICES ASSUME Nat \ T # {} PROVE FALSE
  OBVIOUS
<1>1. PICK n \in Nat \ T : \A m \in Nat \ T : n <= m
  BY LeastOf
<1>2. n - 1 \in Nat /\ n - 1 \in T
  BY <1>1
<1>3. (n - 1) + 1 \in T
  BY <1>2
<1> QED
  BY <1>1, <1>3

\* A function that starts with a and goes on by step, as far as n.
Unrolls(f, V, a, step, n) ==
  /\ f \in [0..n -> V] /\ f[0] = a
  /\ \A i \in 1..n : f[i] = step[i][f[i-1]]

LEMMA RecursionOf ==
  ASSUME NEW V, NEW a \in V, NEW step \in [Nat -> [V -> V]], NEW n \in Nat
  PROVE  \E f : Unrolls(f, V, a, step, n)
<1> USE DEF Unrolls
<1> DEFINE T == {m \in Nat : \E f : Unrolls(f, V, a, step, m)}
<1>1. 0 \in T
  <2> DEFINE f == [i \in 0..0 |-> a]
  <2>1. f \in [0..0 -> V] /\ f[0] = a /\ 1..0 = {}
    OBVIOUS
  <2> HIDE DEF f
  <2> QED
    BY <2>1
<1>2. ASSUME NEW m \in Nat, m \in T PROVE m + 1 \in T
  <2>1. PICK f \in [0..m -> V] :
          f[0] = a /\ \A i \in 1..m : f[i] = step[i][f[i-1]]
    BY <1>2
  <2> DEFINE g == [i \in 0..(m+1) |-> IF i = m + 1 THEN step[m + 1][f[m]] ELSE f[i]]
  <2>2. step[m + 1][f[m]] \in V
    OBVIOUS
  <2>3. g \in [0..(m+1) -> V] /\ g[m+1] = step[m + 1][f[m]]
        /\ \A i \in 0..m : g[i] = f[i]
    BY <2>2
  <2> HIDE DEF g
  <2>4. g[0] = a
    BY <2>1, <2>3
  <2>5. ASSUME NEW i \in 1..(m+1) PROVE g[i] = step[i][g[i-1]]
    <3>1. CASE i = m + 1
      <4>1. i - 1 = m /\ g[m] = f[m]
        BY <2>3, <3>1
      <4> QED
        BY <2>3, <3>1, <4>1
    <3>2. CASE i # m + 1
      <4>1. i \in 1..m /\ i - 1 \in 0..m /\ i \in 0..m
        BY <3>2
      <4> QED
        BY <2>1, <2>3, <4>1
    <3> QED
      BY <3>1, <3>2
  <2> QED
    BY <2>3, <2>4, <2>5
<1> HIDE DEF T
<1>3. n \in T
  BY <1>1, <1>2, AllOf
<1> QED
  BY <1>3 DEF T
-----------------------------------------------------------------------------
(* Sequences and what is in them *)

In(x, q) == \E i \in 1..Len(q) : q[i] = x

Distinct(q) == \A i, j \in 1..Len(q) : q[i] = q[j] => i = j

LEMMA AppendIn ==
  ASSUME NEW T, NEW q \in Seq(T), NEW x \in T
  PROVE  /\ Append(q, x) \in Seq(T) /\ Append(q, x) # << >>
         /\ Len(Append(q, x)) = Len(q) + 1 /\ Append(q, x)[Len(q) + 1] = x
         /\ \A i \in 1..Len(q) : Append(q, x)[i] = q[i]
         /\ \A y : In(y, Append(q, x)) <=> In(y, q) \/ y = x
         /\ Distinct(q) /\ ~In(x, q) => Distinct(Append(q, x))
<1> DEFINE u == Append(q, x)
           n == Len(q)
<1>1. /\ n \in Nat /\ u \in Seq(T) /\ u # << >> /\ Len(u) = n + 1 /\ u[n + 1] = x
      /\ \A i \in 1..n : u[i] = q[i]
  OBVIOUS
<1> HIDE DEF u
<1>2. \A i \in 1..n + 1 : i \in 1..n \/ i = n + 1
  BY <1>1
<1>3. (\A i \in 1..n : i \in 1..n + 1) /\ n + 1 \in 1..n + 1
  BY <1>1
<1> HIDE DEF n
<1>4. \A y : In(y, u) <=> In(y, q) \/ y = x
  BY <1>1, <1>2, <1>3 DEF In, n
<1>5. ASSUME Distinct(q), ~In(x, q) PROVE Distinct(u)
  BY <1>1, <1>2, <1>5 DEF Distinct, In, n
<1> QED
  BY <1>1, <1>4, <1>5 DEF u, n

LEMMA TailIn ==
  ASSUME NEW T, NEW q \in Seq(T), q # << >>
  PROVE  /\ Head(q) \in T /\ Tail(q) \in Seq(T)
         /\ \A y : In(y, q) <=> y = Head(q) \/ In(y, Tail(q))
         /\ Distinct(q) => Distinct(Tail(q)) /\ ~In(Head(q), Tail(q))
<1> DEFINE u == Tail(q)
           h == Head(q)
           n == Len(q)
<1>1. /\ n \in Nat \ {0} /\ u \in Seq(T) /\ Len(u) = n - 1 /\ h \in T /\ q[1] = h
      /\ \A i \in 1..n - 1 : u[i] = q[i + 1]
  OBVIOUS
<1> HIDE DEF u, h
<1>2. /\ 1 \in 1..n /\ \A i \in 1..n : i = 1 \/ (i - 1 \in 1..n - 1 /\ (i - 1) + 1 = i)
      /\ \A i \in 1..n - 1 : i + 1 \in 1..n /\ i + 1 # 1
      /\ \A i, j \in 1..n - 1 : i + 1 = j + 1 => i = j
  BY <1>1
<1> HIDE DEF n
<1>3. ASSUME NEW y PROVE In(y, q) <=> y = h \/ In(y, u)
  <2>1. ASSUME In(y, q) PROVE y = h \/ In(y, u)
    <3>1. PICK i \in 1..n : q[i] = y
      BY <2>1 DEF In, n
    <3>2. CASE i = 1
      BY <1>1, <3>1, <3>2
    <3>3. CASE i - 1 \in 1..n - 1 /\ (i - 1) + 1 = i
      <4>1. u[i - 1] = y
        BY <1>1, <3>1, <3>3
      <4> QED
        BY <1>1, <3>3, <4>1 DEF In
    <3> QED
      BY <1>2, <3>2, <3>3
  <2>2. ASSUME In(y, u) PROVE In(y, q)
    <3>1. PICK i \in 1..n - 1 : u[i] = y
      BY <1>1, <2>2 DEF In
    <3>2. q[i + 1] = y /\ i + 1 \in 1..n
      BY <1>1, <1>2, <3>1
    <3> QED
      BY <3>2 DEF In, n
  <2>3. In(h, q)
    BY <1>1, <1>2 DEF In, n
  <2> QED
    BY <2>1, <2>2, <2>3
<1>4. ASSUME Distinct(q) PROVE Distinct(u) /\ ~In(h, u)
  <2>1. ASSUME NEW i \in 1..n - 1, NEW j \in 1..n - 1, u[i] = u[j] PROVE i = j
    <3>1. q[i + 1] = q[j + 1] /\ i + 1 \in 1..n /\ j + 1 \in 1..n
      BY <1>1, <1>2, <2>1
    <3> QED
      BY <1>2, <1>4, <3>1 DEF Distinct, n
  <2>2. ASSUME NEW i \in 1..n - 1, u[i] = h PROVE FALSE
    <3>1. q[i + 1] = q[1] /\ i + 1 \in 1..n /\ i + 1 # 1
      BY <1>1, <1>2, <2>2
    <3> QED
      BY <1>2, <1>4, <3>1 DEF Distinct, n
  <2> QED
    BY <1>1, <2>1, <2>2 DEF Distinct, In
<1> QED
  BY <1>1, <1>3, <1>4 DEF u, h

LEMMA ConcatIn ==
  ASSUME NEW T, NEW s \in Seq(T), NEW t \in Seq(T)
  PROVE  /\ s \o t \in Seq(T)
         /\ \A y : In(y, s \o t) <=> In(y, s) \/ In(y, t)
         /\ Distinct(s) /\ Distinct(t) /\ (\A y : ~(In(y, s) /\ In(y, t)))
              => Distinct(s \o t)
<1> DEFINE u == s \o t
           m == Len(s)
           n == Len(t)
<1>1. m \in Nat /\ n \in Nat /\ u \in Seq(T) /\ Len(u) = m + n
      /\ \A i \in 1..m + n : u[i] = IF i <= m THEN s[i] ELSE t[i - m]
  OBVIOUS
<1> HIDE DEF u, m, n
<1>2. /\ \A i \in 1..m : u[i] = s[i] /\ i \in 1..m + n
      /\ \A j \in 1..n : u[j + m] = t[j] /\ j + m \in 1..m + n
      /\ \A i \in 1..m + n : i \in 1..m \/ (i - m \in 1..n /\ (i - m) + m = i)
  BY <1>1
<1>3. ASSUME NEW i \in 1..m + n
      PROVE  \/ i \in 1..m /\ u[i] = s[i]
             \/ \E j \in 1..n : i = j + m /\ u[i] = t[j]
  BY <1>2
<1>4. \A y : In(y, u) <=> In(y, s) \/ In(y, t)
  <2>1. ASSUME NEW y, In(y, u) PROVE In(y, s) \/ In(y, t)
    BY <1>1, <1>3, <2>1 DEF In, m, n
  <2>2. ASSUME NEW y, In(y, s) PROVE In(y, u)
    BY <1>1, <1>2, <2>2 DEF In, m
  <2>3. ASSUME NEW y, In(y, t) PROVE In(y, u)
    BY <1>1, <1>2, <2>3 DEF In, n
  <2> QED
    BY <2>1, <2>2, <2>3
<1>5. ASSUME Distinct(s), Distinct(t), \A y : ~(In(y, s) /\ In(y, t)),
             NEW i \in 1..m + n, NEW j \in 1..m + n, u[i] = u[j]
      PROVE  i = j
  <2>1. CASE i \in 1..m /\ j \in 1..m
    BY <1>2, <1>5, <2>1 DEF Distinct, m
  <2>2. ASSUME NEW k \in 1..n, i = k + m, NEW l \in 1..n, j = l + m PROVE i = j
    BY <1>2, <1>5, <2>2 DEF Distinct, n
  <2>3. ASSUME NEW k \in 1..m, NEW l \in 1..n, s[k] = t[l] PROVE FALSE
    BY <1>5, <2>3 DEF In, m, n
  <2> QED
    BY <1>3, <1>5, <2>1, <2>2, <2>3
<1> QED
  BY <1>1, <1>4, <1>5 DEF u, Distinct
-----------------------------------------------------------------------------
(* Selecting from a list *)

\* The recursive definition has a solution, and its values are lists of steps.
LEMMA PickedUnfolds ==
  ASSUME NEW T, NEW steps \in Seq(T), NEW S
  PROVE  LET pick == Picked(steps, S)
         IN  /\ pick[0] = << >>
             /\ \A n \in 1..Len(steps) :
                  /\ pick[n-1] \in Seq(T) /\ pick[n] \in Seq(T)
                  /\ pick[n] = IF steps[n] \in S THEN Append(pick[n-1], steps[n])
                               ELSE pick[n-1]
<1> DEFINE N == Len(steps)
           V == Seq(T)
           Body(f) == [n \in 0..N |->
                         IF n = 0 THEN << >>
                         ELSE IF steps[n] \in S THEN Append(f[n-1], steps[n]) ELSE f[n-1]]
           step == [n \in Nat |-> [q \in V |->
                      IF n \in 1..N /\ steps[n] \in S THEN Append(q, steps[n]) ELSE q]]
           pick == Picked(steps, S)
<1>1. N \in Nat /\ \A n \in 1..N : steps[n] \in T
  OBVIOUS
<1>2. << >> \in V /\ \A q \in V : \A x \in T : Append(q, x) \in V
  OBVIOUS
<1> HIDE DEF N, V
<1>3. step \in [Nat -> [V -> V]]
  BY <1>1, <1>2
<1>4. \A n \in 1..N : \A q \in V :
        step[n][q] = IF steps[n] \in S THEN Append(q, steps[n]) ELSE q
  BY <1>1
<1> HIDE DEF step
<1>5. \E f : f = Body(f)
  <2>1. PICK f \in [0..N -> V] : f[0] = << >> /\ \A i \in 1..N : f[i] = step[i][f[i-1]]
    <3>1. \E f : Unrolls(f, V, << >>, step, N)
      BY <1>1, <1>2, <1>3, RecursionOf
    <3> QED
      BY <3>1 DEF Unrolls
  <2>2. ASSUME NEW n \in 0..N
        PROVE  f[n] = Body(f)[n]
    <3>1. CASE n = 0
      BY <2>1, <3>1
    <3>2. CASE n # 0
      <4>1. n \in 1..N /\ n - 1 \in 0..N
        BY <1>1, <3>2
      <4> QED
        BY <1>4, <2>1, <3>2, <4>1
    <3> QED
      BY <3>1, <3>2
  <2>3. f = [n \in 0..N |-> f[n]] /\ Body(f) = [n \in 0..N |-> Body(f)[n]]
    OBVIOUS
  <2> HIDE DEF Body
  <2>4. f = Body(f)
    BY <2>2, <2>3
  <2> QED
    BY <2>4
<1>6. pick = CHOOSE f : f = Body(f)
  BY DEF Picked, N
<1> HIDE DEF pick, Body
<1>7. pick = Body(pick)
  BY <1>5, <1>6
<1>8. /\ pick[0] = << >>
      /\ \A n \in 1..N : pick[n] = IF steps[n] \in S THEN Append(pick[n-1], steps[n])
                                   ELSE pick[n-1]
  <2>1. pick = [n \in 0..N |->
                  IF n = 0 THEN << >>
                  ELSE IF steps[n] \in S THEN Append(pick[n-1], steps[n]) ELSE pick[n-1]]
    BY <1>7 DEF Body
  <2>2. 0 \in 0..N /\ \A n \in 1..N : n \in 0..N /\ n # 0
    BY <1>1
  <2> QED
    BY <2>1, <2>2
<1>9. \A n \in 0..N : pick[n] \in V
  <2> DEFINE A == {n \in Nat : n <= N => pick[n] \in V}
  <2>1. 0 \in A
    BY <1>2, <1>8
  <2>2. ASSUME NEW n \in Nat, n \in A PROVE n + 1 \in A
    <3>1. CASE n + 1 <= N
      <4>1. n + 1 \in 1..N /\ (n + 1) - 1 = n /\ pick[n] \in V
        BY <1>1, <2>2, <3>1
      <4>2. steps[n + 1] \in T
        BY <1>1, <4>1
      <4>3. pick[n + 1] = IF steps[n + 1] \in S THEN Append(pick[n], steps[n + 1])
                          ELSE pick[n]
        BY <1>8, <4>1
      <4>4. pick[n + 1] \in V
        BY <1>2, <4>1, <4>2, <4>3
      <4> QED
        BY <4>4
    <3>2. CASE ~(n + 1 <= N)
      BY <3>2
    <3> QED
      BY <3>1, <3>2
  <2> HIDE DEF A
  <2>3. Nat \subseteq A
    BY <2>1, <2>2, AllOf
  <2> QED
    BY <1>1, <2>3 DEF A
<1>10. \A n \in 1..N : n - 1 \in 0..N /\ n \in 0..N
  BY <1>1
<1> QED
  BY <1>8, <1>9, <1>10 DEF pick, N, V

\* What is picked of the first n steps is what is in S, each once.
LEMMA PickedFits ==
  ASSUME NEW T, NEW steps \in Seq(T), Distinct(steps), NEW S, NEW n \in 0..Len(steps)
  PROVE  LET q == Picked(steps, S)[n]
         IN  /\ q \in Seq(T) /\ Distinct(q)
             /\ \A x : In(x, q) <=> x \in S /\ \E i \in 1..n : steps[i] = x
<1> DEFINE N == Len(steps)
           pick == Picked(steps, S)
           Fits(m) == /\ pick[m] \in Seq(T) /\ Distinct(pick[m])
                      /\ \A x : In(x, pick[m]) <=> x \in S /\ \E i \in 1..m : steps[i] = x
           A == {m \in Nat : m <= N => Fits(m)}
<1>1. N \in Nat /\ \A i \in 1..N : steps[i] \in T
  OBVIOUS
<1>2. /\ pick[0] = << >>
      /\ \A m \in 1..N : /\ pick[m-1] \in Seq(T) /\ pick[m] \in Seq(T)
                         /\ pick[m] = IF steps[m] \in S THEN Append(pick[m-1], steps[m])
                                      ELSE pick[m-1]
  BY PickedUnfolds
<1> HIDE DEF pick
<1>3. 0 \in A
  <2>1. << >> \in Seq(T) /\ Len(<< >>) = 0 /\ 1..0 = {}
    OBVIOUS
  <2>2. Fits(0)
    BY <1>2, <2>1 DEF In, Distinct
  <2> QED
    BY <2>2
<1>4. ASSUME NEW m \in Nat, m \in A PROVE m + 1 \in A
  <2> SUFFICES ASSUME m + 1 <= N PROVE Fits(m + 1)
    OBVIOUS
  <2>1. m + 1 \in 1..N /\ (m + 1) - 1 = m /\ Fits(m)
    BY <1>1, <1>4
  <2> DEFINE x == steps[m + 1]
  <2>2. /\ x \in T /\ pick[m] \in Seq(T)
        /\ pick[m + 1] = IF x \in S THEN Append(pick[m], x) ELSE pick[m]
    BY <1>1, <1>2, <2>1
  <2>3. \A y : (\E i \in 1..m + 1 : steps[i] = y) <=> (\E i \in 1..m : steps[i] = y) \/ y = x
    <3>1. \A i \in 1..m + 1 : i \in 1..m \/ i = m + 1
      OBVIOUS
    <3>2. (\A i \in 1..m : i \in 1..m + 1) /\ m + 1 \in 1..m + 1
      OBVIOUS
    <3> QED
      BY <3>1, <3>2
  <2>4. ~\E i \in 1..m : steps[i] = x
    <3> SUFFICES ASSUME NEW i \in 1..m, steps[i] = x PROVE FALSE
      OBVIOUS
    <3>1. i \in 1..N /\ i # m + 1
      BY <1>1, <2>1
    <3> QED
      BY <2>1, <3>1 DEF Distinct
  <2> HIDE DEF x
  <2>5. CASE x \in S
    <3>1. ~In(x, pick[m])
      BY <2>1, <2>4
    <3>2. /\ Append(pick[m], x) \in Seq(T) /\ Distinct(Append(pick[m], x))
          /\ \A y : In(y, Append(pick[m], x)) <=> In(y, pick[m]) \/ y = x
      BY <2>1, <2>2, <3>1, AppendIn
    <3> QED
      BY <2>1, <2>2, <2>3, <2>5, <3>2
  <2>6. CASE x \notin S
    BY <2>1, <2>2, <2>3, <2>6
  <2> QED
    BY <2>5, <2>6
<1> HIDE DEF A
<1>5. n \in A
  BY <1>1, <1>3, <1>4, AllOf
<1> QED
  BY <1>1, <1>5 DEF A, pick
-----------------------------------------------------------------------------
(* The turns of the sort *)

LEMMA GraphIs ==
  ASSUME NEW steps, NEW deps, IsGraph(steps, deps)
  PROVE  /\ steps \in Seq(Ids(steps)) /\ Distinct(steps) /\ Len(steps) \in Nat
         /\ \A s : s \in Ids(steps) <=> In(s, steps)
         /\ \A s \in Ids(steps) :
              /\ deps[s] \in Seq(Ids(steps)) /\ Len(deps[s]) \in Nat
              /\ DOMAIN deps[s] = 1..Len(deps[s])
              /\ \A i \in 1..Len(deps[s]) : deps[s][i] \in Ids(steps)
<1>1. steps \in Seq(Ids(steps)) /\ Distinct(steps) /\ Len(steps) \in Nat
      /\ DOMAIN steps = 1..Len(steps)
  BY DEF IsGraph, Distinct
<1>2. \A s : s \in Ids(steps) <=> In(s, steps)
  BY <1>1 DEF Ids, In
<1>3. \A s \in Ids(steps) : deps[s] \in Seq(Ids(steps))
  BY DEF IsGraph
<1>4. ASSUME NEW s \in Ids(steps)
      PROVE  /\ Len(deps[s]) \in Nat /\ DOMAIN deps[s] = 1..Len(deps[s])
             /\ \A i \in 1..Len(deps[s]) : deps[s][i] \in Ids(steps)
  <2>1. deps[s] \in Seq(Ids(steps))
    BY <1>3
  <2> QED
    BY <2>1
<1> QED
  BY <1>1, <1>2, <1>3, <1>4

\* Some of the places in a dependency list.
LEMMA PlacesAreFinite ==
  ASSUME NEW steps, NEW deps, IsGraph(steps, deps), NEW s \in Ids(steps),
         NEW I, I \subseteq DOMAIN deps[s]
  PROVE  IsFiniteSet(I) /\ Cardinality(I) \in Nat /\ (Cardinality(I) = 0 <=> I = {})
<1>1. IsFiniteSet(1..Len(deps[s])) /\ DOMAIN deps[s] = 1..Len(deps[s])
  BY GraphIs, FS_Interval
<1>2. IsFiniteSet(I)
  BY <1>1, FS_Subset
<1> QED
  BY <1>2, FS_CardinalityType, FS_EmptySet

LEMMA MentionsFit ==
  ASSUME NEW steps, NEW deps, IsGraph(steps, deps), NEW s \in Ids(steps), NEW node
  PROVE  Mentions(deps[s], node) \in Nat
<1>1. {i \in DOMAIN deps[s] : deps[s][i] = node} \subseteq DOMAIN deps[s]
  OBVIOUS
<1> QED
  BY <1>1, PlacesAreFinite DEF Mentions

KahnState(steps) ==
  [in_degree : [Ids(steps) -> Int], queue : Seq(Ids(steps)), result : Seq(Ids(steps))]

\* What is picked of the whole list.
LEMMA InListOrderFits ==
  ASSUME NEW steps, NEW deps, IsGraph(steps, deps), NEW S
  PROVE  LET q == InListOrder(steps, S)
         IN  /\ q \in Seq(Ids(steps)) /\ Distinct(q)
             /\ \A x : In(x, q) <=> x \in S /\ x \in Ids(steps)
<1>1. /\ steps \in Seq(Ids(steps)) /\ Distinct(steps) /\ Len(steps) \in 0..Len(steps)
      /\ \A s : s \in Ids(steps) <=> \E i \in 1..Len(steps) : steps[i] = s
  BY GraphIs DEF In
<1> DEFINE q == InListOrder(steps, S)
<1>2. /\ q \in Seq(Ids(steps)) /\ Distinct(q)
      /\ \A x : In(x, q) <=> x \in S /\ \E i \in 1..Len(steps) : steps[i] = x
  <2>1. PICK n \in 0..Len(steps) : n = Len(steps)
    BY <1>1
  <2>2. q = Picked(steps, S)[n]
    BY <2>1 DEF InListOrder
  <2>3. /\ q \in Seq(Ids(steps)) /\ Distinct(q)
        /\ \A x : In(x, q) <=> x \in S /\ \E i \in 1..n : steps[i] = x
    <3>1. PICK T : T = Ids(steps)
      OBVIOUS
    <3>2. steps \in Seq(T) /\ Distinct(steps) /\ n \in 0..Len(steps)
      BY <1>1, <3>1
    <3>3. LET p == Picked(steps, S)[n]
          IN  /\ p \in Seq(T) /\ Distinct(p)
              /\ \A x : In(x, p) <=> x \in S /\ \E i \in 1..n : steps[i] = x
      BY ONLY <3>2, PickedFits
    <3> HIDE DEF q
    <3> QED
      BY <2>2, <3>1, <3>3
  <2> QED
    BY <2>1, <2>3
<1> HIDE DEF q
<1> QED
  BY <1>1, <1>2 DEF q

LEMMA StartFits ==
  ASSUME NEW steps, NEW deps, IsGraph(steps, deps)
  PROVE  KahnStart(steps, deps) \in KahnState(steps)
<1>1. [s \in Ids(steps) |-> Len(deps[s])] \in [Ids(steps) -> Int]
  BY GraphIs
<1>2. InListOrder(steps, Roots(steps, deps)) \in Seq(Ids(steps))
  BY InListOrderFits
<1> QED
  BY <1>1, <1>2 DEF KahnStart, KahnState

\* v is what a turn makes of k.
IsVisit(steps, deps, k, v) ==
  /\ v \in KahnState(steps)
  /\ \A s \in Ids(steps) :
       v.in_degree[s] = k.in_degree[s] - Mentions(deps[s], Head(k.queue))
  /\ v.queue = Tail(k.queue)
                 \o InListOrder(steps, Freed(steps, deps, Head(k.queue), v.in_degree))
  /\ v.result = Append(k.result, Head(k.queue))

LEMMA VisitIs ==
  ASSUME NEW steps, NEW deps, IsGraph(steps, deps), NEW k \in KahnState(steps),
         k.queue # << >>
  PROVE  IsVisit(steps, deps, k, KahnVisit(steps, deps, k))
<1> DEFINE node == Head(k.queue)
           v == KahnVisit(steps, deps, k)
           left == [s \in Ids(steps) |-> k.in_degree[s] - Mentions(deps[s], node)]
           freed == Freed(steps, deps, node, left)
           queue == Tail(k.queue) \o InListOrder(steps, freed)
           result == Append(k.result, node)
<1>1. /\ k.in_degree \in [Ids(steps) -> Int] /\ k.queue \in Seq(Ids(steps))
      /\ k.result \in Seq(Ids(steps))
  BY DEF KahnState
<1>2. v = [in_degree |-> left, queue |-> queue, result |-> result]
  BY DEF KahnVisit
<1>3. node \in Ids(steps) /\ Tail(k.queue) \in Seq(Ids(steps))
  BY <1>1, TailIn
<1>4. left \in [Ids(steps) -> Int]
  <2>1. ASSUME NEW s \in Ids(steps)
        PROVE  k.in_degree[s] - Mentions(deps[s], node) \in Int
    <3>1. k.in_degree[s] \in Int /\ Mentions(deps[s], node) \in Nat
      BY <1>1, MentionsFit
    <3> QED
      BY <3>1
  <2> QED
    BY <2>1
<1>5. InListOrder(steps, freed) \in Seq(Ids(steps))
  BY InListOrderFits
<1>6. queue \in Seq(Ids(steps))
  BY <1>3, <1>5, ConcatIn
<1>7. result \in Seq(Ids(steps))
  BY <1>1, <1>3, AppendIn
<1>8. \A s \in Ids(steps) : left[s] = k.in_degree[s] - Mentions(deps[s], node)
  OBVIOUS
<1> HIDE DEF v, left, queue, result
<1>9. /\ v \in KahnState(steps) /\ v.in_degree = left
      /\ v.queue = queue /\ v.result = result
  BY <1>2, <1>4, <1>6, <1>7 DEF KahnState
<1> QED
  BY <1>8, <1>9 DEF v, queue, result, IsVisit

\* The recursive definition of the turns has a solution.
LEMMA TurnsUnfold ==
  ASSUME NEW steps, NEW deps, IsGraph(steps, deps)
  PROVE  LET turn == Turns(steps, deps)
         IN  /\ turn[0] = KahnStart(steps, deps)
             /\ \A n \in 1..Len(steps) :
                  turn[n] = IF turn[n-1].queue = << >> THEN turn[n-1]
                            ELSE KahnVisit(steps, deps, turn[n-1])
             /\ \A n \in 0..Len(steps) : turn[n] \in KahnState(steps)
<1> DEFINE N == Len(steps)
           V == KahnState(steps)
           start == KahnStart(steps, deps)
           On(k) == IF k.queue = << >> THEN k ELSE KahnVisit(steps, deps, k)
           Body(f) == [n \in 0..N |->
                         IF n = 0 THEN start
                         ELSE IF f[n-1].queue = << >> THEN f[n-1]
                         ELSE KahnVisit(steps, deps, f[n-1])]
           step == [n \in Nat |-> [k \in V |-> On(k)]]
           turn == Turns(steps, deps)
<1>1. N \in Nat /\ start \in V
  BY GraphIs, StartFits
<1>2. \A k \in V : On(k) \in V
  BY VisitIs DEF IsVisit
<1> HIDE DEF N, V, start
<1>3. step \in [Nat -> [V -> V]]
  BY <1>2
<1>4. \A n \in 1..N : \A k \in V : step[n][k] = On(k)
  BY <1>1
<1> HIDE DEF step
<1>5. \E f : f = Body(f)
  <2>1. PICK f : Unrolls(f, V, start, step, N)
    BY <1>1, <1>3, RecursionOf
  <2>2. f \in [0..N -> V] /\ f[0] = start /\ \A i \in 1..N : f[i] = step[i][f[i-1]]
    BY <2>1 DEF Unrolls
  <2>3. ASSUME NEW n \in 0..N PROVE f[n] = Body(f)[n]
    <3>1. CASE n = 0
      BY <2>2, <3>1
    <3>2. CASE n # 0
      <4>1. n \in 1..N /\ n - 1 \in 0..N
        BY <1>1, <3>2
      <4>2. f[n] = On(f[n-1])
        BY <1>4, <2>2, <4>1
      <4> QED
        BY <3>2, <4>2
    <3> QED
      BY <3>1, <3>2
  <2>4. f = [n \in 0..N |-> f[n]] /\ Body(f) = [n \in 0..N |-> Body(f)[n]]
    BY <2>2
  <2> HIDE DEF Body
  <2>5. f = Body(f)
    BY <2>3, <2>4
  <2> QED
    BY <2>5
<1>6. turn = CHOOSE f : f = Body(f)
  BY DEF Turns, N, start
<1> HIDE DEF turn, Body
<1>7. turn = Body(turn)
  BY <1>5, <1>6
<1>8. turn[0] = start /\ \A n \in 1..N : turn[n] = On(turn[n-1])
  <2>1. turn = [n \in 0..N |->
                  IF n = 0 THEN start
                  ELSE IF turn[n-1].queue = << >> THEN turn[n-1]
                  ELSE KahnVisit(steps, deps, turn[n-1])]
    BY <1>7 DEF Body
  <2>2. 0 \in 0..N /\ \A n \in 1..N : n \in 0..N /\ n # 0
    BY <1>1
  <2> QED
    BY <2>1, <2>2
<1>9. \A n \in 0..N : turn[n] \in V
  <2> DEFINE A == {n \in Nat : n <= N => turn[n] \in V}
  <2>1. 0 \in A
    BY <1>1, <1>8
  <2>2. ASSUME NEW n \in Nat, n \in A PROVE n + 1 \in A
    <3> SUFFICES ASSUME n + 1 <= N PROVE turn[n + 1] \in V
      OBVIOUS
    <3>1. n + 1 \in 1..N /\ (n + 1) - 1 = n /\ turn[n] \in V
      BY <1>1, <2>2
    <3>2. turn[n + 1] = On(turn[n])
      BY <1>8, <3>1
    <3> HIDE DEF On
    <3> QED
      BY <1>2, <3>1, <3>2
  <2> HIDE DEF A
  <2>3. Nat \subseteq A
    BY <2>1, <2>2, AllOf
  <2> QED
    BY <1>1, <2>3 DEF A
<1> QED
  BY <1>8, <1>9 DEF turn, N, V, start
-----------------------------------------------------------------------------
(* What the turns keep *)

\* The mentions that keep s waiting.
Awaited(deps, s, result) == {i \in DOMAIN deps[s] : ~In(deps[s][i], result)}

\* An in-degree counts the mentions of steps that are not in the result.
CountsAwaited(steps, deps, k) ==
  \A s \in Ids(steps) : k.in_degree[s] = Cardinality(Awaited(deps, s, k.result))

\* Exactly the steps that await nothing are in the queue or in the result, once.
QueuesFree(steps, k) ==
  /\ \A s \in Ids(steps) :
       In(s, k.result) \/ In(s, k.queue) <=> k.in_degree[s] = 0
  /\ Distinct(k.queue) /\ Distinct(k.result)
  /\ \A s : ~(In(s, k.result) /\ In(s, k.queue))

\* Every dependency of a step of the result stands before it.
DependenciesStandFirst(deps, result) ==
  \A i \in 1..Len(result) : \A d \in DOMAIN deps[result[i]] :
    \E j \in 1..(i-1) : result[j] = deps[result[i]][d]

Sorts(steps, deps, k) ==
  /\ k \in KahnState(steps)
  /\ CountsAwaited(steps, deps, k) /\ QueuesFree(steps, k)
  /\ DependenciesStandFirst(deps, k.result)

LEMMA StartSorts ==
  ASSUME NEW steps, NEW deps, IsGraph(steps, deps)
  PROVE  Sorts(steps, deps, KahnStart(steps, deps))
<1> DEFINE k == KahnStart(steps, deps)
           roots == Roots(steps, deps)
<1>1. k \in KahnState(steps)
  BY StartFits
<1>2. /\ k.in_degree = [s \in Ids(steps) |-> Len(deps[s])]
      /\ k.queue = InListOrder(steps, roots) /\ k.result = << >>
  BY DEF KahnStart
<1> HIDE DEF k
<1>3. \A s : ~In(s, << >>)
  BY DEF In
<1>4. CountsAwaited(steps, deps, k)
  <2> SUFFICES ASSUME NEW s \in Ids(steps)
               PROVE  Len(deps[s]) = Cardinality(Awaited(deps, s, << >>))
    BY <1>2 DEF CountsAwaited
  <2>1. Awaited(deps, s, << >>) = 1..Len(deps[s]) /\ Len(deps[s]) \in Nat
    BY <1>3, GraphIs DEF Awaited
  <2>2. ASSUME NEW n \in Nat PROVE Cardinality(1..n) = n
    BY FS_Interval
  <2> QED
    BY <2>1, <2>2
<1>5. /\ Distinct(k.queue)
      /\ \A x : In(x, k.queue) <=> x \in roots /\ x \in Ids(steps)
  BY <1>2, InListOrderFits DEF Roots
<1>6. QueuesFree(steps, k)
  <2>1. Distinct(<< >>)
    BY DEF Distinct
  <2> QED
    BY <1>2, <1>3, <1>5, <2>1 DEF QueuesFree, Roots
<1>7. DependenciesStandFirst(deps, k.result)
  BY <1>2 DEF DependenciesStandFirst
<1> QED
  BY <1>1, <1>4, <1>6, <1>7 DEF Sorts, k

\* A visited node is awaited no longer, as often as it was mentioned.
LEMMA VisitTakes ==
  ASSUME NEW steps, NEW deps, IsGraph(steps, deps), NEW s \in Ids(steps),
         NEW result \in Seq(Ids(steps)), NEW node \in Ids(steps), ~In(node, result)
  PROVE  LET before == Cardinality(Awaited(deps, s, result))
             after == Cardinality(Awaited(deps, s, Append(result, node)))
         IN  /\ before \in Nat /\ after \in Nat
             /\ after = before - Mentions(deps[s], node)
<1> DEFINE B == Awaited(deps, s, result)
           A == Awaited(deps, s, Append(result, node))
           M == {i \in DOMAIN deps[s] : deps[s][i] = node}
<1>1. B \subseteq DOMAIN deps[s] /\ A \subseteq DOMAIN deps[s] /\ M \subseteq B
  BY DEF Awaited
<1>2. A = B \ M
  BY AppendIn DEF Awaited
<1>3. IsFiniteSet(B) /\ Cardinality(B) \in Nat /\ Cardinality(A) \in Nat
  BY <1>1, PlacesAreFinite
<1>4. B \cap M = M
  BY <1>1
<1>5. Mentions(deps[s], node) = Cardinality(M)
  BY DEF Mentions
<1> HIDE DEF A, B, M
<1>6. Cardinality(A) = Cardinality(B) - Cardinality(M)
  BY <1>2, <1>3, <1>4, FS_Difference
<1> QED
  BY <1>3, <1>5, <1>6 DEF A, B

LEMMA VisitSorts ==
  ASSUME NEW steps, NEW deps, IsGraph(steps, deps), NEW k, Sorts(steps, deps, k),
         k.queue # << >>
  PROVE  Sorts(steps, deps, KahnVisit(steps, deps, k))
<1> PICK v : v = KahnVisit(steps, deps, k)
  OBVIOUS
<1> PICK node : node = Head(k.queue)
  OBVIOUS
<1> PICK freed : freed = Freed(steps, deps, node, v.in_degree)
  OBVIOUS
<1> PICK more : more = InListOrder(steps, freed)
  OBVIOUS
<1>1. /\ k \in KahnState(steps) /\ k.queue \in Seq(Ids(steps))
      /\ k.result \in Seq(Ids(steps)) /\ k.in_degree \in [Ids(steps) -> Int]
  BY DEF Sorts, KahnState
<1>2. /\ v \in KahnState(steps) /\ node \in Ids(steps)
      /\ \A s \in Ids(steps) : v.in_degree[s] = k.in_degree[s] - Mentions(deps[s], node)
      /\ v.queue = Tail(k.queue) \o more
      /\ v.result = Append(k.result, node)
  <2>1. IsVisit(steps, deps, k, v)
    BY <1>1, VisitIs
  <2>2. node \in Ids(steps)
    BY <1>1, TailIn
  <2> QED
    BY <2>1, <2>2 DEF IsVisit
<1>3. /\ \A s \in Ids(steps) :
           k.in_degree[s] = Cardinality(Awaited(deps, s, k.result))
      /\ \A s \in Ids(steps) :
           In(s, k.result) \/ In(s, k.queue) <=> k.in_degree[s] = 0
      /\ Distinct(k.queue) /\ Distinct(k.result)
      /\ \A s : ~(In(s, k.result) /\ In(s, k.queue))
  BY DEF Sorts, CountsAwaited, QueuesFree
<1>4. /\ Tail(k.queue) \in Seq(Ids(steps)) /\ Distinct(Tail(k.queue))
      /\ ~In(node, Tail(k.queue))
      /\ \A y : In(y, k.queue) <=> y = node \/ In(y, Tail(k.queue))
  BY <1>1, <1>3, TailIn
<1>5. /\ more \in Seq(Ids(steps)) /\ Distinct(more)
      /\ \A y : In(y, more) <=> y \in freed
  BY InListOrderFits DEF Freed
<1>6. ~In(node, k.result)
  BY <1>3, <1>4
<1>7. \A s \in Ids(steps) :
        /\ Mentions(deps[s], node) \in Nat
        /\ v.in_degree[s] = Cardinality(Awaited(deps, s, v.result))
        /\ v.in_degree[s] \in Nat /\ k.in_degree[s] \in Nat
  <2> SUFFICES ASSUME NEW s \in Ids(steps)
               PROVE  /\ Mentions(deps[s], node) \in Nat
                      /\ v.in_degree[s] = Cardinality(Awaited(deps, s, v.result))
                      /\ v.in_degree[s] \in Nat /\ k.in_degree[s] \in Nat
    OBVIOUS
  <2> DEFINE before == Cardinality(Awaited(deps, s, k.result))
             after == Cardinality(Awaited(deps, s, Append(k.result, node)))
  <2>1. Mentions(deps[s], node) \in Nat
    BY MentionsFit
  <2>2. /\ before \in Nat /\ after \in Nat
        /\ after = before - Mentions(deps[s], node)
    <3>1. k.result \in Seq(Ids(steps)) /\ node \in Ids(steps)
      BY <1>1, <1>2
    <3> QED
      BY <1>6, <3>1, VisitTakes
  <2>3. /\ k.in_degree[s] = before /\ v.result = Append(k.result, node)
        /\ v.in_degree[s] = k.in_degree[s] - Mentions(deps[s], node)
    BY <1>2, <1>3
  <2> HIDE DEF before, after
  <2>4. v.in_degree[s] = after
    BY <2>2, <2>3
  <2> QED
    BY <2>1, <2>2, <2>3, <2>4 DEF after
<1>8. CountsAwaited(steps, deps, v)
  BY <1>7 DEF CountsAwaited
<1>9. \A y : In(y, v.result) <=> In(y, k.result) \/ y = node
  BY <1>1, <1>2, AppendIn
<1>10. \A s \in freed : k.in_degree[s] # 0 /\ ~In(s, k.result) /\ ~In(s, k.queue)
  BY <1>2, <1>3, <1>7 DEF Freed
<1>11. /\ Distinct(v.queue)
       /\ \A y : In(y, v.queue) <=> In(y, Tail(k.queue)) \/ y \in freed
  <2>1. \A y : ~(In(y, Tail(k.queue)) /\ In(y, more))
    BY <1>4, <1>5, <1>10
  <2>2. PICK T : T = Ids(steps)
    OBVIOUS
  <2>3. PICK rest : rest = Tail(k.queue)
    OBVIOUS
  <2>4. /\ rest \in Seq(T) /\ more \in Seq(T)
        /\ Distinct(rest) /\ Distinct(more)
        /\ \A y : ~(In(y, rest) /\ In(y, more))
    BY <1>4, <1>5, <2>1, <2>2, <2>3
  <2>5. /\ Distinct(rest \o more)
        /\ \A y : In(y, rest \o more) <=> In(y, rest) \/ In(y, more)
    BY ONLY <2>4, ConcatIn
  <2>6. v.queue = rest \o more
    BY <1>2, <2>3
  <2> QED
    BY ONLY <1>5, <2>3, <2>5, <2>6
<1>12. Distinct(v.result)
  BY <1>1, <1>2, <1>3, <1>6, AppendIn
<1>13. ASSUME NEW s, In(s, v.result), In(s, v.queue) PROVE FALSE
  <2>1. ~(s \in freed /\ s = node)
    BY <1>4, <1>10
  <2> QED
    BY <1>3, <1>4, <1>9, <1>10, <1>11, <1>13, <2>1
<1>14. ASSUME NEW s \in Ids(steps)
       PROVE  In(s, v.result) \/ In(s, v.queue) <=> v.in_degree[s] = 0
  <2>1. In(s, v.result) \/ In(s, v.queue)
          <=> In(s, k.result) \/ In(s, k.queue) \/ s \in freed
    BY <1>4, <1>9, <1>11
  <2>2. In(s, k.result) \/ In(s, k.queue) <=> k.in_degree[s] = 0
    BY <1>3
  <2>3. s \in freed <=> Mentions(deps[s], node) > 0 /\ v.in_degree[s] = 0
    BY DEF Freed
  <2>4. k.in_degree[s] = 0 => v.in_degree[s] = 0
    BY <1>2, <1>7
  <2>5. v.in_degree[s] = 0 => k.in_degree[s] = 0 \/ Mentions(deps[s], node) > 0
    BY <1>2, <1>7
  <2> QED
    BY <2>1, <2>2, <2>3, <2>4, <2>5
<1>15. QueuesFree(steps, v)
  BY <1>11, <1>12, <1>13, <1>14 DEF QueuesFree
<1>16. DependenciesStandFirst(deps, v.result)
  <2> DEFINE n == Len(k.result)
  <2>1. /\ n \in Nat /\ Len(v.result) = n + 1 /\ v.result[n + 1] = node
        /\ \A i \in 1..n : v.result[i] = k.result[i]
    BY <1>1, <1>2, AppendIn
  <2>2. \A d \in DOMAIN deps[node] : In(deps[node][d], k.result)
    <3>1. Cardinality(Awaited(deps, node, k.result)) = 0
      BY <1>2, <1>3, <1>4
    <3>2. Awaited(deps, node, k.result) \subseteq DOMAIN deps[node]
      BY DEF Awaited
    <3>3. Awaited(deps, node, k.result) = {}
      BY <1>2, <3>1, <3>2, PlacesAreFinite
    <3> QED
      BY <3>3 DEF Awaited
  <2> SUFFICES ASSUME NEW i \in 1..n + 1, NEW d \in DOMAIN deps[v.result[i]]
               PROVE  \E j \in 1..(i-1) : v.result[j] = deps[v.result[i]][d]
    BY <2>1 DEF DependenciesStandFirst
  <2>3. CASE i = n + 1
    <3>1. PICK j \in 1..n : k.result[j] = deps[node][d]
      BY <2>1, <2>2, <2>3 DEF In
    <3> QED
      BY <2>1, <2>3, <3>1
  <2>4. CASE i \in 1..n
    <3>1. v.result[i] = k.result[i]
      BY <2>1, <2>4
    <3>2. PICK j \in 1..(i-1) : k.result[j] = deps[k.result[i]][d]
      BY <2>4, <3>1 DEF Sorts, DependenciesStandFirst
    <3>3. j \in 1..n
      BY <2>1, <2>4
    <3> QED
      BY <2>1, <3>1, <3>2, <3>3
  <2> QED
    BY <2>1, <2>3, <2>4
<1> QED
  BY <1>2, <1>8, <1>15, <1>16 DEF Sorts

LEMMA IntervalHas ==
  ASSUME NEW n \in Nat PROVE IsFiniteSet(1..n) /\ Cardinality(1..n) = n
  BY FS_Interval

\* A list of steps without repetitions is no longer than the step list, and one
\* as long has every step.
LEMMA NoLongerThanList ==
  ASSUME NEW steps, NEW deps, IsGraph(steps, deps), NEW q \in Seq(Ids(steps)), Distinct(q)
  PROVE  /\ Len(q) \in 0..Len(steps)
         /\ Len(q) = Len(steps) => \A s \in Ids(steps) : In(s, q)
<1> PICK S : S = Ids(steps)
  OBVIOUS
<1> PICK N : N = Len(steps)
  OBVIOUS
<1>1. /\ N \in Nat /\ steps \in Seq(S)
      /\ \A s \in S : \E i \in 1..N : steps[i] = s
  BY GraphIs DEF In
<1>2. IsFiniteSet(S) /\ Cardinality(S) \in Nat /\ Cardinality(S) <= N
  <2> DEFINE f == [i \in 1..N |-> steps[i]]
  <2>1. IsFiniteSet(1..N) /\ Cardinality(1..N) = N
    BY <1>1, IntervalHas
  <2>2. \A i \in 1..N : steps[i] \in S
    BY <1>1
  <2>3. f \in Surjection(1..N, S)
    BY <1>1, <2>2 DEF Surjection
  <2> HIDE DEF f
  <2>4. IsFiniteSet(S) /\ Cardinality(S) <= Cardinality(1..N)
    BY <2>1, <2>3, FS_Surjection
  <2> QED
    BY <2>1, <2>4, FS_CardinalityType
<1>3. ASSUME NEW p \in Seq(S), Distinct(p) PROVE Len(p) \in Nat /\ Len(p) <= N
  <2> DEFINE n == Len(p)
             f == [i \in 1..n |-> p[i]]
  <2>1. n \in Nat /\ \A i \in 1..n : p[i] \in S
    OBVIOUS
  <2>2. IsFiniteSet(1..n) /\ Cardinality(1..n) = n
    BY <2>1, IntervalHas
  <2>3. f \in Injection(1..n, S)
    <3>1. \A i, j \in 1..n : p[i] = p[j] => i = j
      BY <1>3 DEF Distinct
    <3> QED
      BY <2>1, <3>1 DEF Injection, IsInjective
  <2> HIDE DEF f, n
  <2>4. Cardinality(1..n) <= Cardinality(S)
    BY <1>2, <2>3, FS_Injection
  <2>5. n <= N
    BY <1>1, <1>2, <2>1, <2>2, <2>4
  <2> QED
    BY <2>1, <2>5 DEF n
<1>4. q \in Seq(S) /\ Len(q) \in Nat /\ Len(q) <= N
  BY <1>3
<1>5. ASSUME Len(q) = N, NEW s \in S, ~In(s, q) PROVE FALSE
  <2>1. /\ Append(q, s) \in Seq(S) /\ Distinct(Append(q, s))
        /\ Len(Append(q, s)) = N + 1
    BY ONLY <1>4, <1>5, Distinct(q), AppendIn
  <2>2. N + 1 <= N
    BY <1>3, <2>1
  <2> QED
    BY <1>1, <2>2
<1> QED
  BY <1>1, <1>4, <1>5

\* Every turn takes one step until the queue is empty; from then on nothing
\* changes.
LEMMA TurnsSort ==
  ASSUME NEW steps, NEW deps, IsGraph(steps, deps)
  PROVE  LET turn == Turns(steps, deps)
         IN  \A n \in 0..Len(steps) :
               /\ Sorts(steps, deps, turn[n])
               /\ turn[n].queue = << >> \/ Len(turn[n].result) = n
<1> PICK turn : turn = Turns(steps, deps)
  OBVIOUS
<1> PICK N : N = Len(steps)
  OBVIOUS
<1> DEFINE Good(n) == /\ Sorts(steps, deps, turn[n])
                      /\ turn[n].queue = << >> \/ Len(turn[n].result) = n
           A == {n \in Nat : n <= N => Good(n)}
<1>1. /\ N \in Nat /\ turn[0] = KahnStart(steps, deps)
      /\ \A n \in 1..N : turn[n] = IF turn[n-1].queue = << >> THEN turn[n-1]
                                   ELSE KahnVisit(steps, deps, turn[n-1])
      /\ \A n \in 0..N : turn[n] \in KahnState(steps)
  BY GraphIs, TurnsUnfold
<1>2. 0 \in A
  <2>1. KahnStart(steps, deps).result = << >>
    BY DEF KahnStart
  <2>2. Len(turn[0].result) = 0
    BY <1>1, <2>1
  <2>3. Sorts(steps, deps, turn[0])
    BY <1>1, StartSorts
  <2> QED
    BY <2>2, <2>3
<1>3. ASSUME NEW n \in Nat, n \in A PROVE n + 1 \in A
  <2> SUFFICES ASSUME n + 1 <= N PROVE Good(n + 1)
    OBVIOUS
  <2>1. n + 1 \in 1..N /\ (n + 1) - 1 = n /\ n \in 0..N /\ Good(n)
    BY <1>1, <1>3
  <2>2. CASE turn[n].queue = << >>
    <3>1. turn[n + 1] = turn[n]
      BY <1>1, <2>1, <2>2
    <3> QED
      BY <2>1, <2>2, <3>1
  <2>3. CASE turn[n].queue # << >>
    <3> PICK k : k = turn[n]
      OBVIOUS
    <3> PICK v : v = turn[n + 1]
      OBVIOUS
    <3>1. /\ v = KahnVisit(steps, deps, k) /\ Sorts(steps, deps, k)
          /\ k.queue # << >> /\ Len(k.result) = n /\ k \in KahnState(steps)
      BY <1>1, <2>1, <2>3
    <3>2. Sorts(steps, deps, v)
      BY <3>1, VisitSorts
    <3>3. v.result = Append(k.result, Head(k.queue))
      <4>1. IsVisit(steps, deps, k, v)
        BY <3>1, VisitIs
      <4> QED
        BY <4>1 DEF IsVisit
    <3>4. Head(k.queue) \in Ids(steps) /\ k.result \in Seq(Ids(steps))
      <4>1. k.queue \in Seq(Ids(steps)) /\ k.result \in Seq(Ids(steps))
        BY <3>1 DEF KahnState
      <4> QED
        BY <3>1, <4>1, TailIn
    <3>5. Len(v.result) = n + 1
      BY <3>1, <3>3, <3>4
    <3> QED
      BY <3>2, <3>5
  <2> QED
    BY <2>2, <2>3
<1> HIDE DEF A
<1>4. Nat \subseteq A
  BY <1>2, <1>3, AllOf
<1>5. \A n \in 0..N : Good(n)
  BY <1>1, <1>4 DEF A
<1> QED
  BY <1>5

LEMMA TurnsStand ==
  ASSUME NEW steps, NEW deps, IsGraph(steps, deps), NEW m \in 0..Len(steps),
         Turns(steps, deps)[m].queue = << >>
  PROVE  Turns(steps, deps)[Len(steps)] = Turns(steps, deps)[m]
<1> PICK turn : turn = Turns(steps, deps)
  OBVIOUS
<1> PICK N : N = Len(steps)
  OBVIOUS
<1> DEFINE A == {n \in Nat : m + n <= N => turn[m + n] = turn[m]}
<1>1. /\ N \in Nat /\ m \in 0..N
      /\ \A n \in 1..N : turn[n] = IF turn[n-1].queue = << >> THEN turn[n-1]
                                   ELSE KahnVisit(steps, deps, turn[n-1])
  BY GraphIs, TurnsUnfold
<1>2. 0 \in A
  BY <1>1
<1>3. ASSUME NEW n \in Nat, n \in A PROVE n + 1 \in A
  <2> SUFFICES ASSUME m + (n + 1) <= N PROVE turn[m + (n + 1)] = turn[m]
    OBVIOUS
  <2>1. m + (n + 1) \in 1..N /\ (m + (n + 1)) - 1 = m + n /\ turn[m + n] = turn[m]
    BY <1>1, <1>3
  <2> QED
    BY <1>1, <2>1
<1> HIDE DEF A
<1>4. Nat \subseteq A
  BY <1>2, <1>3, AllOf
<1>5. PICK n \in Nat : m + n = N
  <2>1. N - m \in Nat /\ m + (N - m) = N
    BY <1>1
  <2> QED
    BY <2>1
<1>6. m + n <= N
  BY <1>1, <1>5
<1>7. turn[m + n] = turn[m]
  BY <1>4, <1>6 DEF A
<1> QED
  BY <1>5, <1>7

\* _topological_sort lists steps once each and after all their dependencies,
\* whatever the graph; when the graph has no cycle, which is what detect_cycles
\* has made sure of, it lists them all.
THEOREM SortIsTopological ==
  ASSUME NEW steps, NEW deps, IsGraph(steps, deps)
  PROVE  LET order == TopologicalSort(steps, deps)
         IN  /\ order \in Seq(Ids(steps)) /\ Distinct(order)
             /\ DependenciesStandFirst(deps, order)
             /\ Acyclic(steps, deps) => \A s \in Ids(steps) : In(s, order)
<1> PICK N : N = Len(steps)
  OBVIOUS
<1> PICK k : k = Turns(steps, deps)[N]
  OBVIOUS
<1> PICK order : order = TopologicalSort(steps, deps)
  OBVIOUS
<1>1. N \in Nat /\ order = k.result
  BY GraphIs DEF TopologicalSort
<1>2. Sorts(steps, deps, k) /\ (k.queue = << >> \/ Len(k.result) = N)
  BY <1>1, TurnsSort
<1>3. /\ order \in Seq(Ids(steps)) /\ Distinct(order)
      /\ DependenciesStandFirst(deps, order)
  BY <1>1, <1>2 DEF Sorts, KahnState, QueuesFree
<1>4. CASE Len(order) = N
  <2>1. \A s \in Ids(steps) : In(s, order)
    BY <1>3, <1>4, NoLongerThanList
  <2> QED
    BY <1>3, <2>1
<1>5. ASSUME k.queue = << >>, Acyclic(steps, deps), NEW t \in Ids(steps), ~In(t, order)
      PROVE  FALSE
  <2> DEFINE U == {s \in Ids(steps) : ~In(s, order)}
  <2>1. U \in SUBSET Ids(steps) /\ U # {}
    BY <1>5
  <2>2. PICK s \in U : \A i \in DOMAIN deps[s] : deps[s][i] \notin U
    BY <1>5, <2>1 DEF Acyclic
  <2>3. \A i \in DOMAIN deps[s] : In(deps[s][i], order)
    BY <2>2, GraphIs
  <2>4. Awaited(deps, s, order) = {}
    BY <2>3 DEF Awaited
  <2>5. k.in_degree[s] = 0
    BY <1>1, <1>2, <2>4, FS_EmptySet DEF Sorts, CountsAwaited
  <2>6. In(s, k.queue)
    BY <1>1, <1>2, <2>5 DEF Sorts, QueuesFree
  <2> QED
    BY <1>5, <2>6 DEF In
<1> QED
  BY <1>1, <1>2, <1>3, <1>4, <1>5
=============================================================================

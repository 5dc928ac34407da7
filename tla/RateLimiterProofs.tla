------------------------- MODULE RateLimiterProofs --------------------------
(***************************************************************************)
(* Proofs about RateLimiter, for any number of requests and counters, any  *)
(* limits, any length of the window and any count of arrivals.             *)
(***************************************************************************)
EXTENDS RateLimiter, WellFoundedInduction, TLAPS

USE RateLimiterAssumption DEF CountersInv, Counter, NoExpiry, Absent, Idle, Go, End

LEMMA InitHolds == Init => CountersInv
  BY DEF Init, CountersOK, RequestsOK, ExpiryIsOwed, ZeroIsAbsent

LEMMA ArriveKeeps ==
  ASSUME CountersInv, NEW r \in Request, NEW k \in RedisKey, Arrive(r, k)
  PROVE  CountersInv'
<1>1. CountersOK' /\ RequestsOK'
  BY DEF CountersOK, RequestsOK, Arrive
<1>2. ZeroIsAbsent' /\ ExpiryIsOwed'
  BY DEF RequestsOK, ZeroIsAbsent, ExpiryIsOwed, Arrive
<1> QED
  BY <1>1, <1>2

\* INCR keeps the expiry of its counter, and adds one.
LEMMA IncrFacts ==
  ASSUME CountersOK, NEW k \in RedisKey, redis' = Incr(k)
  PROVE  /\ CountersOK'
         /\ redis'[k].count = redis[k].count + 1
         /\ \A l \in RedisKey : /\ redis'[l].ttl = redis[l].ttl
                                /\ redis[l].count > 0 => redis'[l].count > 0
                                /\ redis'[l].count = 0 => redis[l].count = 0
  BY DEF CountersOK, Incr

\* Only the reply 1 obliges to set the expiry, and nobody else is obliged then.
LEMMA SendIncrKeeps ==
  ASSUME CountersInv, NEW r \in Request, SendIncr(r)
  PROVE  CountersInv'
<1> DEFINE k == req[r].key
<1>1. k \in RedisKey /\ redis' = Incr(k)
  BY DEF RequestsOK, SendIncr, Count
<1>2. CountersOK'
  BY <1>1, IncrFacts
<1>3. RequestsOK'
  BY <1>1 DEF CountersOK, RequestsOK, SendIncr
<1>4. \A q \in Request : req'[q].key = req[q].key
      /\ (q # r => req'[q].pc = req[q].pc)
  BY DEF RequestsOK, SendIncr
<1>5. req'[r].pc = "expire" => redis[k].count = 0
  BY DEF RequestsOK, SendIncr
<1>6. ExpiryIsOwed'
  <2> SUFFICES ASSUME NEW q \in Request, req'[q].pc = "expire"
               PROVE  /\ redis'[req'[q].key].count > 0
                      /\ redis'[req'[q].key].ttl = NoExpiry
                      /\ \A p \in Request : req'[p].pc = "expire"
                           /\ req'[p].key = req'[q].key => p = q
    BY DEF ExpiryIsOwed
  <2>1. CASE q = r
    <3>1. redis[k].count = 0
      BY <2>1, <1>5
    <3>2. \A p \in Request : req[p].pc = "expire" => req[p].key # k
      BY <3>1, <1>1 DEF ExpiryIsOwed, CountersOK
    <3> QED
      BY <2>1, <3>1, <3>2, <1>1, <1>4, IncrFacts DEF ZeroIsAbsent
  <2>2. CASE q # r
    <3>1. req[q].pc = "expire" /\ req[q].key \in RedisKey
      BY <2>2, <1>4 DEF RequestsOK
    <3>2. redis[req[q].key].count > 0 /\ redis[req[q].key].ttl = NoExpiry
      BY <3>1 DEF ExpiryIsOwed
    <3>3. req'[r].pc = "expire" => k # req[q].key
      BY <3>2, <1>5
    <3> QED
      BY <2>2, <3>1, <3>2, <3>3, <1>1, <1>4, IncrFacts DEF ExpiryIsOwed
  <2> QED
    BY <2>1, <2>2
<1>7. ZeroIsAbsent'
  BY <1>1, IncrFacts DEF ZeroIsAbsent
<1> QED
  BY <1>2, <1>3, <1>6, <1>7

\* The one who owed the expiry sets it; nobody else owed it.
LEMMA SendExpireKeeps ==
  ASSUME CountersInv, NEW r \in Request, req[r].pc = "expire", redis' = Expire(req[r].key),
         NEW pc \in {"ttl", "handler"}, Go(r, pc)
  PROVE  CountersInv'
<1>1. CountersOK' /\ RequestsOK'
  BY DEF CountersOK, RequestsOK, Expire
<1>2. ZeroIsAbsent'
  BY DEF ZeroIsAbsent, CountersOK, RequestsOK, Expire
<1>3. ExpiryIsOwed'
  BY DEF ExpiryIsOwed, CountersOK, RequestsOK, Expire
<1> QED
  BY <1>1, <1>2, <1>3

\* A request that leaves the counters alone and owes nothing afterwards.
LEMMA LetGoKeeps ==
  ASSUME CountersInv, NEW r \in Request, UNCHANGED redis,
         End(r) \/ (req[r].pc # "idle" /\ Go(r, "handler"))
  PROVE  CountersInv'
<1>1. CountersOK' /\ RequestsOK'
  <2>1. CASE End(r)
    BY <2>1 DEF CountersOK, RequestsOK
  <2>2. CASE req[r].pc # "idle" /\ Go(r, "handler")
    BY <2>2 DEF CountersOK, RequestsOK
  <2> QED
    BY <2>1, <2>2
<1>2. ZeroIsAbsent' /\ ExpiryIsOwed'
  BY DEF ZeroIsAbsent, RequestsOK, ExpiryIsOwed
<1> QED
  BY <1>1, <1>2

\* A counter that was counted up and whose request then failed: if it was the
\* first, nobody owes its expiry.
LEMMA RedisFailsKeeps ==
  ASSUME CountersInv, NEW r \in Request, RedisFails(r)
  PROVE  CountersInv'
<1> DEFINE k == req[r].key
<1>1. CASE req[r].pc = "incr" /\ redis' = Incr(k)
  <2>1. k \in RedisKey
    BY <1>1 DEF RequestsOK
  <2>2. CountersOK' /\ ZeroIsAbsent'
    BY <1>1, <2>1, IncrFacts DEF ZeroIsAbsent
  <2>3. RequestsOK'
    BY <1>1 DEF RequestsOK, RedisFails
  <2>4. \A q \in Request : req'[q].key = req[q].key
        /\ (req'[q].pc = "expire" => req[q].pc = "expire")
    BY DEF RequestsOK, RedisFails
  <2>5. \A q \in Request : req[q].pc = "expire" => req[q].key \in RedisKey
    BY DEF RequestsOK
  <2>6. ExpiryIsOwed'
    BY <1>1, <2>1, <2>4, <2>5, IncrFacts DEF ExpiryIsOwed
  <2> QED
    BY <2>2, <2>3, <2>6
<1>2. CASE req[r].pc = "expire" /\ redis' = Expire(k)
  BY <1>2, SendExpireKeeps DEF RedisFails
<1>3. CASE req[r].pc # "idle" /\ redis' = redis
  BY <1>3, LetGoKeeps DEF RedisFails
<1> QED
  BY <1>1, <1>2, <1>3 DEF RedisFails

LEMMA CrashKeeps ==
  ASSUME CountersInv, Crash
  PROVE  CountersInv'
  BY DEF Crash, CountersOK, RequestsOK, ZeroIsAbsent, ExpiryIsOwed

\* Time takes away expired counters, and those somebody owes an expiry never
\* expire.
LEMMA TickKeeps ==
  ASSUME CountersInv, Tick
  PROVE  CountersInv'
<1>1. CountersOK' /\ RequestsOK' /\ ZeroIsAbsent'
  BY DEF Tick, Elapsed, CountersOK, RequestsOK, ZeroIsAbsent
<1>2. \A k \in RedisKey : redis[k].ttl = NoExpiry => redis'[k] = redis[k]
  BY DEF Tick, Elapsed, CountersOK
<1>3. ExpiryIsOwed'
  BY <1>2 DEF Tick, RequestsOK, ExpiryIsOwed
<1> QED
  BY <1>1, <1>3

LEMMA NextKeeps == CountersInv /\ [Next]_vars => CountersInv'
<1> SUFFICES ASSUME CountersInv, [Next]_vars PROVE CountersInv'
  OBVIOUS
<1>1. ASSUME NEW r \in Request, SendExpire(r) PROVE CountersInv'
  BY <1>1, SendExpireKeeps DEF SendExpire
<1>2. ASSUME NEW r \in Request, SendTtl(r) \/ Respond(r) PROVE CountersInv'
  BY <1>2, LetGoKeeps DEF SendTtl, Respond
<1>3. CASE UNCHANGED vars
  BY <1>3 DEF vars, CountersOK, RequestsOK, ZeroIsAbsent, ExpiryIsOwed
<1> QED
  BY <1>1, <1>2, <1>3, ArriveKeeps, SendIncrKeeps, RedisFailsKeeps, CrashKeeps, TickKeeps
  DEF Next, Handle

THEOREM CountersInvariance == Spec => []CountersInv
  BY InitHolds, NextKeeps, PTL DEF Spec

\* No request makes a window longer that has begun, however late its EXPIRE
\* comes: X-RateLimit-Reset and Retry-After stay true.
THEOREM WindowsStand == Spec => WindowsAreNotExtended
<1> DEFINE Stands == \A k \in RedisKey :
                       redis[k].ttl # NoExpiry => redis'[k].ttl <= redis[k].ttl
<1>1. ASSUME CountersInv, [Next]_vars PROVE [Stands]_vars
  <2>1. ASSUME NEW r \in Request, NEW k \in RedisKey, redis' = Incr(k) PROVE Stands
    BY <1>1, <2>1, IncrFacts DEF CountersOK
  <2>2. ASSUME NEW r \in Request, req[r].pc = "expire", redis' = Expire(req[r].key)
        PROVE  Stands
    BY <1>1, <2>2 DEF CountersOK, RequestsOK, ExpiryIsOwed, Expire
  <2>3. ASSUME UNCHANGED redis PROVE Stands
    BY <1>1, <2>3 DEF CountersOK
  <2>4. ASSUME Tick PROVE Stands
    BY <1>1, <2>4 DEF Tick, Elapsed, CountersOK
  <2>5. ASSUME NEW r \in Request, SendIncr(r) PROVE Stands
    BY <1>1, <2>1, <2>5 DEF SendIncr, Count, RequestsOK
  <2>6. ASSUME NEW r \in Request, RedisFails(r) PROVE Stands
    BY <1>1, <2>1, <2>2, <2>3, <2>6 DEF RedisFails, RequestsOK
  <2>7. ASSUME NEW r \in Request, SendExpire(r) PROVE Stands
    BY <2>2, <2>7 DEF SendExpire
  <2>8. ASSUME NEW r \in Request, NEW k \in RedisKey, Arrive(r, k) PROVE Stands
    BY <2>3, <2>8 DEF Arrive
  <2>9. ASSUME NEW r \in Request, SendTtl(r) \/ Respond(r) PROVE Stands
    BY <2>3, <2>9 DEF SendTtl, Respond
  <2>10. CASE Crash
    BY <2>3, <2>10 DEF Crash
  <2> QED
    BY <1>1, <2>4, <2>5, <2>6, <2>7, <2>8, <2>9, <2>10 DEF Next, Handle
<1> QED
  BY <1>1, CountersInvariance, PTL DEF Spec, WindowsAreNotExtended
-----------------------------------------------------------------------------
(* The record of what passed *)

\* Every set of natural numbers has a least element.
LEMMA LeastOf ==
  ASSUME NEW T, T \subseteq Nat, T # {}
  PROVE  \E x \in T : \A y \in T : x <= y
<1> DEFINE R == {ss \in Nat \X Nat : ss[1] < ss[2]}
<1>1. IsWellFoundedOn(R, Nat)
  BY NatLessThanWellFounded, Zenon DEF OpToRel
<1>2. \A x, y \in Nat : y < x => <<y, x>> \in R
  OBVIOUS
<1> HIDE DEF R
<1>3. \E x \in T : \A y \in T : ~ (<<y, x>> \in R)
  BY <1>1, WFMin
<1>4. PICK x \in T : \A y \in T : ~ (<<y, x>> \in R)
  BY <1>3
<1>5. \A y \in T : ~ (y < x)
  BY <1>2, <1>4, Zenon
<1>6. \A y \in T : x <= y
  BY <1>5
<1> QED
  BY <1>6

\* What a tick leaves of a record: the end of it from the first that is not past
\* the window, which is there because the oldest stand first.
LEMMA WithinFits ==
  ASSUME NEW ages \in Seq(Nat), OldestFirst(ages)
  PROVE  \E gone \in 0..Len(ages) :
           /\ Within(ages) \in Seq(Age) /\ OldestFirst(Within(ages))
           /\ Len(Within(ages)) = Len(ages) - gone
           /\ \A i \in 1..gone : ages[i] >= Window
           /\ \A i \in 1..Len(ages) - gone : Within(ages)[i] = ages[i + gone]
<1> DEFINE Cuts(n) == \A i \in 1..Len(ages) : ages[i] \in Age <=> i >= n
           T == {n \in 1..Len(ages) + 1 : \A i \in 1..Len(ages) : i >= n => ages[i] \in Age}
           first == CHOOSE n \in 1..Len(ages) + 1 : Cuts(n)
           left == SubSeq(ages, first, Len(ages))
<1>0. Len(ages) \in Nat /\ \A i \in 1..Len(ages) : ages[i] \in Nat
  OBVIOUS
<1>1. \E n \in 1..Len(ages) + 1 : Cuts(n)
  <2>1. T \subseteq Nat /\ T # {}
    <3>1. Len(ages) + 1 \in T
      BY <1>0
    <3> QED
      BY <1>0, <3>1
  <2>2. PICK n \in T : \A m \in T : n <= m
    BY <2>1, LeastOf
  <2>3. n \in 1..Len(ages) + 1 /\ \A i \in 1..Len(ages) : i >= n => ages[i] \in Age
    BY <2>2
  <2>4. ASSUME NEW i \in 1..Len(ages), i < n PROVE ages[i] \notin Age
    <3>1. n - 1 \notin T /\ n - 1 \in 1..Len(ages)
      <4>1. n - 1 \in 1..Len(ages)
        BY <1>0, <2>3, <2>4
      <4>2. n - 1 \in T => n <= n - 1
        BY <2>2
      <4> QED
        BY <2>3, <4>1, <4>2
    <3>2. ages[n - 1] \notin Age
      <4>1. PICK j \in 1..Len(ages) : j >= n - 1 /\ ages[j] \notin Age
        BY <1>0, <3>1
      <4> QED
        BY <1>0, <2>3, <3>1, <4>1
    <3>3. i <= n - 1 /\ ages[i] >= ages[n - 1]
      BY <1>0, <2>3, <2>4, <3>1 DEF OldestFirst
    <3> QED
      BY <1>0, <3>1, <3>2, <3>3 DEF Age
  <2>5. Cuts(n)
    BY <1>0, <2>3, <2>4
  <2> QED
    BY <2>3, <2>5
<1>2. first \in 1..Len(ages) + 1 /\ Cuts(first)
  BY <1>1
<1>3. Within(ages) = left
  BY DEF Within
<1> HIDE DEF first
<1>4. first - 1 \in 0..Len(ages)
  BY <1>0, <1>2
<1>5. /\ left \in Seq(Age) /\ Len(left) = Len(ages) + 1 - first
      /\ \A i \in 1..Len(ages) + 1 - first : left[i] = ages[i + first - 1]
  BY <1>0, <1>2
<1> HIDE DEF left
<1>6. OldestFirst(left)
  <2> SUFFICES ASSUME NEW i \in 1..Len(left), NEW j \in 1..Len(left), i <= j
               PROVE  left[i] >= left[j]
    BY DEF OldestFirst
  <2>1. /\ i + first - 1 \in 1..Len(ages) /\ j + first - 1 \in 1..Len(ages)
        /\ i + first - 1 <= j + first - 1
    BY <1>0, <1>2, <1>5
  <2>2. ages[i + first - 1] >= ages[j + first - 1]
    BY <2>1 DEF OldestFirst
  <2> QED
    BY <1>5, <2>2
<1>7. \A i \in 1..first - 1 : ages[i] >= Window
  BY <1>0, <1>2 DEF Age
<1>8. /\ Len(left) = Len(ages) - (first - 1)
      /\ \A i \in 1..Len(ages) - (first - 1) : left[i] = ages[i + (first - 1)]
  BY <1>0, <1>2, <1>5
<1> QED
  BY <1>3, <1>4, <1>5, <1>6, <1>7, <1>8

\* The same of a record that gets older.
LEMMA TickFits ==
  ASSUME NEW ages \in Seq(Age), OldestFirst(ages)
  PROVE  LET left == Within(Older(ages))
         IN  \E gone \in 0..Len(ages) :
               /\ left \in Seq(Age) /\ OldestFirst(left)
               /\ Len(left) = Len(ages) - gone
               /\ \A i \in 1..gone : ages[i] = Window - 1
               /\ \A i \in 1..Len(ages) - gone : left[i] = ages[i + gone] + 1
<1> DEFINE older == Older(ages)
           left == Within(older)
<1>1. Len(ages) \in Nat /\ \A i \in 1..Len(ages) : ages[i] \in Age
  OBVIOUS
<1>2. /\ older \in Seq(Nat) /\ Len(older) = Len(ages)
      /\ \A i \in 1..Len(ages) : older[i] = ages[i] + 1
  BY <1>1 DEF Older, Age
<1> HIDE DEF older
<1>3. OldestFirst(older)
  BY <1>1, <1>2 DEF OldestFirst, Age
<1>4. PICK gone \in 0..Len(older) :
        /\ left \in Seq(Age) /\ OldestFirst(left)
        /\ Len(left) = Len(older) - gone
        /\ \A i \in 1..gone : older[i] >= Window
        /\ \A i \in 1..Len(older) - gone : left[i] = older[i + gone]
  BY <1>2, <1>3, WithinFits
<1> HIDE DEF left
<1>5. ASSUME NEW i \in 1..gone PROVE ages[i] = Window - 1
  <2>1. i \in 1..Len(ages)
    BY <1>1, <1>2
  <2>2. older[i] >= Window /\ older[i] = ages[i] + 1 /\ ages[i] \in Age
    BY <1>1, <1>2, <1>4, <2>1
  <2> QED
    BY <2>2 DEF Age
<1>6. \A i \in 1..Len(ages) - gone : left[i] = ages[i + gone] + 1
  BY <1>1, <1>2, <1>4
<1> QED
  BY <1>2, <1>4, <1>5, <1>6 DEF older, left

\* One that passes now is the youngest.
LEMMA AppendFits ==
  ASSUME NEW ages \in Seq(Age), OldestFirst(ages)
  PROVE  /\ Append(ages, 0) \in Seq(Age) /\ OldestFirst(Append(ages, 0))
         /\ Len(Append(ages, 0)) = Len(ages) + 1
         /\ \A i \in 1..Len(ages) : Append(ages, 0)[i] = ages[i]
         /\ Append(ages, 0)[Len(ages) + 1] = 0
<1> DEFINE new == Append(ages, 0)
<1>1. Len(ages) \in Nat /\ 0 \in Age /\ \A i \in 1..Len(ages) : ages[i] \in Age
  BY DEF Age
<1>2. /\ new \in Seq(Age) /\ Len(new) = Len(ages) + 1 /\ new[Len(ages) + 1] = 0
      /\ \A i \in 1..Len(ages) : new[i] = ages[i]
  BY <1>1
<1> HIDE DEF new
<1>3. OldestFirst(new)
  <2> SUFFICES ASSUME NEW i \in 1..Len(new), NEW j \in 1..Len(new), i <= j
               PROVE  new[i] >= new[j]
    BY DEF OldestFirst
  <2>1. CASE j <= Len(ages)
    BY <1>1, <1>2, <2>1 DEF OldestFirst
  <2>2. CASE j = Len(ages) + 1
    <3>1. new[i] \in Age /\ new[j] = 0
      BY <1>2, <2>2
    <3> QED
      BY <3>1 DEF Age
  <2> QED
    BY <1>1, <1>2, <2>1, <2>2
<1> QED
  BY <1>2, <1>3 DEF new
-----------------------------------------------------------------------------
(* What a counter lets through *)

\* A counter that goes up or gets its expiry: nothing has passed.
LEMMA SplitStays ==
  ASSUME NEW ages \in Seq(Age), NEW c \in Counter, NEW d \in Counter,
         NEW limit \in Nat \ {0}, Recorded(ages, c, limit),
         d.count \in {c.count, c.count + 1}, d.ttl \in {c.ttl, Window}
  PROVE  Recorded(ages, d, limit)
<1>1. /\ c.count \in Nat /\ c.ttl \in {NoExpiry} \cup 1..Window
      /\ d.count \in Nat /\ d.ttl \in {NoExpiry} \cup 1..Window
  BY DEF Counter
<1>2. Len(ages) \in Nat /\ \A i \in 1..Len(ages) : ages[i] \in Nat
  BY DEF Age
<1>3. PICK before \in 0..Len(ages) : Splits(ages, c, limit, before)
  BY DEF Recorded
<1> DEFINE own == Len(ages) - before
<1>4. before < limit /\ own <= c.count /\ own <= limit
  BY <1>3 DEF Splits
<1>5. ASSUME NEW i \in 1..Len(ages), c.ttl # NoExpiry => ages[i] >= Window - c.ttl
      PROVE  d.ttl # NoExpiry => ages[i] >= Window - d.ttl
  <2>1. ages[i] >= Window - Window
    BY <1>2
  <2>2. CASE d.ttl = c.ttl
    BY <1>5, <2>2
  <2>3. CASE d.ttl = Window
    BY <2>1, <2>3
  <2> QED
    BY <2>2, <2>3
<1>6. ASSUME NEW i \in 1..before
      PROVE  d.ttl # NoExpiry => ages[i] >= Window - d.ttl
  <2>1. i \in 1..Len(ages)
    BY <1>2
  <2>2. c.ttl # NoExpiry => ages[i] >= Window - c.ttl
    BY <1>3 DEF Splits
  <2> QED
    BY <1>5, <2>1, <2>2
<1>7. ASSUME own > 0, own \in {d.count, limit}
      PROVE  d.ttl # NoExpiry => ages[before + 1] >= Window - d.ttl
  <2>1. own \in {c.count, limit} /\ before + 1 \in 1..Len(ages)
    BY <1>1, <1>2, <1>4, <1>7
  <2>2. c.ttl # NoExpiry => ages[before + 1] >= Window - c.ttl
    BY <1>3, <1>7, <2>1 DEF Splits
  <2> QED
    BY <1>5, <2>1, <2>2
<1>8. own <= d.count
  BY <1>1, <1>2, <1>4
<1>9. Splits(ages, d, limit, before)
  BY <1>4, <1>6, <1>7, <1>8 DEF Splits
<1> QED
  BY <1>9 DEF Recorded

\* The first that passes under a counter is the one that began it: either all
\* that the counter counted are on record, or one is missing for good and the
\* counter will not let through as many as it could.
LEMMA SplitTakesOne ==
  ASSUME NEW ages \in Seq(Age), NEW c \in Counter, NEW d \in Counter,
         NEW limit \in Nat \ {0}, Recorded(ages, c, limit),
         c.count = 0 => c.ttl = NoExpiry,
         c.count + 1 <= limit, d.count = c.count + 1, d.ttl = c.ttl
  PROVE  Recorded(Append(ages, 0), d, limit)
<1> DEFINE new == Append(ages, 0)
<1>1. c.count \in Nat /\ c.ttl \in {NoExpiry} \cup 1..Window
  BY DEF Counter
<1>2. Len(ages) \in Nat /\ \A i \in 1..Len(ages) : ages[i] \in Nat
  BY DEF Age
<1>3. PICK before \in 0..Len(ages) : Splits(ages, c, limit, before)
  BY DEF Recorded
<1> DEFINE own == Len(ages) - before
<1>4. before < limit /\ own <= c.count /\ own <= limit
  BY <1>3 DEF Splits
<1>5. /\ OldestFirst(new) /\ Len(new) = Len(ages) + 1
      /\ \A i \in 1..Len(ages) : new[i] = ages[i]
  BY AppendFits DEF Recorded
<1> HIDE DEF new
<1>6. Len(new) - before <= d.count /\ Len(new) - before <= limit
  BY <1>1, <1>2, <1>4, <1>5
<1>7. ASSUME NEW i \in 1..before, d.ttl # NoExpiry
      PROVE  new[i] >= Window - d.ttl
  <2>1. i \in 1..Len(ages) /\ ages[i] >= Window - c.ttl
    BY <1>2, <1>3, <1>7 DEF Splits
  <2> QED
    BY <1>5, <2>1
<1>8. ASSUME Len(new) - before \in {d.count, limit}, d.ttl # NoExpiry
      PROVE  new[before + 1] >= Window - d.ttl
  <2>1. c.count > 0
    BY <1>1, <1>8
  <2>2. own = c.count /\ own > 0 /\ before + 1 \in 1..Len(ages)
    <3>1. Len(new) - before = own + 1
      BY <1>2, <1>5
    <3>2. own + 1 >= c.count + 1
      BY <1>1, <1>2, <1>8, <3>1
    <3>3. own = c.count
      <4>1. own \in Int /\ c.count \in Int /\ own <= c.count
        BY <1>1, <1>2, <1>4
      <4> HIDE DEF own
      <4> QED
        BY ONLY <3>2, <4>1
    <3> QED
      BY <1>1, <1>2, <2>1, <3>3
  <2>3. ages[before + 1] >= Window - c.ttl
    BY <1>3, <1>8, <2>2 DEF Splits
  <2> QED
    BY <1>5, <2>2, <2>3
<1>9. Splits(new, d, limit, before) /\ before \in 0..Len(new)
  BY <1>2, <1>4, <1>5, <1>6, <1>7, <1>8 DEF Splits
<1> QED
  BY <1>5, <1>9 DEF Recorded, new

\* As a counter ends, the first it let through goes off the record, and whatever
\* was there before it; what stays came before the next counter.
LEMMA SplitEnds ==
  ASSUME NEW ages \in Seq(Age), NEW c \in Counter, NEW limit \in Nat \ {0},
         Recorded(ages, c, limit), c.ttl = 1
  PROVE  /\ Within(Older(ages)) \in Seq(Age)
         /\ Recorded(Within(Older(ages)), Absent, limit)
<1> DEFINE new == Within(Older(ages))
<1>1. /\ Len(ages) \in Nat /\ \A i \in 1..Len(ages) : ages[i] \in Nat
      /\ c.count \in Nat
  BY DEF Age, Counter
<1>2. PICK gone \in 0..Len(ages) :
        /\ new \in Seq(Age) /\ OldestFirst(new)
        /\ Len(new) = Len(ages) - gone
        /\ \A i \in 1..gone : ages[i] = Window - 1
        /\ \A i \in 1..Len(ages) - gone : new[i] = ages[i + gone] + 1
  BY TickFits DEF Recorded
<1>3. PICK before \in 0..Len(ages) : Splits(ages, c, limit, before)
  BY DEF Recorded
<1> DEFINE own == Len(ages) - before
<1>4. before < limit /\ own <= c.count /\ own <= limit
  BY <1>3 DEF Splits
<1> HIDE DEF new
\* Nothing that the window has passed over stays.
<1>5. ASSUME NEW i \in 1..Len(ages), ages[i] >= Window - 1 PROVE i <= gone
  <2> SUFFICES ASSUME i > gone PROVE FALSE
    BY <1>1, <1>2
  <2>1. i - gone \in 1..Len(new) /\ (i - gone) + gone = i
    BY <1>1, <1>2
  <2>2. new[i - gone] = ages[i] + 1 /\ new[i - gone] \in Age
    BY <1>2, <2>1
  <2> QED
    BY <1>1, <1>5, <2>2 DEF Age
<1>6. before <= gone
  <2> SUFFICES ASSUME before > 0 PROVE before <= gone
    BY <1>2
  <2>1. before \in 1..before /\ before \in 1..Len(ages)
    BY <1>1
  <2>2. ages[before] >= Window - 1
    BY <1>3, <2>1 DEF Splits
  <2> QED
    BY <1>5, <2>1, <2>2
<1>7. Len(new) < limit
  <2>1. CASE own = limit
    <3>1. own > 0 /\ before + 1 \in 1..Len(ages)
      BY <1>1, <2>1
    <3>2. ages[before + 1] >= Window - 1
      BY <1>3, <2>1, <3>1 DEF Splits
    <3>3. before + 1 <= gone
      BY <1>5, <3>1, <3>2
    <3> QED
      BY <1>1, <1>2, <1>4, <3>3
  <2>2. CASE own < limit
    BY <1>1, <1>2, <1>6, <2>2
  <2> QED
    BY <1>1, <1>4, <2>1, <2>2
<1>8. Splits(new, Absent, limit, Len(new))
  <2>1. Len(new) \in Nat /\ Len(new) - Len(new) = 0
    BY <1>2
  <2> QED
    BY <1>7, <2>1 DEF Splits
<1>9. Len(new) \in 0..Len(new)
  BY <1>2
<1> QED
  BY <1>2, <1>8, <1>9 DEF Recorded, new

\* A tick that ends no counter takes from the record what it takes, of what was
\* there before the counter first.
LEMMA SplitAges ==
  ASSUME NEW ages \in Seq(Age), NEW c \in Counter, NEW d \in Counter,
         NEW limit \in Nat \ {0}, Recorded(ages, c, limit),
         d.count = c.count, d.ttl = NoExpiry <=> c.ttl = NoExpiry,
         c.ttl # NoExpiry => d.ttl = c.ttl - 1
  PROVE  /\ Within(Older(ages)) \in Seq(Age)
         /\ Recorded(Within(Older(ages)), d, limit)
<1> DEFINE new == Within(Older(ages))
<1>1. /\ Len(ages) \in Nat /\ \A i \in 1..Len(ages) : ages[i] \in Nat
      /\ c.count \in Nat
      /\ c.ttl \in {NoExpiry} \cup 1..Window
  BY DEF Age, Counter
<1>2. PICK gone \in 0..Len(ages) :
        /\ new \in Seq(Age) /\ OldestFirst(new)
        /\ Len(new) = Len(ages) - gone
        /\ \A i \in 1..gone : ages[i] = Window - 1
        /\ \A i \in 1..Len(ages) - gone : new[i] = ages[i + gone] + 1
  BY TickFits DEF Recorded
<1>3. PICK before \in 0..Len(ages) : Splits(ages, c, limit, before)
  BY DEF Recorded
<1> DEFINE own == Len(ages) - before
<1>4. before < limit /\ own <= c.count /\ own <= limit
  BY <1>3 DEF Splits
<1> HIDE DEF new
<1>5. ASSUME NEW i \in 1..Len(new), c.ttl # NoExpiry,
             ages[i + gone] >= Window - c.ttl
      PROVE  new[i] >= Window - d.ttl
  <2>1. new[i] = ages[i + gone] + 1 /\ i + gone \in 1..Len(ages)
    BY <1>1, <1>2
  <2>2. ages[i + gone] \in Int /\ c.ttl \in Int /\ d.ttl = c.ttl - 1
    BY <1>1, <1>5, <2>1
  <2>3. ages[i + gone] + 1 >= Window - (c.ttl - 1)
    BY <1>5, <2>2
  <2> QED
    BY <2>1, <2>2, <2>3
<1>6. CASE before <= gone
  <2>1. Len(new) <= own /\ 0 \in 0..Len(new)
    BY <1>1, <1>2, <1>6
  <2>2. ASSUME Len(new) > 0, Len(new) \in {c.count, limit}, d.ttl # NoExpiry
        PROVE  new[1] >= Window - d.ttl
    <3>1. Len(new) = own
      <4>1. own <= Len(new)
        BY <1>4, <2>2
      <4>2. own \in Int /\ Len(new) \in Int
        BY <1>1, <1>2
      <4> HIDE DEF own
      <4> QED
        BY ONLY <2>1, <4>1, <4>2
    <3>2. before = gone
      BY <1>1, <1>2, <3>1
    <3>3. own > 0 /\ own \in {c.count, limit} /\ 1 \in 1..Len(new) /\ 1 + gone = before + 1
      <4>1. Len(new) \in Nat
        BY <1>2
      <4> QED
        BY <2>2, <3>1, <3>2, <4>1
    <3>4. ages[before + 1] >= Window - c.ttl
      BY <1>3, <2>2, <3>3 DEF Splits
    <3> QED
      BY <1>5, <2>2, <3>3, <3>4
  <2>3. Splits(new, d, limit, 0)
    <3>1. Len(new) - 0 = Len(new) /\ 0 + 1 = 1 /\ 1..0 = {} /\ 0 < limit
      BY <1>2
    <3>2. Len(new) <= d.count /\ Len(new) <= limit
      BY <1>1, <1>2, <1>4, <2>1
    <3> QED
      BY <2>2, <3>1, <3>2 DEF Splits
  <2> QED
    BY <1>2, <2>1, <2>3 DEF Recorded, new
<1>7. CASE before > gone
  <2> DEFINE after == before - gone
  <2>1. /\ after \in 0..Len(new) /\ after < limit
        /\ Len(new) - after = own /\ after + gone = before
    BY <1>1, <1>2, <1>4, <1>7
  <2> HIDE DEF after
  <2>2. ASSUME NEW i \in 1..after, d.ttl # NoExpiry PROVE new[i] >= Window - d.ttl
    <3>1. i \in 1..Len(new) /\ i + gone \in 1..before
      BY <1>1, <1>2, <2>1
    <3>2. ages[i + gone] >= Window - c.ttl
      BY <1>3, <2>2, <3>1 DEF Splits
    <3> QED
      BY <1>5, <2>2, <3>1, <3>2
  <2>3. ASSUME own > 0, own \in {c.count, limit}, d.ttl # NoExpiry
        PROVE  new[after + 1] >= Window - d.ttl
    <3>1. ages[before + 1] >= Window - c.ttl
      BY <1>3, <2>3 DEF Splits
    <3>2. after + 1 \in 1..Len(new) /\ (after + 1) + gone = before + 1
      BY <1>1, <1>2, <2>1, <2>3
    <3> QED
      BY <1>5, <2>3, <3>1, <3>2
  <2>4. Splits(new, d, limit, after)
    BY <1>4, <2>1, <2>2, <2>3 DEF Splits
  <2> QED
    BY <1>2, <2>1, <2>4 DEF Recorded, new
<1> QED
  BY <1>1, <1>6, <1>7
-----------------------------------------------------------------------------
(* The steps *)

RecordInv == recent \in [RedisKey -> Seq(Age)] /\ RecentInv

\* The other record: what a failing command lets through.
FailureInv == /\ opened \in [RedisKey -> Seq(Age)] /\ failures \in [RedisKey -> Nat]
              /\ OpenedInv

LEMMA InitRecord == Init => RecordInv
<1> SUFFICES ASSUME Init, NEW k \in RedisKey
             PROVE  recent[k] \in Seq(Age) /\ Recorded(recent[k], redis[k], Limit[k])
  BY DEF Init, RecordInv, RecentInv
<1>1. recent[k] = << >> /\ redis[k] = Absent
  BY DEF Init
<1>2. Splits(<< >>, Absent, Limit[k], 0)
  BY DEF Splits
<1>3. OldestFirst(<< >>)
  BY DEF OldestFirst
<1> QED
  BY <1>1, <1>2, <1>3 DEF Recorded

LEMMA InitFailures == Init => FailureInv
<1> SUFFICES ASSUME Init, NEW k \in RedisKey
             PROVE  /\ opened[k] \in Seq(Age) /\ OldestFirst(opened[k])
                    /\ Len(opened[k]) <= failures[k]
  BY DEF Init, FailureInv, OpenedInv
<1>1. opened[k] = << >> /\ failures[k] = 0
  BY DEF Init
<1> QED
  BY <1>1 DEF OldestFirst

LEMMA RecordStays ==
  ASSUME RecordInv, UNCHANGED <<redis, recent>>
  PROVE  RecordInv'
  BY DEF RecordInv, RecentInv

\* A counter that goes up by one while nothing passes, or gets its expiry.
LEMMA CounterMoves ==
  ASSUME CountersOK, RecordInv, NEW k \in RedisKey, UNCHANGED recent,
         redis' = Incr(k) \/ redis' = Expire(k)
  PROVE  RecordInv'
<1> SUFFICES ASSUME NEW l \in RedisKey
             PROVE  Recorded(recent[l], redis'[l], Limit[l])
  BY DEF RecordInv, RecentInv
<1>1. redis[l] \in Counter /\ redis'[l] \in Counter
  BY DEF CountersOK, Incr, Expire
<1>2. /\ redis'[l].count \in {redis[l].count, redis[l].count + 1}
      /\ redis'[l].ttl \in {redis[l].ttl, Window}
  BY DEF CountersOK, Incr, Expire
<1>3. Recorded(recent[l], redis[l], Limit[l]) /\ recent[l] \in Seq(Age)
  BY DEF RecordInv, RecentInv
<1>4. Limit[l] \in Nat \ {0}
  OBVIOUS
<1> HIDE DEF Counter
<1> QED
  BY ONLY <1>1, <1>2, <1>3, <1>4, SplitStays

LEMMA CountRecords ==
  ASSUME CountersOK, ZeroIsAbsent, RecordInv, NEW k \in RedisKey, Count(k)
  PROVE  RecordInv'
<1>1. CASE ~Passes(redis[k].count + 1, k)
  BY <1>1, CounterMoves DEF Count
<1>2. CASE Passes(redis[k].count + 1, k)
  <2>1. recent' = [recent EXCEPT ![k] = Append(@, 0)] /\ redis' = Incr(k)
    BY <1>2 DEF Count
  <2>2. /\ recent'[k] = Append(recent[k], 0)
        /\ \A l \in RedisKey : l # k => redis'[l] = redis[l] /\ recent'[l] = recent[l]
    BY <2>1 DEF RecordInv, CountersOK, Incr
  <2>3. /\ redis[k] \in Counter /\ redis'[k] \in Counter
        /\ redis'[k].count = redis[k].count + 1 /\ redis'[k].ttl = redis[k].ttl
    <3> HIDE DEF Counter
    <3> QED
      BY <2>1, IncrFacts DEF CountersOK
  <2>4. /\ recent[k] \in Seq(Age) /\ Recorded(recent[k], redis[k], Limit[k])
        /\ redis[k].count = 0 => redis[k].ttl = NoExpiry
        /\ redis[k].count + 1 <= Limit[k] /\ Limit[k] \in Nat \ {0}
    BY <1>2 DEF RecordInv, RecentInv, ZeroIsAbsent, Passes
  <2>5. Recorded(recent'[k], redis'[k], Limit[k])
    <3> HIDE DEF Counter
    <3> QED
      BY <2>2, <2>3, <2>4, SplitTakesOne
  <2>6. RecentInv'
    BY <2>2, <2>5 DEF RecordInv, RecentInv
  <2>7. recent' \in [RedisKey -> Seq(Age)]
    <3>1. Append(recent[k], 0) \in Seq(Age)
      BY <2>4, AppendFits DEF Recorded
    <3> QED
      BY <2>1, <3>1 DEF RecordInv
  <2> QED
    BY <2>6, <2>7 DEF RecordInv
<1> QED
  BY <1>1, <1>2

LEMMA TickAges ==
  ASSUME CountersOK, RecordInv, Tick
  PROVE  RecordInv'
<1> SUFFICES ASSUME NEW k \in RedisKey
             PROVE  /\ Within(Older(recent[k])) \in Seq(Age)
                    /\ Recorded(Within(Older(recent[k])), redis'[k], Limit[k])
  BY DEF Tick, RecordInv, RecentInv
<1>1. /\ recent[k] \in Seq(Age) /\ Recorded(recent[k], redis[k], Limit[k])
      /\ redis[k] \in Counter /\ Limit[k] \in Nat \ {0}
  BY DEF RecordInv, RecentInv, CountersOK
<1>2. redis'[k] = Elapsed[k]
  BY DEF Tick
<1>3. CASE redis[k].ttl = 1
  <2>1. redis'[k] = Absent
    BY <1>2, <1>3 DEF Elapsed
  <2> HIDE DEF Counter, Absent
  <2> QED
    BY <1>1, <1>3, <2>1, SplitEnds
<1>4. CASE redis[k].ttl # 1
  <2>1. /\ redis'[k] \in Counter /\ redis'[k].count = redis[k].count
        /\ redis'[k].ttl = NoExpiry <=> redis[k].ttl = NoExpiry
        /\ redis[k].ttl # NoExpiry => redis'[k].ttl = redis[k].ttl - 1
    BY <1>1, <1>2, <1>4 DEF Elapsed
  <2> HIDE DEF Counter
  <2> QED
    BY <1>1, <2>1, SplitAges
<1> QED
  BY <1>3, <1>4

LEMMA NextRecords == CountersInv /\ RecordInv /\ [Next]_vars => RecordInv'
<1> SUFFICES ASSUME CountersInv, RecordInv, [Next]_vars PROVE RecordInv'
  OBVIOUS
<1>1. ASSUME NEW r \in Request, req[r].pc # "idle" PROVE req[r].key \in RedisKey
  BY <1>1 DEF RequestsOK
<1>2. ASSUME NEW r \in Request, NEW k \in RedisKey, Arrive(r, k) PROVE RecordInv'
  BY <1>2, RecordStays DEF Arrive
<1>3. ASSUME NEW r \in Request, SendIncr(r) PROVE RecordInv'
  BY <1>1, <1>3, CountRecords DEF SendIncr
<1>4. ASSUME NEW r \in Request, SendExpire(r) PROVE RecordInv'
  BY <1>1, <1>4, CounterMoves DEF SendExpire
<1>5. ASSUME NEW r \in Request, SendTtl(r) \/ Respond(r) PROVE RecordInv'
  BY <1>5, RecordStays DEF SendTtl, Respond
<1>6. ASSUME NEW r \in Request, RedisFails(r) PROVE RecordInv'
  <2>1. UNCHANGED recent
    BY <1>6 DEF RedisFails
  <2>2. CASE req[r].pc # "idle" /\ (redis' = Incr(req[r].key) \/ redis' = Expire(req[r].key))
    BY <1>1, <2>1, <2>2, CounterMoves
  <2>3. CASE UNCHANGED redis
    BY <2>1, <2>3, RecordStays
  <2> QED
    BY <1>6, <2>2, <2>3 DEF RedisFails
<1>7. CASE Crash
  BY <1>7, RecordStays DEF Crash
<1>8. CASE Tick
  BY <1>8, TickAges
<1>9. CASE UNCHANGED vars
  BY <1>9, RecordStays DEF vars
<1> QED
  BY <1>2, <1>3, <1>4, <1>5, <1>6, <1>7, <1>8, <1>9 DEF Next, Handle

\* A request that fails is one more that may pass.
LEMMA RedisFailsOpens ==
  ASSUME RequestsOK, FailureInv, NEW r \in Request, RedisFails(r)
  PROVE  FailureInv'
<1> DEFINE k == req[r].key
<1>1. k \in RedisKey
  BY DEF RequestsOK, RedisFails
<1>2. failures' = [failures EXCEPT ![k] = failures[k] + 1]
  BY <1>1 DEF RedisFails, FailureInv
<1>3. opened' = [opened EXCEPT ![k] = Append(opened[k], 0)] \/ UNCHANGED opened
  BY <1>1 DEF RedisFails, FailureInv
<1> HIDE DEF k
<1>4. /\ failures[k] \in Nat /\ opened[k] \in Seq(Age) /\ OldestFirst(opened[k])
      /\ Len(opened[k]) <= failures[k]
  BY <1>1 DEF FailureInv, OpenedInv
<1>5. /\ Append(opened[k], 0) \in Seq(Age) /\ OldestFirst(Append(opened[k], 0))
      /\ Len(Append(opened[k], 0)) = Len(opened[k]) + 1
  BY <1>4, AppendFits
<1> DEFINE more == Append(opened[k], 0)
<1> HIDE DEF more
<1>6. opened' = [opened EXCEPT ![k] = more] \/ UNCHANGED opened
  BY <1>3 DEF more
<1>7. /\ more \in Seq(Age) /\ OldestFirst(more)
      /\ Len(more) <= failures[k] + 1 /\ Len(opened[k]) <= failures[k] + 1
  BY <1>4, <1>5 DEF more
<1>8. /\ opened'[k] \in {more, opened[k]} /\ failures'[k] = failures[k] + 1
      /\ \A l \in RedisKey \ {k} : opened'[l] = opened[l] /\ failures'[l] = failures[l]
  BY <1>1, <1>2, <1>6 DEF FailureInv
<1>9. opened' \in [RedisKey -> Seq(Age)] /\ failures' \in [RedisKey -> Nat]
  <2>1. opened \in [RedisKey -> Seq(Age)] /\ failures \in [RedisKey -> Nat]
    BY DEF FailureInv
  <2>2. failures' \in [RedisKey -> Nat]
    <3>1. failures[k] + 1 \in Nat
      BY <1>4
    <3> QED
      BY <1>2, <2>1, <3>1
  <2>3. opened' \in [RedisKey -> Seq(Age)]
    BY <1>6, <1>7, <2>1
  <2> QED
    BY <2>2, <2>3
<1>10. OldestFirst(opened'[k]) /\ Len(opened'[k]) <= failures'[k]
  BY <1>4, <1>7, <1>8
<1>11. OpenedInv'
  BY <1>1, <1>8, <1>10 DEF FailureInv, OpenedInv
<1> QED
  BY <1>9, <1>11 DEF FailureInv

\* Time only takes away.
LEMMA TickCloses ==
  ASSUME FailureInv, Tick
  PROVE  FailureInv'
<1> SUFFICES ASSUME NEW k \in RedisKey
             PROVE  /\ Within(Older(opened[k])) \in Seq(Age)
                    /\ OldestFirst(Within(Older(opened[k])))
                    /\ Len(Within(Older(opened[k]))) <= failures[k]
  BY DEF Tick, FailureInv, OpenedInv
<1>1. /\ opened[k] \in Seq(Age) /\ OldestFirst(opened[k])
      /\ Len(opened[k]) <= failures[k] /\ failures[k] \in Nat
  BY DEF FailureInv, OpenedInv
<1> DEFINE left == Within(Older(opened[k]))
<1>2. PICK gone \in 0..Len(opened[k]) :
        /\ left \in Seq(Age) /\ OldestFirst(left) /\ Len(left) = Len(opened[k]) - gone
  BY <1>1, TickFits
<1> HIDE DEF left
<1>3. Len(left) <= failures[k]
  BY <1>1, <1>2
<1> QED
  BY <1>2, <1>3 DEF left

LEMMA NextKeepsFailures == CountersInv /\ FailureInv /\ [Next]_vars => FailureInv'
<1> SUFFICES ASSUME CountersInv, FailureInv, [Next]_vars PROVE FailureInv'
  OBVIOUS
<1>1. ASSUME UNCHANGED failing PROVE FailureInv'
  BY <1>1 DEF failing, FailureInv, OpenedInv
<1>2. ASSUME NEW r \in Request, Handle(r) PROVE UNCHANGED failing
  BY <1>2 DEF Handle, SendIncr, Count, SendExpire, SendTtl, Respond
<1>3. ASSUME NEW r \in Request, NEW k \in RedisKey, Arrive(r, k)
      PROVE  UNCHANGED failing
  BY <1>3 DEF Arrive
<1>4. ASSUME NEW r \in Request, RedisFails(r) PROVE FailureInv'
  BY <1>4, RedisFailsOpens
<1>5. CASE Crash
  BY <1>1, <1>5 DEF Crash
<1>6. CASE Tick
  BY <1>6, TickCloses
<1>7. CASE UNCHANGED vars
  BY <1>1, <1>7 DEF vars, failing
<1> QED
  BY <1>1, <1>2, <1>3, <1>4, <1>5, <1>6, <1>7 DEF Next

\* Whatever its count let through within a window passed under the counter that
\* is there, or under the one before it, which lacks at least the request that
\* began it; whatever else passed is a request of which a command failed.
THEOREM Invariance == Spec => []IInv
<1>1. CountersInv /\ RecordInv /\ FailureInv => IInv
  BY DEF IInv, TypeOK, RecordInv, FailureInv
<1> QED
  BY <1>1, InitHolds, InitRecord, InitFailures, NextKeeps, NextRecords,
     NextKeepsFailures, PTL DEF Spec

LEMMA TwoShares ==
  ASSUME NEW all \in Nat, NEW before \in Nat, NEW limit \in Nat,
         NEW extra \in Nat, NEW failed \in Nat,
         before < limit, all - before <= limit, extra <= failed
  PROVE  all + extra < 2 * limit + failed
  OBVIOUS

\* Within the length of a window a client gets through as many requests as one
\* less than two limits, under a counter's end and the next, and no more except
\* one for every request of which a command failed.
THEOREM FixedWindowBound == Spec => []LessThanTwoLimits
<1>1. IInv => LessThanTwoLimits
  <2> SUFFICES ASSUME IInv, NEW k \in RedisKey
               PROVE  Len(recent[k]) + Len(opened[k]) < 2 * Limit[k] + failures[k]
    BY DEF LessThanTwoLimits
  <2>1. PICK before \in 0..Len(recent[k]) :
          Splits(recent[k], redis[k], Limit[k], before)
    BY DEF IInv, RecentInv, Recorded
  <2>2. recent[k] \in Seq(Age) /\ Limit[k] \in Nat
    BY DEF IInv, TypeOK
  <2>3. before < Limit[k] /\ Len(recent[k]) - before <= Limit[k]
    BY <2>1 DEF Splits
  <2>4. /\ opened[k] \in Seq(Age) /\ failures[k] \in Nat
        /\ Len(opened[k]) <= failures[k]
    BY DEF IInv, TypeOK, OpenedInv
  <2>5. /\ Len(recent[k]) \in Nat /\ Len(opened[k]) \in Nat /\ before \in Nat
        /\ Limit[k] \in Nat /\ failures[k] \in Nat
    BY <2>2, <2>4
  <2> QED
    BY ONLY <2>3, <2>4, <2>5, TwoShares
<1> QED
  BY <1>1, Invariance, PTL
=============================================================================

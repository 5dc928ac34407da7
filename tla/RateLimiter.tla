---------------------------- MODULE RateLimiter -----------------------------
(***************************************************************************)
(* RateLimitMiddleware (src/src/api/middleware/rate_limit.py): requests    *)
(* that AuthMiddleware has let through, or that need no key, are counted   *)
(* in Redis with three commands.  Redis runs each of them atomically;      *)
(* nothing joins the three, and the process may stop or Redis fail between *)
(* any two.                                                                *)
(***************************************************************************)
EXTENDS Integers, Sequences

CONSTANTS
  Request,   \* handlers running side by side
  RedisKey,  \* ratelimit:{client}:{method}:{path}
  Limit,     \* what _get_rate_limit returns for the route of a key
  Window,    \* WINDOW_SECONDS, in ticks of the clock
  MaxCount,  \* bound: no more requests arrive for a counter that stands here
  MaxFailures,  \* bound: requests of a counter in which a command fails
  None

ASSUME RateLimiterAssumption ==
  /\ Limit \in [RedisKey -> Nat \ {0}]
  /\ Window \in Nat \ {0} /\ MaxCount \in Nat /\ MaxFailures \in Nat
  /\ None \notin RedisKey

VARIABLES
  redis,   \* the counters
  req,     \* the requests: where they stand, their key, the reply to INCR
  lost,    \* counters whose EXPIRE will never come
  recent,  \* per counter, the ages of the requests their count lets through
  opened,  \* the ages of those that only the except branch lets through
  failures \* how many requests of each counter a command has failed

vars == <<redis, req, lost, recent, opened, failures>>

\* What only a failing command changes.
failing == <<opened, failures>>

\* A key that does not exist, and the TTL of a key without an expiry.
NoExpiry == -1
Absent == [count |-> 0, ttl |-> NoExpiry]

Idle == [pc |-> "idle", key |-> None, current |-> 0]

Age == 0..(Window - 1)

Counter == [count : Nat, ttl : {NoExpiry} \cup 1..Window]

CountersOK == redis \in [RedisKey -> Counter]

RequestsOK ==
  /\ req \in [Request -> [pc : {"idle", "incr", "expire", "ttl", "handler"},
                          key : RedisKey \cup {None}, current : Nat]]
  /\ \A r \in Request : req[r].pc # "idle" => req[r].key \in RedisKey

TypeOK == /\ CountersOK /\ RequestsOK
          /\ recent \in [RedisKey -> Seq(Age)] /\ opened \in [RedisKey -> Seq(Age)]
          /\ failures \in [RedisKey -> Nat]

Init ==
  /\ redis = [k \in RedisKey |-> Absent]
  /\ req = [r \in Request |-> Idle]
  /\ lost = {} /\ recent = [k \in RedisKey |-> << >>]
  /\ opened = [k \in RedisKey |-> << >>] /\ failures = [k \in RedisKey |-> 0]
-----------------------------------------------------------------------------
(* The commands *)

\* INCR: a key that does not exist starts from 0 and has no expiry.
Incr(k) == [redis EXCEPT ![k].count = @ + 1]

\* EXPIRE: nothing happens to a key that does not exist.
Expire(k) == [redis EXCEPT ![k].ttl = IF redis[k].count = 0 THEN @ ELSE Window]

\* One tick: a key whose time is up is gone.
Elapsed == [k \in RedisKey |->
              CASE redis[k].ttl > 1 -> [redis[k] EXCEPT !.ttl = @ - 1]
                [] redis[k].ttl = 1 -> Absent
                [] OTHER -> redis[k]]

\* Mistake: the comparison is one too generous.
Passes_one_more(current, k) == current <= Limit[k] + 1

\* The reply to INCR decides if no command fails; the counter may have moved on
\* since.
Passes(current, k) == current <= Limit[k]

Go(r, pc) == req' = [req EXCEPT ![r].pc = pc]
End(r) == req' = [req EXCEPT ![r] = Idle]
-----------------------------------------------------------------------------
(* dispatch *)

Arrive(r, k) ==
  /\ req[r].pc = "idle" /\ redis[k].count < MaxCount
  /\ req' = [req EXCEPT ![r] = [Idle EXCEPT !.pc = "incr", !.key = k]]
  /\ UNCHANGED <<redis, lost, recent, failing>>

\* A request counted within the limit is on record from here: nothing but the end
\* of the process keeps it from its handler any more.
Count(k) ==
  /\ redis' = Incr(k)
  /\ recent' = IF Passes(redis[k].count + 1, k)
               THEN [recent EXCEPT ![k] = Append(@, 0)] ELSE recent
  /\ UNCHANGED failing

\* Mistake: the expiry is set by whoever finds the counter at one.
SendIncr_late(r) ==
  LET k == req[r].key
  IN  /\ req[r].pc = "incr" /\ Count(k)
      /\ req' = [req EXCEPT ![r].current = redis[k].count + 1,
                   ![r].pc = IF redis[k].count = 1 THEN "expire" ELSE "ttl"]
      /\ UNCHANGED lost

\* Mistake: every request sets the expiry anew.
SendIncr_renewing(r) ==
  LET k == req[r].key
  IN  /\ req[r].pc = "incr" /\ Count(k)
      /\ req' = [req EXCEPT ![r].current = redis[k].count + 1, ![r].pc = "expire"]
      /\ UNCHANGED lost

SendIncr(r) ==
  LET k == req[r].key
  IN  /\ req[r].pc = "incr" /\ Count(k)
      /\ req' = [req EXCEPT ![r].current = redis[k].count + 1,
                   ![r].pc = IF redis[k].count = 0 THEN "expire" ELSE "ttl"]
      /\ UNCHANGED lost

SendExpire(r) ==
  /\ req[r].pc = "expire" /\ redis' = Expire(req[r].key)
  /\ Go(r, "ttl")
  /\ UNCHANGED <<lost, recent, failing>>

\* What TTL says only goes into the headers.  429, or on to the handler.
SendTtl(r) ==
  /\ req[r].pc = "ttl"
  /\ IF Passes(req[r].current, req[r].key) THEN Go(r, "handler") ELSE End(r)
  /\ UNCHANGED <<redis, lost, recent, failing>>

\* Redis does not answer, whether it ran the command or not: the request is let
\* through, and what was to follow the command is not done.  That is the only way
\* through for one that is above the limit or has no reply to INCR.
RedisFails(r) ==
  LET k == req[r].key
  IN  /\ req[r].pc \in {"incr", "expire", "ttl"} /\ failures[k] < MaxFailures
      /\ failures' = [failures EXCEPT ![k] = @ + 1]
      /\ \/ /\ req[r].pc = "incr" /\ redis' = Incr(k)
            /\ lost' = IF redis[k].count = 0 THEN lost \cup {k} ELSE lost
         \/ req[r].pc = "expire" /\ redis' = redis /\ lost' = lost \cup {k}
         \/ req[r].pc = "expire" /\ redis' = Expire(k) /\ lost' = lost
         \/ req[r].pc \in {"incr", "ttl"} /\ UNCHANGED <<redis, lost>>
      /\ opened' = IF req[r].pc = "incr" \/ ~Passes(req[r].current, k)
                   THEN [opened EXCEPT ![k] = Append(@, 0)] ELSE opened
      /\ Go(r, "handler")
      /\ UNCHANGED recent

\* The handler is through, and the headers are added.
Respond(r) ==
  /\ req[r].pc = "handler" /\ End(r)
  /\ UNCHANGED <<redis, lost, recent, failing>>

\* The web process stops; the counters stay in Redis.
Crash ==
  /\ req' = [r \in Request |-> Idle]
  /\ lost' = lost \cup {req[r].key : r \in {q \in Request : req[q].pc = "expire"}}
  /\ UNCHANGED <<redis, recent, failing>>

\* Of ages on record, the oldest first, those that are still within a window.
Within(ages) ==
  LET first == CHOOSE n \in 1..Len(ages) + 1 :
                 \A i \in 1..Len(ages) : ages[i] \in Age <=> i >= n
  IN  SubSeq(ages, first, Len(ages))

Older(ages) == [i \in 1..Len(ages) |-> ages[i] + 1]

\* Time goes by: for the counters, and for the records of what passed.
Tick ==
  /\ redis' = Elapsed
  /\ recent' = [k \in RedisKey |-> Within(Older(recent[k]))]
  /\ opened' = [k \in RedisKey |-> Within(Older(opened[k]))]
  /\ UNCHANGED <<req, lost, failures>>

Handle(r) == SendIncr(r) \/ SendExpire(r) \/ SendTtl(r) \/ Respond(r)

Next == \/ \E r \in Request : \/ \E k \in RedisKey : Arrive(r, k)
                               \/ Handle(r) \/ RedisFails(r)
        \/ Crash \/ Tick

Spec == Init /\ [][Next]_vars

\* The event loop and the clock go on; clients and failures are free.
FairSpec == Spec /\ WF_vars(Tick) /\ \A r \in Request : WF_vars(Handle(r))
-----------------------------------------------------------------------------
\* What the middleware promises is a fixed window, not the sliding one its
\* docstring names: within the length of a window one less than two limits may be
\* let through by their count, however slow a request is between its three
\* commands, and besides these only requests of which a command failed.
LessThanTwoLimits ==
  \A k \in RedisKey :
    Len(recent[k]) + Len(opened[k]) < 2 * Limit[k] + failures[k]

\* A window once begun is not made longer by the requests that come in it, so
\* who is told when it ends (Retry-After, X-RateLimit-Reset) can rely on it.
WindowsAreNotExtended ==
  [][\A k \in RedisKey :
       redis[k].ttl # NoExpiry => redis'[k].ttl <= redis[k].ttl]_vars

\* Every counter ends and lets its client in again, unless its EXPIRE was lost
\* with a failing Redis or a stopping process.
CountersEnd ==
  \A k \in RedisKey :
    redis[k].count > 0 ~> (redis[k].count = 0 \/ k \in lost)
-----------------------------------------------------------------------------
(* The inductive invariant *)

\* A counter at zero does not exist, and so has no expiry.
ZeroIsAbsent ==
  \A k \in RedisKey : redis[k].count = 0 => redis[k].ttl = NoExpiry

\* A counter whose expiry somebody is about to set has none, and only one is
\* about to: the counter stays until it has been set.
ExpiryIsOwed ==
  \A r \in Request : req[r].pc = "expire" =>
    /\ redis[req[r].key].count > 0 /\ redis[req[r].key].ttl = NoExpiry
    /\ \A q \in Request : req[q].pc = "expire" /\ req[q].key = req[r].key => q = r

\* What WindowsAreNotExtended rests on: INCR hands the setting of the expiry to
\* exactly one request, whoever is late, fails or is lost.
CountersInv == CountersOK /\ RequestsOK /\ ZeroIsAbsent /\ ExpiryIsOwed

OldestFirst(ages) ==
  \A i, j \in 1..Len(ages) : i <= j => ages[i] >= ages[j]

\* Of the ages on record the first `before` passed under a counter that is gone,
\* the others under the one that is there, all of its own if it let through as
\* many as it could.  Since its expiry was set, Window - ttl ticks have gone by:
\* over the former ones, and over the first of its own.
Splits(ages, counter, limit, before) ==
  LET own == Len(ages) - before
      Spans(i) == counter.ttl # NoExpiry => ages[i] >= Window - counter.ttl
  IN  /\ before < limit /\ own <= counter.count /\ own <= limit
      /\ \A i \in 1..before : Spans(i)
      /\ own > 0 /\ own \in {counter.count, limit} => Spans(before + 1)

Recorded(ages, counter, limit) ==
  /\ OldestFirst(ages)
  /\ \E before \in 0..Len(ages) : Splits(ages, counter, limit, before)

RecentInv == \A k \in RedisKey : Recorded(recent[k], redis[k], Limit[k])

\* A failure lets at most one request through.
OpenedInv ==
  \A k \in RedisKey : OldestFirst(opened[k]) /\ Len(opened[k]) <= failures[k]

\* What LessThanTwoLimits rests on: when a counter ends, the first it let through
\* is older than a window, and so is everything from before it.
IInv == TypeOK /\ CountersInv /\ RecentInv /\ OpenedInv
=============================================================================

------------------------------ MODULE Tenants -------------------------------
(***************************************************************************)
(* Tenants and their API keys: registration and the profile                *)
(* (src/src/api/tenants.py, src/src/tenants/service.py) behind the two     *)
(* middlewares and over the pool of connections, and the seed script       *)
(* (src/src/tenants/seed.py), a process of its own on the same tables.     *)
(*                                                                         *)
(* The middleware added last is the outermost (src/src/main.py), so a      *)
(* request is authenticated before it is counted; what RateLimiter.tla     *)
(* decides is a choice here.  A tenant is known by the key it was          *)
(* registered with, a key by the prefix it is looked up by.                *)
(* Self-registration is enabled, as by default, and no code disables a     *)
(* tenant.  A request with no key, or one shorter than a prefix, is        *)
(* answered 401 before anything happens and is no request here.            *)
(***************************************************************************)
EXTENDS Naturals, FiniteSets

CONSTANTS
  Request,   \* handlers running side by side in the web process
  Seed,      \* runs of `python -m src.tenants.seed`
  Key,       \* API keys: those tenants will have, and others
  Prefix,    \* the first API_KEY_LOOKUP_PREFIX_LENGTH characters of a key
  Pool,      \* pool_size + max_overflow
  None

ASSUME TenantsAssumption ==
  /\ Pool \in Nat \ {0}
  /\ DOMAIN Prefix = Key /\ None \notin Key
  /\ Request \cap Seed = {}

VARIABLES
  tenants,   \* the tenants table as committed, a tenant by its key
  stocked,   \* tenants with a committed sample workflow
  req,       \* the requests: where they stand, their route and key
  seed,      \* the seed runs; late says that there was a tenant at the launch
  handed     \* keys somebody was told: in a 201 answer, or printed

vars == <<tenants, stocked, req, seed, handed>>

Idle == [pc |-> "idle", route |-> None, key |-> None]

TablesOK == tenants \subseteq Key /\ stocked \subseteq tenants /\ handed \subseteq Key

RequestsOK ==
  /\ req \in [Request ->
       [pc : {"idle", "auth", "validating", "limiter", "handler", "inserting",
              "inserted", "answering", "reading"},
        route : {"register", "me", None}, key : Key \cup {None}]]
  /\ \A r \in Request : req[r].pc # "idle" =>
       req[r].key \in Key /\ req[r].route \in {"register", "me"}

SeedsOK ==
  /\ seed \in [Seed ->
       [pc : {"start", "checking", "inserting", "inserted", "committed",
              "printed", "flushed", "done"},
        key : Key \cup {None}, late : BOOLEAN]]
  /\ \A s \in Seed : seed[s].pc \notin {"start", "checking", "done"} =>
       seed[s].key \in Key

TypeOK == TablesOK /\ RequestsOK /\ SeedsOK

Init ==
  /\ tenants = {} /\ stocked = {} /\ handed = {}
  /\ req = [r \in Request |-> Idle]
  /\ seed = [s \in Seed |-> [pc |-> "start", key |-> None, late |-> FALSE]]
-----------------------------------------------------------------------------
(* Connections and keys *)

\* Mistake: a session is kept until the answer is there.
Holding_on(r) == req[r].pc \notin {"idle", "auth", "answering"}

Holding(r) == req[r].pc \in {"validating", "inserting", "inserted", "reading"}

Free == Cardinality({r \in Request : Holding(r)}) < Pool

\* The keys in transactions that have written their tenant and not ended.
Pending == {req[r].key : r \in {q \in Request : req[q].pc = "inserted"}}
             \cup {seed[s].key : s \in {q \in Seed : seed[q].pc = "inserted"}}

\* _generate_api_key draws 128 random bits: never a key that was drawn before.
Fresh == Key \ (tenants \cup {seed[s].key : s \in Seed}
                  \cup {req[r].key : r \in {q \in Request : req[q].route = "register"}})

SamePrefix(keys, key) == {k \in keys : Prefix[k] = Prefix[key]}

\* The request ends, with whatever answer; its session is closed.
End(r) == req' = [req EXCEPT ![r] = Idle]
Go(r, pc) == req' = [req EXCEPT ![r].pc = pc]
-----------------------------------------------------------------------------
(* The middlewares *)

\* POST /api/tenants/register is public.  (Bound: it leaves a key for each seed
\* run that will draw one.)
ArriveToRegister(r) ==
  /\ req[r].pc = "idle"
  /\ Cardinality(Fresh) >
       Cardinality({s \in Seed : seed[s].pc \in {"start", "checking"}})
  /\ \E key \in Fresh :
       req' = [req EXCEPT ![r] = [pc |-> "limiter", route |-> "register", key |-> key]]
  /\ UNCHANGED <<tenants, stocked, seed, handed>>

\* GET /api/tenants/me with some key.
ArriveWithKey(r) ==
  /\ req[r].pc = "idle"
  /\ \E key \in Key :
       req' = [req EXCEPT ![r] = [pc |-> "auth", route |-> "me", key |-> key]]
  /\ UNCHANGED <<tenants, stocked, seed, handed>>

\* The pool gives a session its connection at its first statement.
Connect(r) ==
  /\ Free /\ req[r].pc \in {"auth", "handler"}
  /\ Go(r, CASE req[r].pc = "auth" -> "validating"
             [] req[r].pc = "handler" /\ req[r].route = "register" -> "inserting"
             [] req[r].pc = "handler" /\ req[r].route = "me" -> "reading")
  /\ UNCHANGED <<tenants, stocked, seed, handed>>

\* validate_api_key: one row with the prefix, or 401 (none) or 500 (several);
\* then the whole key against its hash.
Validate(r) ==
  /\ req[r].pc = "validating"
  /\ IF SamePrefix(tenants, req[r].key) = {req[r].key} THEN Go(r, "limiter") ELSE End(r)
  /\ UNCHANGED <<tenants, stocked, seed, handed>>

\* Let through, or answered 429.
PassLimiter(r) ==
  /\ req[r].pc = "limiter" /\ (Go(r, "handler") \/ End(r))
  /\ UNCHANGED <<tenants, stocked, seed, handed>>
-----------------------------------------------------------------------------
(* register_tenant_endpoint and get_current_tenant *)

\* Mistake: the prefix is not unique.
Insert_unconstrained(r) ==
  /\ req[r].pc = "inserting" /\ Go(r, "inserted")
  /\ UNCHANGED <<tenants, stocked, seed, handed>>

\* The INSERT.  The unique index makes it wait for a transaction that has
\* written the prefix, and fail when the prefix is committed.
Insert(r) ==
  /\ req[r].pc = "inserting" /\ SamePrefix(Pending, req[r].key) = {}
  /\ IF SamePrefix(tenants, req[r].key) = {} THEN Go(r, "inserted") ELSE End(r)
  /\ UNCHANGED <<tenants, stocked, seed, handed>>

\* Mistake: the session is closed without a commit.
Commit_forgotten(r) ==
  /\ req[r].pc = "inserted" /\ Go(r, "answering")
  /\ UNCHANGED <<tenants, stocked, seed, handed>>

Commit(r) ==
  /\ req[r].pc = "inserted" /\ tenants' = tenants \cup {req[r].key}
  /\ Go(r, "answering")
  /\ UNCHANGED <<stocked, seed, handed>>

Answer(r) ==
  /\ req[r].pc = "answering" /\ handed' = handed \cup {req[r].key}
  /\ End(r)
  /\ UNCHANGED <<tenants, stocked, seed>>

\* The tenant of the context, by its id.
Read(r) ==
  /\ req[r].pc = "reading" /\ req[r].key \in tenants
  /\ End(r)
  /\ UNCHANGED <<tenants, stocked, seed, handed>>

\* No connection within the pool's timeout: 500.
TimeOut(r) ==
  /\ req[r].pc \in {"auth", "handler"} /\ ~Free
  /\ End(r)
  /\ UNCHANGED <<tenants, stocked, seed, handed>>

\* The connection breaks; a COMMIT on its way may have arrived.
LoseConnection(r) ==
  /\ Holding(r)
  /\ \/ UNCHANGED tenants
     \/ req[r].pc = "inserted" /\ tenants' = tenants \cup {req[r].key}
  /\ End(r)
  /\ UNCHANGED <<stocked, seed, handed>>

\* The web process stops, and PostgreSQL rolls back what it had open.
Crash ==
  /\ req' = [r \in Request |-> Idle]
  /\ UNCHANGED <<tenants, stocked, seed, handed>>
-----------------------------------------------------------------------------
(* The seed script *)

SeedGo(s, pc) == seed' = [seed EXCEPT ![s].pc = pc]

SeedLaunch(s) ==
  /\ seed[s].pc = "start"
  /\ seed' = [seed EXCEPT ![s].pc = "checking", ![s].late = tenants # {}]
  /\ UNCHANGED <<tenants, stocked, req, handed>>

\* Mistake: the default tenant of an earlier run does not count.
SeedCheck_off_by_one(s) ==
  /\ seed[s].pc = "checking"
  /\ \/ Cardinality(tenants) > 1 /\ SeedGo(s, "done")
     \/ /\ Cardinality(tenants) <= 1
        /\ \E key \in Fresh :
             seed' = [seed EXCEPT ![s].pc = "inserting", ![s].key = key]
  /\ UNCHANGED <<tenants, stocked, req, handed>>

\* check_tenants_exist, and the key drawn for the default tenant.
SeedCheck(s) ==
  /\ seed[s].pc = "checking"
  /\ \/ tenants # {} /\ SeedGo(s, "done")
     \/ /\ tenants = {}
        /\ \E key \in Fresh :
             seed' = [seed EXCEPT ![s].pc = "inserting", ![s].key = key]
  /\ UNCHANGED <<tenants, stocked, req, handed>>

SeedInsert(s) ==
  /\ seed[s].pc = "inserting" /\ SamePrefix(Pending, seed[s].key) = {}
  /\ SeedGo(s, IF SamePrefix(tenants, seed[s].key) = {} THEN "inserted" ELSE "done")
  /\ UNCHANGED <<tenants, stocked, req, handed>>

SeedCommit(s) ==
  /\ seed[s].pc = "inserted" /\ tenants' = tenants \cup {seed[s].key}
  /\ SeedGo(s, "committed")
  /\ UNCHANGED <<stocked, req, handed>>

\* The key is printed, once.
SeedPrint(s) ==
  /\ seed[s].pc = "committed" /\ handed' = handed \cup {seed[s].key}
  /\ SeedGo(s, "printed")
  /\ UNCHANGED <<tenants, stocked, req>>

\* seed_sample_workflows.
SeedSamples(s) ==
  /\ seed[s].pc = "printed"
  /\ SeedGo(s, IF seed[s].key \in stocked THEN "done" ELSE "flushed")
  /\ UNCHANGED <<tenants, stocked, req, handed>>

SeedCommitSamples(s) ==
  /\ seed[s].pc = "flushed" /\ stocked' = stocked \cup {seed[s].key}
  /\ SeedGo(s, "done")
  /\ UNCHANGED <<tenants, req, handed>>

\* The script stops on the way.  It is not resumed: another run starts over.
SeedCrash(s) ==
  /\ seed[s].pc \notin {"start", "done"}
  /\ SeedGo(s, "done")
  /\ UNCHANGED <<tenants, stocked, req, handed>>
-----------------------------------------------------------------------------
Handle(r) == Validate(r) \/ PassLimiter(r) \/ Commit(r) \/ Answer(r) \/ Read(r)

SeedStep(s) == \/ SeedCheck(s) \/ SeedCommit(s) \/ SeedPrint(s)
               \/ SeedSamples(s) \/ SeedCommitSamples(s)

Next ==
  \/ \E r \in Request :
       \/ ArriveToRegister(r) \/ ArriveWithKey(r)
       \/ Connect(r) \/ Insert(r) \/ Handle(r)
       \/ TimeOut(r) \/ LoseConnection(r)
  \/ \E s \in Seed : SeedLaunch(s) \/ SeedStep(s) \/ SeedInsert(s) \/ SeedCrash(s)
  \/ Crash

Spec == Init /\ [][Next]_vars

\* Strong fairness where others may take the thing waited for in between: the
\* pool serves its waiters in order, and so does a lock on an index entry.
FairSpec ==
  /\ Spec
  /\ \A r \in Request : WF_vars(Handle(r)) /\ SF_vars(Connect(r)) /\ SF_vars(Insert(r))
  /\ \A s \in Seed : WF_vars(SeedStep(s)) /\ SF_vars(SeedInsert(s))
-----------------------------------------------------------------------------
\* A key somebody was told opens its tenant, now and later: it was committed
\* before it was told, and no registration beside it or after it has taken its
\* prefix, so that the lookup finds one row.
HandedKeysWork == \A key \in handed : SamePrefix(tenants, key) = {key}

\* A seed run launched when there is a tenant adds none, whoever registered it
\* and however far that run got.  (Runs that overlap may add one each.)
LateSeedAddsNone == \A s \in Seed : seed[s].late => seed[s].key = None

\* Every request is answered: nobody who waits for a connection, or for a
\* transaction that has written the same prefix, keeps one that those it waits
\* for need.
RequestsEnd == \A r \in Request : req[r].pc # "idle" ~> req[r].pc = "idle"
-----------------------------------------------------------------------------
(* The inductive invariant *)

\* No two keys with one prefix are in the table or about to be.
PrefixesDiffer ==
  \A k, l \in tenants \cup Pending : Prefix[k] = Prefix[l] => k = l

\* Who is told a key, or will be, has it committed.
ToldIsCommitted ==
  /\ handed \subseteq tenants
  /\ \A r \in Request : req[r].pc = "answering" => req[r].key \in tenants
  /\ \A s \in Seed : seed[s].pc \in {"committed", "printed", "flushed"} =>
                       seed[s].key \in tenants

\* A late seed had a tenant to find, and tenants stay.
LateSeedFinds ==
  /\ \A s \in Seed : seed[s].pc \in {"start", "checking"} => seed[s].key = None
  /\ \A s \in Seed : seed[s].late => tenants # {}

\* What LateSeedAddsNone and HandedKeysWork rest on, at every step of every
\* request and seed run.
IInv == /\ TypeOK /\ PrefixesDiffer /\ ToldIsCommitted /\ LateSeedFinds
        /\ LateSeedAddsNone
=============================================================================

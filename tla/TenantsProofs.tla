--------------------------- MODULE TenantsProofs ----------------------------
(***************************************************************************)
(* Proofs about Tenants, for any number of requests, seed runs and keys,   *)
(* any way their prefixes coincide, and a pool of any size.                *)
(***************************************************************************)
EXTENDS Tenants, TLAPS

USE TenantsAssumption DEF IInv, TypeOK

\* What a request is when it is not writing: how it goes on or ends changes
\* nothing for the others.
LEMMA RequestStep ==
  ASSUME IInv, NEW r \in Request,
         RequestsOK', UNCHANGED <<tenants, stocked, seed, handed>>,
         \A q \in Request \ {r} : req'[q] = req[q],
         req'[r].pc # "inserted",
         req'[r].pc = "answering" => req'[r].key \in tenants
  PROVE  IInv'
<1>1. TablesOK' /\ SeedsOK' /\ LateSeedFinds' /\ LateSeedAddsNone'
  BY DEF TablesOK, SeedsOK, LateSeedFinds, LateSeedAddsNone
<1>2. Pending' \subseteq Pending
  BY DEF Pending
<1>3. PrefixesDiffer'
  BY <1>2 DEF PrefixesDiffer
<1>4. ToldIsCommitted'
  BY DEF ToldIsCommitted
<1> QED
  BY <1>1, <1>3, <1>4

LEMMA ArriveToRegisterKeeps ==
  ASSUME IInv, NEW r \in Request, ArriveToRegister(r)
  PROVE  IInv'
<1>1. PICK key \in Key :
        req' = [req EXCEPT ![r] = [pc |-> "limiter", route |-> "register", key |-> key]]
  BY DEF ArriveToRegister, Fresh
<1>2. RequestsOK'
  BY <1>1 DEF RequestsOK
<1> QED
  BY <1>1, <1>2, RequestStep DEF ArriveToRegister, RequestsOK

LEMMA ArriveWithKeyKeeps ==
  ASSUME IInv, NEW r \in Request, ArriveWithKey(r)
  PROVE  IInv'
<1>1. PICK key \in Key :
        req' = [req EXCEPT ![r] = [pc |-> "auth", route |-> "me", key |-> key]]
  BY DEF ArriveWithKey
<1>2. RequestsOK'
  BY <1>1 DEF RequestsOK
<1> QED
  BY <1>1, <1>2, RequestStep DEF ArriveWithKey, RequestsOK

\* A request that ends, or that goes on without a word to the database.
LEMMA EndKeeps ==
  ASSUME IInv, NEW r \in Request, End(r), UNCHANGED <<tenants, stocked, seed, handed>>
  PROVE  IInv'
<1>1. RequestsOK'
  BY DEF RequestsOK, End, Idle
<1> QED
  BY <1>1, RequestStep DEF RequestsOK, End, Idle

LEMMA GoKeeps ==
  ASSUME IInv, NEW r \in Request, req[r].pc # "idle",
         NEW pc \in {"validating", "limiter", "handler", "inserting", "reading"},
         Go(r, pc), UNCHANGED <<tenants, stocked, seed, handed>>
  PROVE  IInv'
<1>1. RequestsOK'
  BY DEF RequestsOK, Go
<1> QED
  BY <1>1, RequestStep DEF RequestsOK, Go

LEMMA ConnectKeeps ==
  ASSUME IInv, NEW r \in Request, Connect(r)
  PROVE  IInv'
<1>1. CASE req[r].pc = "auth"
  <2>1. Go(r, "validating")
    BY <1>1 DEF Connect
  <2> QED
    BY <1>1, <2>1, GoKeeps DEF Connect
<1>2. CASE req[r].pc = "handler" /\ req[r].route = "register"
  <2>1. Go(r, "inserting")
    BY <1>2 DEF Connect
  <2> QED
    BY <1>2, <2>1, GoKeeps DEF Connect
<1>3. CASE req[r].pc = "handler" /\ req[r].route = "me"
  <2>1. Go(r, "reading")
    BY <1>3 DEF Connect
  <2> QED
    BY <1>3, <2>1, GoKeeps DEF Connect
<1> QED
  BY <1>1, <1>2, <1>3 DEF Connect, RequestsOK

LEMMA ReadingKeeps ==
  ASSUME IInv, NEW r \in Request, Validate(r) \/ PassLimiter(r) \/ Read(r) \/ TimeOut(r)
  PROVE  IInv'
  BY GoKeeps, EndKeeps DEF Validate, PassLimiter, Read, TimeOut

\* A transaction writes a prefix that neither the table nor another has.
LEMMA InsertKeeps ==
  ASSUME IInv, NEW r \in Request, Insert(r)
  PROVE  IInv'
<1>1. CASE SamePrefix(tenants, req[r].key) = {}
  <2>1. Go(r, "inserted")
    BY <1>1 DEF Insert
  <2>2. RequestsOK'
    BY <2>1 DEF RequestsOK, Go, Insert
  <2>3. TablesOK' /\ SeedsOK' /\ LateSeedFinds' /\ LateSeedAddsNone' /\ ToldIsCommitted'
    BY <2>1 DEF TablesOK, SeedsOK, LateSeedFinds, LateSeedAddsNone, ToldIsCommitted,
       Insert, Go, RequestsOK
  <2>4. Pending' \subseteq Pending \cup {req[r].key}
    BY <2>1 DEF Pending, Go, RequestsOK, Insert
  <2>5. \A k \in tenants \cup Pending : Prefix[k] # Prefix[req[r].key]
    BY <1>1 DEF Insert, SamePrefix
  <2>6. PrefixesDiffer'
    BY <2>4, <2>5 DEF PrefixesDiffer, Insert
  <2> QED
    BY <2>2, <2>3, <2>6
<1>2. CASE SamePrefix(tenants, req[r].key) # {}
  BY <1>2, EndKeeps DEF Insert
<1> QED
  BY <1>1, <1>2

\* A commit moves a key from the transaction to the table.
LEMMA CommitKeeps ==
  ASSUME IInv, NEW r \in Request, req[r].pc = "inserted",
         tenants' = tenants \cup {req[r].key}, Go(r, "answering") \/ End(r),
         UNCHANGED <<stocked, seed, handed>>
  PROVE  IInv'
<1>1. req[r].key \in Pending /\ req[r].key \in Key
  BY DEF Pending, RequestsOK
<1>2. RequestsOK'
  BY DEF RequestsOK, Go, End, Idle
<1>3. TablesOK' /\ SeedsOK' /\ LateSeedFinds' /\ LateSeedAddsNone'
  BY <1>1 DEF TablesOK, SeedsOK, LateSeedFinds, LateSeedAddsNone
<1>4. ToldIsCommitted'
  BY DEF ToldIsCommitted, Go, End, Idle, RequestsOK
<1>5. Pending' \subseteq Pending
  BY DEF Pending, Go, End, Idle, RequestsOK
<1>6. PrefixesDiffer'
  BY <1>1, <1>5 DEF PrefixesDiffer
<1> QED
  BY <1>2, <1>3, <1>4, <1>6

\* The answer tells a key that is committed.
LEMMA AnswerKeeps ==
  ASSUME IInv, NEW r \in Request, Answer(r)
  PROVE  IInv'
<1>1. req[r].key \in tenants
  BY DEF Answer, ToldIsCommitted
<1>2. RequestsOK'
  BY DEF RequestsOK, Answer, End, Idle
<1>3. TablesOK' /\ SeedsOK' /\ LateSeedFinds' /\ LateSeedAddsNone'
  BY <1>1 DEF TablesOK, SeedsOK, LateSeedFinds, LateSeedAddsNone, Answer
<1>4. ToldIsCommitted'
  BY <1>1 DEF ToldIsCommitted, Answer, End, Idle, RequestsOK
<1>5. Pending' \subseteq Pending
  BY DEF Pending, Answer, End, Idle, RequestsOK
<1>6. PrefixesDiffer'
  BY <1>5 DEF PrefixesDiffer, Answer
<1> QED
  BY <1>2, <1>3, <1>4, <1>6

LEMMA LoseConnectionKeeps ==
  ASSUME IInv, NEW r \in Request, LoseConnection(r)
  PROVE  IInv'
  BY EndKeeps, CommitKeeps DEF LoseConnection

\* A crash takes every request, and no key that was told.
LEMMA CrashKeeps ==
  ASSUME IInv, Crash
  PROVE  IInv'
<1>1. RequestsOK'
  BY DEF RequestsOK, Crash, Idle
<1>2. TablesOK' /\ SeedsOK' /\ LateSeedFinds' /\ LateSeedAddsNone' /\ ToldIsCommitted'
  BY DEF TablesOK, SeedsOK, LateSeedFinds, LateSeedAddsNone, ToldIsCommitted, Crash, Idle
<1>3. Pending' \subseteq Pending
  BY DEF Pending, Crash, Idle
<1>4. PrefixesDiffer'
  BY <1>3 DEF PrefixesDiffer, Crash
<1> QED
  BY <1>1, <1>2, <1>4
-----------------------------------------------------------------------------
(* The seed script *)

\* A seed run that reads, prints or ends writes no tenant.
LEMMA SeedStepKeeps ==
  ASSUME IInv, NEW s \in Seed,
         SeedsOK', UNCHANGED <<tenants, req>>, stocked' \subseteq tenants,
         \A q \in Seed \ {s} : seed'[q] = seed[q],
         seed'[s].pc # "inserted",
         seed'[s].pc \in {"committed", "printed", "flushed"} => seed'[s].key \in tenants,
         seed'[s].pc \in {"start", "checking"} => seed'[s].key = None,
         seed'[s].late => tenants # {} /\ seed'[s].key = None,
         handed' \subseteq handed \cup {seed'[s].key}, handed' \subseteq tenants
  PROVE  IInv'
<1>1. TablesOK' /\ RequestsOK'
  BY DEF TablesOK, RequestsOK
<1>2. LateSeedFinds' /\ LateSeedAddsNone'
  BY DEF LateSeedFinds, LateSeedAddsNone
<1>3. ToldIsCommitted'
  BY DEF ToldIsCommitted
<1>4. Pending' \subseteq Pending
  BY DEF Pending
<1>5. PrefixesDiffer'
  BY <1>4 DEF PrefixesDiffer
<1> QED
  BY <1>1, <1>2, <1>3, <1>5

LEMMA SeedLaunchKeeps ==
  ASSUME IInv, NEW s \in Seed, SeedLaunch(s)
  PROVE  IInv'
<1>1. PICK late \in BOOLEAN :
        /\ late => tenants # {}
        /\ seed' = [seed EXCEPT ![s].pc = "checking", ![s].late = late]
  <2>1. CASE tenants # {}
    <3>1. (tenants # {}) = TRUE
      BY <2>1
    <3>2. seed' = [seed EXCEPT ![s].pc = "checking", ![s].late = TRUE]
      BY <3>1, Zenon DEF SeedLaunch
    <3> QED
      BY <2>1, <3>2
  <2>2. CASE tenants = {}
    <3>1. (tenants # {}) = FALSE
      BY <2>2
    <3>2. seed' = [seed EXCEPT ![s].pc = "checking", ![s].late = FALSE]
      BY <3>1, Zenon DEF SeedLaunch
    <3> QED
      BY <3>2
  <2> QED
    BY <2>1, <2>2
<1>2. SeedsOK'
  <2> DEFINE new == [seed[s] EXCEPT !.pc = "checking", !.late = late]
  <2>1. new \in [pc : {"start", "checking", "inserting", "inserted", "committed",
                      "printed", "flushed", "done"},
                key : Key \cup {None}, late : BOOLEAN]
    BY Zenon DEF SeedsOK
  <2>2. seed' = [seed EXCEPT ![s] = new]
    BY <1>1
  <2>3. new.pc = "checking"
    BY DEF SeedsOK
  <2> HIDE DEF new
  <2> QED
    BY <2>1, <2>2, <2>3 DEF SeedsOK
<1>3. /\ seed'[s].pc = "checking" /\ seed'[s].key = None
      /\ seed'[s].late => tenants # {}
  BY <1>1 DEF SeedsOK, SeedLaunch, LateSeedFinds
<1> QED
  BY <1>1, <1>2, <1>3, SeedStepKeeps DEF SeedsOK, SeedLaunch, ToldIsCommitted, TablesOK

\* A late run finds a tenant, so it draws no key.
LEMMA SeedCheckKeeps ==
  ASSUME IInv, NEW s \in Seed, SeedCheck(s)
  PROVE  IInv'
<1>1. CASE tenants # {} /\ SeedGo(s, "done")
  <2>1. SeedsOK'
    BY <1>1 DEF SeedsOK, SeedGo
  <2>2. /\ seed'[s].pc = "done" /\ seed'[s].late = seed[s].late
        /\ seed'[s].key = seed[s].key
    BY <1>1 DEF SeedsOK, SeedGo
  <2>3. seed[s].late => seed[s].key = None
    BY DEF LateSeedAddsNone
  <2> QED
    BY <1>1, <2>1, <2>2, <2>3, SeedStepKeeps
    DEF SeedsOK, SeedGo, SeedCheck, ToldIsCommitted, TablesOK
<1>2. CASE tenants = {} /\ \E key \in Fresh :
             seed' = [seed EXCEPT ![s].pc = "inserting", ![s].key = key]
  <2>1. PICK key \in Key : seed' = [seed EXCEPT ![s].pc = "inserting", ![s].key = key]
    BY <1>2 DEF Fresh
  <2>2. SeedsOK'
    BY <2>1 DEF SeedsOK
  <2>3. ~seed[s].late
    BY <1>2 DEF LateSeedFinds
  <2> QED
    BY <2>1, <2>2, <2>3, SeedStepKeeps DEF SeedsOK, SeedCheck, ToldIsCommitted, TablesOK
<1> QED
  BY <1>1, <1>2 DEF SeedCheck

\* As Insert, for the default tenant.
LEMMA SeedInsertKeeps ==
  ASSUME IInv, NEW s \in Seed, SeedInsert(s)
  PROVE  IInv'
<1>1. CASE SamePrefix(tenants, seed[s].key) = {}
  <2>1. SeedGo(s, "inserted")
    BY <1>1 DEF SeedInsert
  <2>2. SeedsOK'
    BY <2>1 DEF SeedsOK, SeedGo, SeedInsert
  <2>3. TablesOK' /\ RequestsOK' /\ LateSeedFinds' /\ LateSeedAddsNone' /\ ToldIsCommitted'
    BY <2>1 DEF TablesOK, RequestsOK, LateSeedFinds, LateSeedAddsNone, ToldIsCommitted,
       SeedInsert, SeedGo, SeedsOK
  <2>4. Pending' \subseteq Pending \cup {seed[s].key}
    BY <2>1 DEF Pending, SeedGo, SeedsOK, SeedInsert
  <2>5. \A k \in tenants \cup Pending : Prefix[k] # Prefix[seed[s].key]
    BY <1>1 DEF SeedInsert, SamePrefix
  <2>6. PrefixesDiffer'
    BY <2>4, <2>5 DEF PrefixesDiffer, SeedInsert
  <2> QED
    BY <2>2, <2>3, <2>6
<1>2. CASE SamePrefix(tenants, seed[s].key) # {}
  <2>1. SeedGo(s, "done")
    BY <1>2 DEF SeedInsert
  <2>2. SeedsOK'
    BY <2>1 DEF SeedsOK, SeedGo
  <2> QED
    BY <2>1, <2>2, SeedStepKeeps
    DEF SeedsOK, SeedGo, SeedInsert, LateSeedAddsNone, LateSeedFinds, ToldIsCommitted, TablesOK
<1> QED
  BY <1>1, <1>2

LEMMA SeedCommitKeeps ==
  ASSUME IInv, NEW s \in Seed, SeedCommit(s)
  PROVE  IInv'
<1>1. seed[s].key \in Pending /\ seed[s].key \in Key
  BY DEF Pending, SeedsOK, SeedCommit
<1>2. SeedsOK' /\ RequestsOK'
  BY DEF SeedsOK, RequestsOK, SeedCommit, SeedGo
<1>3. TablesOK' /\ LateSeedFinds' /\ LateSeedAddsNone'
  BY <1>1 DEF TablesOK, LateSeedFinds, LateSeedAddsNone, SeedCommit, SeedGo, SeedsOK
<1>4. ToldIsCommitted'
  BY DEF ToldIsCommitted, SeedCommit, SeedGo, SeedsOK
<1>5. Pending' \subseteq Pending
  BY DEF Pending, SeedCommit, SeedGo, SeedsOK
<1>6. PrefixesDiffer'
  BY <1>1, <1>5 DEF PrefixesDiffer, SeedCommit
<1> QED
  BY <1>2, <1>3, <1>4, <1>6

\* The key is printed and the samples written after the commit.
LEMMA SeedEndKeeps ==
  ASSUME IInv, NEW s \in Seed,
         SeedPrint(s) \/ SeedSamples(s) \/ SeedCommitSamples(s) \/ SeedCrash(s)
  PROVE  IInv'
<1>1. SeedsOK'
  BY DEF SeedsOK, SeedGo, SeedPrint, SeedSamples, SeedCommitSamples, SeedCrash
<1>2. seed[s].pc \in {"committed", "printed", "flushed"} => seed[s].key \in tenants
  BY DEF ToldIsCommitted
<1>3. seed[s].late => tenants # {} /\ seed[s].key = None
  BY DEF LateSeedFinds, LateSeedAddsNone
<1>4. stocked \subseteq tenants /\ handed \subseteq tenants
  BY DEF TablesOK, ToldIsCommitted
<1>5. CASE SeedPrint(s)
  BY <1>1, <1>2, <1>3, <1>4, <1>5, SeedStepKeeps DEF SeedsOK, SeedGo, SeedPrint
<1>6. CASE SeedSamples(s)
  BY <1>1, <1>2, <1>3, <1>4, <1>6, SeedStepKeeps DEF SeedsOK, SeedGo, SeedSamples
<1>7. CASE SeedCommitSamples(s)
  BY <1>1, <1>2, <1>3, <1>4, <1>7, SeedStepKeeps DEF SeedsOK, SeedGo, SeedCommitSamples
<1>8. CASE SeedCrash(s)
  BY <1>1, <1>2, <1>3, <1>4, <1>8, SeedStepKeeps DEF SeedsOK, SeedGo, SeedCrash
<1> QED
  BY <1>5, <1>6, <1>7, <1>8
-----------------------------------------------------------------------------
(* The theorems *)

LEMMA InitHolds == Init => IInv
<1> SUFFICES ASSUME Init PROVE IInv
  OBVIOUS
<1>1. TablesOK /\ RequestsOK /\ SeedsOK
  BY DEF Init, Idle, TablesOK, RequestsOK, SeedsOK
<1>2. PrefixesDiffer
  BY DEF Init, Idle, PrefixesDiffer, Pending
<1>3. ToldIsCommitted /\ LateSeedFinds /\ LateSeedAddsNone
  BY DEF Init, Idle, ToldIsCommitted, LateSeedFinds, LateSeedAddsNone
<1> QED
  BY <1>1, <1>2, <1>3

LEMMA StutterKeeps == ASSUME IInv, UNCHANGED vars PROVE IInv'
  BY DEF vars, TablesOK, RequestsOK, SeedsOK, PrefixesDiffer, Pending, ToldIsCommitted,
     LateSeedFinds, LateSeedAddsNone

LEMMA NextKeeps == IInv /\ [Next]_vars => IInv'
<1> SUFFICES ASSUME IInv, [Next]_vars PROVE IInv'
  OBVIOUS
<1>1. ASSUME NEW r \in Request, ArriveToRegister(r) \/ ArriveWithKey(r) \/ Connect(r)
      PROVE  IInv'
  BY <1>1, ArriveToRegisterKeeps, ArriveWithKeyKeeps, ConnectKeeps
<1>2. ASSUME NEW r \in Request, Commit(r) PROVE IInv'
  <2>1. Go(r, "answering") /\ req[r].pc = "inserted"
    BY <1>2 DEF Commit
  <2> QED
    BY <1>2, <2>1, CommitKeeps DEF Commit
<1>3. ASSUME NEW r \in Request, Insert(r) \/ Handle(r) \/ TimeOut(r) \/ LoseConnection(r)
      PROVE  IInv'
  BY <1>2, <1>3, InsertKeeps, ReadingKeeps, AnswerKeeps, LoseConnectionKeeps DEF Handle
<1>4. ASSUME NEW s \in Seed, SeedLaunch(s) \/ SeedStep(s) \/ SeedInsert(s) \/ SeedCrash(s)
      PROVE  IInv'
  BY <1>4, SeedLaunchKeeps, SeedCheckKeeps, SeedInsertKeeps, SeedCommitKeeps,
     SeedEndKeeps DEF SeedStep
<1> QED
  BY <1>1, <1>3, <1>4, CrashKeeps, StutterKeeps DEF Next

\* The inductive invariant: uniqueness of prefixes over table and open
\* transactions, commits before tellings, and what a late seed run can find.
THEOREM Invariance == Spec => []IInv
  BY InitHolds, NextKeeps, PTL DEF Spec

\* Tables, requests and seed runs keep their types.
THEOREM TypeCorrect == Spec => []TypeOK
<1>1. IInv => TypeOK
  OBVIOUS
<1> QED
  BY <1>1, Invariance, PTL

\* A key that was told opens its tenant and no other, for good.
THEOREM ToldKeysWork == Spec => []HandedKeysWork
<1>1. IInv => HandedKeysWork
  BY DEF HandedKeysWork, PrefixesDiffer, ToldIsCommitted, SamePrefix
<1> QED
  BY <1>1, Invariance, PTL

\* A seed run launched after any tenant was registered adds none.
THEOREM SeedIsIdempotent == Spec => []LateSeedAddsNone
<1>1. IInv => LateSeedAddsNone
  OBVIOUS
<1> QED
  BY <1>1, Invariance, PTL
=============================================================================

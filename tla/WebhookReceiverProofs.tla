----------------------- MODULE WebhookReceiverProofs ------------------------
(***************************************************************************)
(* Proofs about WebhookReceiver, for any number of workflows, paths,       *)
(* webhooks and changes, and a cache of any size.                          *)
(***************************************************************************)
EXTENDS WebhookReceiver, TLAPS

USE CacheAssumption, ReceiverAssumption DEF IInv, TypeOK
-----------------------------------------------------------------------------
(* The cache: every method leaves a sound cache sound *)

LEMMA RemoveIsSound ==
  ASSUME NEW c, CacheSound(c), NEW id \in Workflow
  PROVE  /\ CacheSound(Remove(c, objects, id))
         /\ Remove(c, objects, id).entry = [c.entry EXCEPT ![id] = 0]
<1> DEFINE d == RemovePathIndex(c, objects, id)
           e == Remove(c, objects, id)
<1>1. /\ DOMAIN d = {"order", "entry", "fresh", "index"}
      /\ d.entry = c.entry
      /\ d.index \in [Path -> Workflow \cup {None}]
      /\ \A p \in Path : d.index[p] \in {c.index[p], None}
  BY DEF CacheSound, RemovePathIndex
<1>2. e = [d EXCEPT !.order = Without(d.order, id), !.entry = [d.entry EXCEPT ![id] = 0],
                    !.fresh = d.fresh \ {id}]
  BY DEF Remove
<1> HIDE DEF d, e
<1>3. /\ DOMAIN e = {"order", "entry", "fresh", "index"}
      /\ e.entry = [c.entry EXCEPT ![id] = 0] /\ e.index = d.index
  BY <1>1, <1>2
<1>4. CacheSound(e)
  BY <1>1, <1>3 DEF CacheSound
<1> QED
  BY <1>3, <1>4 DEF e

\* The order of the entries is of no account, nor which of them an eviction takes.
LEMMA SubsetIsSound ==
  ASSUME NEW c, CacheSound(c), NEW order, NEW fresh, NEW entry,
         entry \in [Workflow -> 0..Len(objects)],
         \A id \in Workflow : entry[id] \in {c.entry[id], 0}
  PROVE  CacheSound([c EXCEPT !.order = order, !.entry = entry, !.fresh = fresh])
<1> DEFINE d == [c EXCEPT !.order = order, !.entry = entry, !.fresh = fresh]
<1>1. /\ DOMAIN d = {"order", "entry", "fresh", "index"}
      /\ d.entry = entry /\ d.index = c.index
  BY DEF CacheSound
<1> HIDE DEF d
<1>2. CacheSound(d)
  BY <1>1 DEF CacheSound
<1> QED
  BY <1>2 DEF d

LEMMA TouchIsSound ==
  ASSUME NEW c, CacheSound(c), NEW id \in Workflow
  PROVE  CacheSound(Touch(c, id))
<1> DEFINE order == Append(Without(c.order, id), id)
           d == [c EXCEPT !.order = order]
<1>1. d = Touch(c, id)
  BY DEF Touch
<1> HIDE DEF order
<1>2. /\ DOMAIN d = {"order", "entry", "fresh", "index"}
      /\ d.entry = c.entry /\ d.index = c.index
  BY DEF CacheSound
<1> HIDE DEF d
<1> QED
  BY <1>1, <1>2 DEF CacheSound

LEMMA InvalidateIsSound ==
  ASSUME NEW c, CacheSound(c), NEW id \in Workflow
  PROVE  CacheSound(Invalidate(c, objects, id))
  BY RemoveIsSound DEF Invalidate

LEMMA EvictIsSound ==
  ASSUME NEW c, CacheSound(c)
  PROVE  CacheSound(EvictLRU(c))
<1> DEFINE keep == Len(c.order) - MaxSize + 2
           kept == SubSeq(c.order, keep, Len(c.order))
           Kept(id) == \E i \in DOMAIN kept : kept[i] = id
           entry == [id \in Workflow |-> IF Kept(id) THEN c.entry[id] ELSE 0]
           fresh == {id \in c.fresh : Kept(id)}
<1>1. EvictLRU(c) = IF Len(c.order) < MaxSize THEN c
                    ELSE [c EXCEPT !.order = kept, !.entry = entry, !.fresh = fresh]
  BY DEF EvictLRU
<1> HIDE DEF keep, kept, Kept
<1>2. /\ entry \in [Workflow -> 0..Len(objects)]
      /\ \A id \in Workflow : entry[id] \in {c.entry[id], 0}
  BY DEF CacheSound
<1> HIDE DEF entry, fresh
<1>3. CacheSound([c EXCEPT !.order = kept, !.entry = entry, !.fresh = fresh])
  BY <1>2, SubsetIsSound
<1> QED
  BY <1>1, <1>3

\* set: the entry is the instance, and the index has its path.
LEMMA SetIsSound ==
  ASSUME NEW c, CacheSound(c), NEW n \in DOMAIN objects,
         objects \in Seq(Instance), InstancesAreKnown
  PROVE  CacheSound(Set(c, objects, n))
<1> DEFINE id   == objects[n].id
           path == objects[n].path
           room == EvictLRU(IF Has(c, id) THEN Remove(c, objects, id) ELSE c)
           new  == Set(c, objects, n)
<1>1. id \in Workflow /\ path \in Path \cup {None} /\ n \in 1..Len(objects)
  <2>1. objects[n] \in Instance /\ n \in 1..Len(objects)
    OBVIOUS
  <2> QED
    BY <2>1 DEF Instance
<1>2. path # None => owner[path] = id
  BY DEF InstancesAreKnown
<1>3. CacheSound(room)
  BY <1>1, RemoveIsSound, EvictIsSound
<1>4. new = [order |-> Append(room.order, id), entry |-> [room.entry EXCEPT ![id] = n],
             fresh |-> room.fresh \cup {id},
             index |-> IF path = None THEN room.index ELSE [room.index EXCEPT ![path] = id]]
  BY DEF Set
<1> HIDE DEF room, new
<1>5. /\ DOMAIN new = {"order", "entry", "fresh", "index"}
      /\ new.entry = [room.entry EXCEPT ![id] = n]
      /\ new.index = IF path = None THEN room.index ELSE [room.index EXCEPT ![path] = id]
  BY <1>4
<1>6. CacheSound(new)
  BY <1>1, <1>2, <1>3, <1>5 DEF CacheSound
<1> QED
  BY <1>6 DEF new
-----------------------------------------------------------------------------
(* The webhook handlers *)

\* What a step has to show that moves one handler and perhaps the cache.
LEMMA HandlerKeeps ==
  ASSUME IInv, NEW r \in Request, NEW q \in Handling, Refers(q),
         req' = [req EXCEPT ![r] = q], CacheSound(cache'),
         UNCHANGED <<table, objects, adm, settled>>,
         TablesOK', RunsAnActiveRevision', NothingOfDeleted'
  PROVE  IInv'
<1>1. RequestsOK' /\ req'[r] = q /\ \A t \in Request \ {r} : req'[t] = req[t]
  BY DEF RequestsOK
<1>2. \A t \in Request : Refers(req'[t])
  BY <1>1 DEF RequestsRefer
<1>3. RequestsRefer'
  BY <1>2 DEF RequestsRefer, Refers, table
<1>4. AdminsOK' /\ RowsAreKnown' /\ InstancesAreKnown' /\ CacheSound(cache)'
  BY DEF AdminsOK, RowsAreKnown, InstancesAreKnown, CacheSound, table
<1> QED
  BY <1>1, <1>3, <1>4

\* The same for one that leaves the records alone.
LEMMA QuietHandlerKeeps ==
  ASSUME IInv, NEW r \in Request, NEW q \in Handling, Refers(q),
         req' = [req EXCEPT ![r] = q], CacheSound(cache'),
         UNCHANGED <<table, objects, adm, records, settled>>
  PROVE  IInv'
<1>1. TablesOK' /\ RunsAnActiveRevision' /\ NothingOfDeleted'
  BY DEF TablesOK, RunsAnActiveRevision, NothingOfDeleted, table, records
<1> QED
  BY <1>1, HandlerKeeps DEF records

LEMMA IdleFits == Idle \in Handling /\ (IInv => Refers(Idle))
  BY DEF Idle, Handling, Refers

LEMMA AdmitKeeps ==
  ASSUME IInv, NEW r \in Request, NEW n \in DOMAIN objects, NEW q \in Handling,
         q.object = n, q.path \in Path, objects[n].id = owner[q.path],
         Admit(r, objects[n], q), CacheSound(cache'),
         UNCHANGED <<table, objects, adm, records, settled>>
  PROVE  IInv'
<1>1. CASE Answer(r)
  BY <1>1, IdleFits, QuietHandlerKeeps DEF Answer
<1>2. CASE ~Answer(r)
  <2>1. PICK pc \in {"logging", "rejecting"} :
          /\ req' = [req EXCEPT ![r] = [q EXCEPT !.pc = pc]]
          /\ pc = "logging" => objects[n].is_active
    BY <1>2 DEF Admit
  <2> DEFINE new == [q EXCEPT !.pc = pc]
  <2>2. new \in Handling /\ new.pc = pc /\ new.object = n /\ new.path = q.path
    BY DEF Handling
  <2> HIDE DEF new
  <2>3. Refers(new)
    BY <2>1, <2>2 DEF Refers
  <2> QED
    BY <2>1, <2>2, <2>3, QuietHandlerKeeps DEF new
<1> QED
  BY <1>1, <1>2

LEMMA ArrivalFits ==
  ASSUME IInv, NEW path \in Path
  PROVE  /\ Arrival(path) \in Handling /\ Arrival(path).path = path
         /\ \A n \in Nat : [Arrival(path) EXCEPT !.object = n] \in Handling
         /\ \A n \in Nat : [Arrival(path) EXCEPT !.object = n].object = n
         /\ \A n \in Nat : [Arrival(path) EXCEPT !.object = n].path = path
         /\ [Arrival(path) EXCEPT !.pc = "selecting"] \in Handling
         /\ Refers([Arrival(path) EXCEPT !.pc = "selecting"])
  BY DEF Arrival, Idle, Handling, Refers, AdminsOK

\* A hit serves the workflow the path was made for: the index says so.
LEMMA ReceiveHitKeeps ==
  ASSUME IInv, NEW r \in Request, NEW path \in Path, ReceiveHit(r, path),
         UNCHANGED <<table, objects, adm, records, settled>>
  PROVE  IInv'
<1>1. PICK id \in Hit(cache, path) :
        /\ cache' = Touch(cache, id)
        /\ Admit(r, objects[cache.entry[id]],
                 [Arrival(path) EXCEPT !.object = cache.entry[id]])
  BY DEF ReceiveHit
<1>2. id = cache.index[path] /\ id # None /\ cache.entry[id] # 0
  BY DEF Hit, Found, Has
<1>3. id \in Workflow
  BY <1>2 DEF CacheSound
<1> DEFINE n == cache.entry[id]
<1>4. n \in DOMAIN objects /\ n \in Nat /\ objects[n].id = owner[path]
  BY <1>2, <1>3 DEF CacheSound
<1>5. CacheSound(cache')
  BY <1>1, <1>3, TouchIsSound
<1> DEFINE q == [Arrival(path) EXCEPT !.object = n]
<1>6. q \in Handling /\ q.object = n /\ q.path = path
  BY <1>4, ArrivalFits
<1>7. Admit(r, objects[n], q)
  BY <1>1
<1> HIDE DEF n, q
<1> QED
  BY <1>4, <1>5, <1>6, <1>7, AdmitKeeps

LEMMA ReceiveKeeps ==
  ASSUME IInv, NEW r \in Request, NEW path \in Path, Receive(r, path)
  PROVE  IInv'
<1>1. UNCHANGED <<table, objects, adm, records, settled>>
  BY DEF Receive
<1>2. CASE ReceiveHit(r, path)
  BY <1>1, <1>2, ReceiveHitKeeps
<1>3. CASE ReceiveExpired(r, path)
  <2>1. PICK id \in Expired(cache, path) :
          IF RemoveRaises(cache, objects, id)
          THEN Answer(r) /\ UNCHANGED cache
          ELSE /\ cache' = Remove(cache, objects, id)
               /\ req' = [req EXCEPT ![r] = [Arrival(path) EXCEPT !.pc = "selecting"]]
    BY <1>3 DEF ReceiveExpired
  <2>2. id \in Workflow
    BY DEF Expired, Found, CacheSound
  <2>3. CASE RemoveRaises(cache, objects, id)
    BY <1>1, <2>1, <2>3, IdleFits, QuietHandlerKeeps DEF Answer
  <2>4. CASE ~RemoveRaises(cache, objects, id)
    <3>1. CacheSound(cache')
      BY <2>1, <2>2, <2>4, RemoveIsSound
    <3> QED
      BY <1>1, <2>1, <2>4, <3>1, ArrivalFits, QuietHandlerKeeps
  <2> QED
    BY <2>3, <2>4
<1>4. CASE ReceiveMiss(r, path)
  BY <1>1, <1>4, ArrivalFits, QuietHandlerKeeps DEF ReceiveMiss
<1> QED
  BY <1>2, <1>3, <1>4 DEF Receive

LEMMA StoreKeeps ==
  ASSUME IInv, NEW r \in Request, Store(r)
  PROVE  IInv'
<1> DEFINE n == req[r].object
<1>1. /\ n \in DOMAIN objects /\ req[r] \in Handling /\ req[r].path \in Path
      /\ objects[n].id = owner[req[r].path]
  BY DEF Store, RequestsOK, RequestsRefer, Refers
<1>2. UNCHANGED <<table, objects, adm, records, settled>>
  BY DEF Store
<1>3. CASE SetRaises(cache, objects, n)
  BY <1>2, <1>3, IdleFits, QuietHandlerKeeps DEF Store, Answer
<1>4. CASE ~SetRaises(cache, objects, n)
  <2>1. cache' = Set(cache, objects, n) /\ Admit(r, objects[n], req[r])
    BY <1>4 DEF Store, Obj
  <2>2. CacheSound(cache')
    BY <1>1, <2>1, SetIsSound
  <2> QED
    BY <1>1, <1>2, <2>1, <2>2, AdmitKeeps
<1> QED
  BY <1>3, <1>4

\* The handler goes on with the same instance.
LEMMA GoOnFits ==
  ASSUME IInv, NEW r \in Request, req[r].pc # "idle", req[r].pc # "selecting",
         NEW pc \in {"logged", "running", "raising", "rejected"},
         pc \in {"logged", "running"} => Obj(r).is_active,
         row[Obj(r).id].exists
  PROVE  [req[r] EXCEPT !.pc = pc] \in Handling /\ Refers([req[r] EXCEPT !.pc = pc])
<1> DEFINE q == [req[r] EXCEPT !.pc = pc]
<1>0. req[r] \in Handling
  BY DEF RequestsOK
<1>1. /\ q \in Handling /\ q.pc = pc /\ q.object = req[r].object
      /\ q.path = req[r].path
  BY <1>0 DEF Handling
<1> HIDE DEF q
<1>2. Refers(q)
  BY <1>1 DEF RequestsRefer, Refers, Obj
<1> QED
  BY <1>1, <1>2 DEF q

\* The foreign key finds the row.
LEMMA LogDeliveryKeeps ==
  ASSUME IInv, NEW r \in Request, LogDelivery(r)
  PROVE  IInv'
<1> DEFINE pc == IF req[r].pc = "logging" THEN "logged" ELSE "rejected"
<1>1. req' = [req EXCEPT ![r] = [req[r] EXCEPT !.pc = pc]]
  BY DEF LogDelivery, RequestsOK
<1>2. /\ pc \in {"logged", "rejected"} /\ row[Obj(r).id].exists
      /\ pc = "logged" => Obj(r).is_active
      /\ req[r].pc # "idle" /\ req[r].pc # "selecting"
  BY DEF LogDelivery, RequestsRefer, Refers, Obj
<1> HIDE DEF pc
<1>3. [req[r] EXCEPT !.pc = pc] \in Handling /\ Refers([req[r] EXCEPT !.pc = pc])
  BY <1>2, GoOnFits
<1> QED
  BY <1>1, <1>3, QuietHandlerKeeps DEF LogDelivery

LEMMA RunKeeps ==
  ASSUME IInv, NEW r \in Request, Run(r)
  PROVE  IInv'
<1>1. PICK parses \in BOOLEAN :
        req' = [req EXCEPT ![r].pc =
                  IF parses /\ ~Obj(r).lost THEN "running" ELSE "raising"]
  BY DEF Run
<1> DEFINE pc == IF parses /\ ~Obj(r).lost THEN "running" ELSE "raising"
<1>2. req' = [req EXCEPT ![r] = [req[r] EXCEPT !.pc = pc]]
  BY <1>1 DEF RequestsOK
<1>3. pc \in {"running", "raising"}
  OBVIOUS
<1> HIDE DEF pc
<1>4. req[r].pc = "logged" /\ Obj(r).is_active /\ row[Obj(r).id].exists
  BY DEF Run, RequestsRefer, Refers, Obj
<1>5. [req[r] EXCEPT !.pc = pc] \in Handling /\ Refers([req[r] EXCEPT !.pc = pc])
  BY <1>3, <1>4, GoOnFits
<1> QED
  BY <1>2, <1>5, QuietHandlerKeeps DEF Run, rest, table

\* Revisions are kept by Booleans and numbers: the instance that ran was active.
LEMMA RanActive ==
  ASSUME IInv, NEW r \in Request, req[r].pc = "running"
  PROVE  /\ Obj(r).id \in Workflow /\ Obj(r).revision \in Nat /\ row[Obj(r).id].exists
         /\ [id |-> Obj(r).id, is_active |-> TRUE, revision |-> Obj(r).revision]
              \in revisions
<1>1. /\ req[r].object \in DOMAIN objects /\ row[Obj(r).id].exists /\ Obj(r).is_active
  BY DEF RequestsRefer, Refers, Obj
<1>2. Obj(r) \in Instance
  BY <1>1 DEF Obj
<1>3. Obj(r).id \in Workflow /\ Obj(r).revision \in Nat /\ Obj(r).is_active = TRUE
  BY <1>1, <1>2 DEF Instance
<1>4. Triple(Obj(r)) \in revisions
  BY <1>1 DEF InstancesAreKnown, Obj
<1> QED
  BY <1>1, <1>3, <1>4 DEF Triple

\* What the handlers write has the type of the tables.
LEMMA RecordsFit ==
  ASSUME NEW id \in Workflow, NEW revision \in Nat, NEW ran \in BOOLEAN,
         NEW status \in {"accepted", "rejected", "error"}
  PROVE  /\ [id |-> id, revision |-> revision] \in [id : Workflow, revision : Nat]
         /\ [id |-> id, ran |-> ran, status |-> status] \in
              [id : Workflow, ran : BOOLEAN, status : {"accepted", "rejected", "error"}]
  OBVIOUS

\* The commit of a run, to its end or not, with its delivery.
LEMMA CommitKeeps ==
  ASSUME IInv, NEW r \in Request, req[r].pc = "running",
         NEW ran \in BOOLEAN, NEW status \in {"accepted", "rejected", "error"},
         executions' = executions \cup
           {[id |-> Obj(r).id, revision |-> Obj(r).revision]},
         deliveries' = deliveries \cup
           {[id |-> Obj(r).id, ran |-> ran, status |-> status]},
         Answer(r), UNCHANGED <<rest, objects, cache>>
  PROVE  IInv'
<1> DEFINE e == [id |-> Obj(r).id, revision |-> Obj(r).revision]
           d == [id |-> Obj(r).id, ran |-> ran, status |-> status]
<1>1. /\ executions' = executions \cup {e} /\ deliveries' = deliveries \cup {d}
      /\ UNCHANGED <<rest, objects, cache>> /\ Answer(r) /\ req[r].pc = "running"
  OBVIOUS
<1>3. TablesOK'
  <2>1. /\ e \in [id : Workflow, revision : Nat]
        /\ d \in [id : Workflow, ran : BOOLEAN,
                  status : {"accepted", "rejected", "error"}]
    BY <1>1, RanActive, RecordsFit
  <2> HIDE DEF e, d
  <2> QED
    BY <1>1, <2>1 DEF TablesOK, rest
<1>6. /\ e.id = Obj(r).id /\ e.revision = Obj(r).revision /\ d.id = Obj(r).id
      /\ row[Obj(r).id].exists
      /\ [id |-> Obj(r).id, is_active |-> TRUE, revision |-> Obj(r).revision]
           \in revisions
  BY <1>1, RanActive
<1> HIDE DEF e, d
<1>4. RunsAnActiveRevision'
  BY <1>1, <1>6 DEF RunsAnActiveRevision, rest
<1>5. NothingOfDeleted'
  BY <1>1, <1>6 DEF NothingOfDeleted, rest
<1> QED
  BY <1>1, <1>3, <1>4, <1>5, IdleFits, HandlerKeeps DEF rest, table, Answer

LEMMA AcceptKeeps ==
  ASSUME IInv, NEW r \in Request, Accept(r)
  PROVE  IInv'
<1> DEFINE status == IF Obj(r).lost THEN "error" ELSE "accepted"
<1>1. status \in {"accepted", "rejected", "error"}
  OBVIOUS
<1>2. /\ executions' = executions \cup
           {[id |-> Obj(r).id, revision |-> Obj(r).revision]}
      /\ deliveries' = deliveries \cup
           {[id |-> Obj(r).id, ran |-> TRUE, status |-> status]}
      /\ UNCHANGED <<rest, objects, cache>> /\ Answer(r) /\ req[r].pc = "running"
  BY DEF Accept
<1> HIDE DEF status
<1> QED
  BY <1>1, <1>2, CommitKeeps

\* A delivery without a run, recorded while its workflow is held.
LEMMA RecordingKeeps ==
  ASSUME IInv, NEW r \in Request,
         RecordError(r) \/ Reject(r), req[r].pc # "running"
  PROVE  IInv'
<1>1. PICK status \in {"error", "rejected"} :
        deliveries' = deliveries \cup
          {[id |-> Obj(r).id, ran |-> FALSE, status |-> status]}
  BY DEF RecordError, Reject
<1>2. /\ UNCHANGED <<rest, objects, cache, executions>> /\ Answer(r)
      /\ req[r].pc \in {"raising", "rejected"}
  BY DEF RecordError, Reject
<1>3. req[r].object \in DOMAIN objects /\ row[Obj(r).id].exists
  BY <1>2 DEF RequestsRefer, Refers, Obj
<1>4. Obj(r).id \in Workflow
  <2>1. Obj(r) \in Instance
    BY <1>3 DEF Obj
  <2> QED
    BY <2>1 DEF Instance
<1>5. TablesOK'
  <2> DEFINE d == [id |-> Obj(r).id, ran |-> FALSE, status |-> status]
  <2>1. d \in [id : Workflow, ran : BOOLEAN,
               status : {"accepted", "rejected", "error"}]
    BY <1>4, RecordsFit
  <2>2. deliveries' = deliveries \cup {d}
    BY <1>1
  <2> HIDE DEF d
  <2> QED
    BY <1>2, <2>1, <2>2 DEF TablesOK, rest
<1>6. RunsAnActiveRevision' /\ NothingOfDeleted'
  BY <1>1, <1>2, <1>3 DEF RunsAnActiveRevision, NothingOfDeleted, rest
<1> QED
  BY <1>2, <1>5, <1>6, IdleFits, HandlerKeeps DEF rest, table, Answer

\* An execution that raised on its way is committed with the delivery.
LEMMA RecordErrorKeeps ==
  ASSUME IInv, NEW r \in Request, RecordError(r)
  PROVE  IInv'
<1>1. CASE req[r].pc = "running"
  <2>1. /\ executions' = executions \cup
             {[id |-> Obj(r).id, revision |-> Obj(r).revision]}
        /\ deliveries' = deliveries \cup
             {[id |-> Obj(r).id, ran |-> FALSE, status |-> "error"]}
        /\ UNCHANGED <<rest, objects, cache>> /\ Answer(r)
    BY <1>1 DEF RecordError
  <2> QED
    BY <1>1, <2>1, CommitKeeps
<1> QED
  BY <1>1, RecordingKeeps

LEMMA RejectKeeps ==
  ASSUME IInv, NEW r \in Request, Reject(r)
  PROVE  IInv'
  BY RecordingKeeps DEF Reject
-----------------------------------------------------------------------------
(* Instances that are loaded and lost *)

\* Loading an instance or losing one changes nothing of what the others say.
LEMMA InstancesStay ==
  ASSUME IInv, objects' \in Seq(Instance), NEW r \in Request, RequestsOK',
         \A t \in Request \ {r} : req'[t] = req[t], Refers(req[r])',
         Len(objects) <= Len(objects'),
         \A n \in 1..Len(objects) :
           /\ objects'[n].id = objects[n].id /\ objects'[n].path = objects[n].path
           /\ objects'[n].is_active = objects[n].is_active
           /\ objects'[n].revision = objects[n].revision,
         \A n \in (Len(objects) + 1)..Len(objects') :
           /\ Triple(objects'[n]) \in revisions
           /\ objects'[n].path # None => owner[objects'[n].path] = objects'[n].id,
         UNCHANGED <<table, cache, adm, records, settled>>
  PROVE  IInv'
<1>1. DOMAIN objects = 1..Len(objects) /\ DOMAIN objects' = 1..Len(objects')
      /\ Len(objects) \in Nat /\ Len(objects') \in Nat
  OBVIOUS
<1>3. \A t \in Request \ {r} : Refers(req[t]) => Refers(req[t])'
  BY <1>1 DEF Refers, table
<1>4. RequestsRefer'
  BY <1>3 DEF RequestsRefer
<1>5. InstancesAreKnown'
  BY <1>1 DEF InstancesAreKnown, Triple, table
<1>6. CacheSound(cache)'
  <2>1. cache.entry \in [Workflow -> 0..Len(objects')]
    BY <1>1 DEF CacheSound
  <2>2. ASSUME NEW id \in Workflow, cache.entry[id] # 0
        PROVE  objects'[cache.entry[id]].id = id
    <3>1. cache.entry[id] \in 1..Len(objects) /\ objects[cache.entry[id]].id = id
      BY <1>1, <2>2 DEF CacheSound
    <3> QED
      BY <3>1
  <2> QED
    BY <2>1, <2>2 DEF CacheSound, table
<1>7. TablesOK' /\ AdminsOK' /\ RowsAreKnown' /\ RunsAnActiveRevision' /\ NothingOfDeleted'
  BY DEF TablesOK, AdminsOK, RowsAreKnown, RunsAnActiveRevision, NothingOfDeleted,
     table, records
<1> QED
  BY <1>4, <1>5, <1>6, <1>7

LEMMA SelectKeeps ==
  ASSUME IInv, NEW r \in Request, Select(r)
  PROVE  IInv'
<1>1. UNCHANGED <<table, cache, adm, records, settled>> /\ req[r].pc = "selecting"
  BY DEF Select
<1>2. CASE Answer(r) /\ UNCHANGED objects
  BY <1>1, <1>2, IdleFits, QuietHandlerKeeps DEF Answer
<1>3. CASE ~(Answer(r) /\ UNCHANGED objects)
  <2>1. PICK id \in Workflow :
          /\ row[id].exists /\ row[id].path = req[r].path
          /\ objects' = Append(objects,
               [id |-> id, path |-> row[id].path, lost |-> FALSE,
                is_active |-> row[id].is_active, revision |-> row[id].revision])
          /\ req' = [req EXCEPT ![r] = [@ EXCEPT !.pc = "selected",
                       !.object = Len(objects'), !.own = TRUE]]
    BY <1>3 DEF Select
  <2> DEFINE new == [id |-> id, path |-> row[id].path, lost |-> FALSE,
                     is_active |-> row[id].is_active, revision |-> row[id].revision]
             n == Len(objects')
             q == [req[r] EXCEPT !.pc = "selected", !.object = n, !.own = TRUE]
  <2>2. new \in Instance
    <3>1. row[id] \in TableRow
      BY DEF TablesOK
    <3>2. /\ row[id].path \in Path \cup {None} /\ row[id].is_active \in BOOLEAN
          /\ row[id].revision \in Nat
      BY <3>1 DEF TableRow
    <3> DEFINE path == row[id].path
               is_active == row[id].is_active
               revision == row[id].revision
    <3> HIDE DEF path, is_active, revision
    <3>3. [id |-> id, path |-> path, lost |-> FALSE, is_active |-> is_active,
           revision |-> revision] \in Instance
      BY <3>2 DEF Instance, path, is_active, revision
    <3> QED
      BY <3>3 DEF path, is_active, revision
  <2>3. req[r] \in Handling /\ req[r].path \in Path
    BY <1>1 DEF RequestsOK, RequestsRefer, Refers
  <2>4. /\ new.id = id /\ new.path = req[r].path /\ Triple(new) \in revisions
        /\ owner[req[r].path] = id
    BY <2>1, <2>3 DEF RowsAreKnown, Triple
  <2>5. objects' = Append(objects, new)
    BY <2>1
  <2> HIDE DEF new
  <2>6. /\ objects' \in Seq(Instance) /\ n \in Nat /\ n = Len(objects) + 1
        /\ objects'[n] = new
        /\ \A i \in 1..Len(objects) : objects'[i] = objects[i]
    BY <2>2, <2>5
  <2>7. req' = [req EXCEPT ![r] = q]
    BY <2>1 DEF RequestsOK
  <2> HIDE DEF n
  <2>8. q \in Handling /\ q.pc = "selected" /\ q.object = n /\ q.path = req[r].path
    BY <2>3, <2>6 DEF Handling
  <2> HIDE DEF q
  <2>11. RequestsOK' /\ req'[r] = q /\ \A t \in Request \ {r} : req'[t] = req[t]
    BY <2>7, <2>8 DEF RequestsOK
  <2>12. req'[r].object \in DOMAIN objects' /\ objects'[req'[r].object] = new
    BY <2>6, <2>8, <2>11 DEF n
  <2>9. Refers(req[r])'
    BY <1>1, <2>3, <2>4, <2>8, <2>11, <2>12, <2>6 DEF Refers, table
  <2>10. /\ Len(objects) <= Len(objects')
         /\ \A i \in (Len(objects) + 1)..Len(objects') : i = n
    BY <2>6 DEF n
  <2> QED
    BY <1>1, <2>3, <2>4, <2>6, <2>9, <2>10, <2>11, InstancesStay
<1> QED
  BY <1>2, <1>3

LEMMA FailFlushKeeps ==
  ASSUME IInv, NEW r \in Request, FailFlush(r)
  PROVE  IInv'
<1> DEFINE n == req[r].object
<1>1. UNCHANGED <<table, cache, adm, records, settled>> /\ Answer(r)
  BY DEF FailFlush
<1>2. CASE ~req[r].own
  BY <1>1, <1>2, IdleFits, QuietHandlerKeeps DEF FailFlush, Answer
<1>3. CASE req[r].own
  <2>1. n \in 1..Len(objects)
    BY DEF FailFlush, RequestsRefer, Refers
  <2> DEFINE o == [objects[n] EXCEPT !.lost = TRUE]
  <2>2. objects' = [objects EXCEPT ![n] = o]
    BY <1>3, <2>1 DEF FailFlush
  <2>3. objects[n] \in Instance
    BY <2>1
  <2>4. /\ o \in Instance /\ o.id = objects[n].id /\ o.path = objects[n].path
        /\ o.is_active = objects[n].is_active /\ o.revision = objects[n].revision
    BY <2>3 DEF Instance
  <2> HIDE DEF o
  <2>5. /\ objects' \in Seq(Instance) /\ Len(objects') = Len(objects)
        /\ objects'[n] = o
        /\ \A i \in 1..Len(objects) : i # n => objects'[i] = objects[i]
    BY <2>1, <2>2, <2>4
  <2>6. /\ RequestsOK' /\ \A t \in Request \ {r} : req'[t] = req[t]
        /\ Refers(req[r])'
    <3>1. RequestsOK' /\ req'[r] = Idle /\ \A t \in Request \ {r} : req'[t] = req[t]
      BY <1>1, IdleFits DEF Answer, RequestsOK
    <3>2. req'[r].pc = "idle" /\ req'[r].object = 0
      BY <3>1 DEF Idle
    <3> QED
      BY <3>1, <3>2 DEF Refers
  <2> HIDE DEF n
  <2>7. \A i \in 1..Len(objects) :
           /\ objects'[i].id = objects[i].id /\ objects'[i].path = objects[i].path
           /\ objects'[i].is_active = objects[i].is_active
           /\ objects'[i].revision = objects[i].revision
    BY <2>1, <2>4, <2>5
  <2>8. (Len(objects) + 1)..Len(objects') = {}
    BY <2>5
  <2> QED
    BY <1>1, <2>5, <2>6, <2>7, <2>8, InstancesStay
<1> QED
  BY <1>2, <1>3
-----------------------------------------------------------------------------
(* The changes *)

\* What PUT and DELETE do for themselves, the table and the cache aside.
LEMMA AdminKeeps ==
  ASSUME IInv, AdminsOK', CacheSound(cache'), UNCHANGED <<table, objects, req, records>>
  PROVE  IInv'
<1>1. TablesOK' /\ RequestsOK' /\ RunsAnActiveRevision' /\ NothingOfDeleted'
  BY DEF TablesOK, RequestsOK, RunsAnActiveRevision, NothingOfDeleted, table, records
<1>2. RowsAreKnown' /\ InstancesAreKnown' /\ CacheSound(cache)'
  BY DEF RowsAreKnown, InstancesAreKnown, CacheSound, table
<1>3. RequestsRefer'
  BY DEF RequestsRefer, Refers, table
<1> QED
  BY <1>1, <1>2, <1>3

LEMMA LoadKeeps ==
  ASSUME IInv, NEW a \in Admin, NEW id \in Workflow, Load(a, id)
  PROVE  IInv'
<1> DEFINE seen == row[id]
<1>1. seen \in TableRow
  BY DEF TablesOK
<1>2. PICK pc \in {"putting", "moving", "deleting"} :
        /\ adm' = [adm EXCEPT ![a] = [pc |-> pc, id |-> id, seen |-> seen]]
        /\ UNCHANGED <<table, objects, cache, req, records, settled>>
  BY DEF Load
<1> HIDE DEF seen
<1>3. AdminsOK'
  BY <1>1, <1>2 DEF AdminsOK, Changing
<1> QED
  BY <1>2, <1>3, AdminKeeps

LEMMA InstancesFit ==
  ASSUME objects \in Seq(Instance), NEW n \in DOMAIN objects
  PROVE  /\ objects[n].id \in Workflow /\ objects[n].path \in Path \cup {None}
         /\ objects[n].revision \in Nat
<1>1. objects[n] \in Instance
  OBVIOUS
<1> QED
  BY <1>1 DEF Instance

LEMMA GiveUpFits ==
  ASSUME IInv, NEW a \in Admin, adm' = [adm EXCEPT ![a] = AdmIdle],
         settled' \in [Workflow -> Nat]
  PROVE  AdminsOK'
  BY DEF AdminsOK, AdmIdle, Changing

LEMMA FailChangeKeeps ==
  ASSUME IInv, NEW a \in Admin, FailChange(a)
  PROVE  IInv'
<1>1. settled' \in [Workflow -> Nat] /\ UNCHANGED <<table, objects, cache, req, records>>
  BY DEF FailChange, AdminsOK
<1>2. AdminsOK'
  BY <1>1, GiveUpFits DEF FailChange
<1> QED
  BY <1>1, <1>2, AdminKeeps

LEMMA InvalidateAndAnswerKeeps ==
  ASSUME IInv, NEW a \in Admin, InvalidateAndAnswer(a)
  PROVE  IInv'
<1> DEFINE id == adm[a].id
           revision == adm[a].seen.revision
<1>1. id \in Workflow /\ adm[a].seen \in TableRow
  BY DEF InvalidateAndAnswer, AdminsOK
<1>2. revision \in Nat
  BY <1>1 DEF TableRow
<1>3. settled' \in [Workflow -> Nat]
  BY <1>1, <1>2 DEF InvalidateAndAnswer, AdminsOK
<1>4. AdminsOK'
  BY <1>3, GiveUpFits DEF InvalidateAndAnswer
<1>5. CacheSound(cache')
  BY <1>1, InvalidateIsSound DEF InvalidateAndAnswer
<1> QED
  BY <1>4, <1>5, AdminKeeps DEF InvalidateAndAnswer

LEMMA ExpireKeeps ==
  ASSUME IInv, NEW id \in Workflow, Expire(id)
  PROVE  IInv'
<1>1. UNCHANGED <<table, objects, req, adm, records, settled>>
      /\ cache' = [cache EXCEPT !.fresh = cache.fresh \ {id}]
  BY DEF Expire
<1>2. CacheSound(cache')
  BY <1>1 DEF CacheSound
<1>3. AdminsOK'
  BY <1>1 DEF AdminsOK
<1> QED
  BY <1>1, <1>2, <1>3, AdminKeeps

LEMMA EditFits ==
  ASSUME NEW old \in TableRow, NEW path \in Path \cup {None}, NEW is_active \in BOOLEAN
  PROVE  /\ Edited(old, is_active, path) \in TableRow
         /\ Edited(old, is_active, path).exists = old.exists
         /\ Edited(old, is_active, path).path = path
<1> DEFINE new == Edited(old, is_active, path)
<1>1. old.revision \in Nat
  BY DEF TableRow
<1>2. new.exists = old.exists /\ new.path = path
  BY DEF TableRow, Edited
<1> DEFINE one == [old EXCEPT !.is_active = is_active]
           two == [one EXCEPT !.path = path]
<1>3. one \in TableRow
  BY Zenon DEF TableRow
<1> HIDE DEF one
<1>4. two \in TableRow
  BY <1>3 DEF TableRow
<1> HIDE DEF two
<1>5. [two EXCEPT !.revision = old.revision + 1] \in TableRow
  BY <1>1, <1>4 DEF TableRow
<1>6. new = [two EXCEPT !.revision = old.revision + 1]
  BY DEF one, two, TableRow, Edited
<1> QED
  BY <1>2, <1>5, <1>6

\* A commit of a PUT: a new revision is committed with its row, and a path is
\* either the one the row had or one nobody has had.
LEMMA UpdateKeeps ==
  ASSUME IInv, NEW a \in Admin, Update(a)
  PROVE  IInv'
<1> DEFINE id == adm[a].id
<1>1. id \in Workflow /\ row[id] \in TableRow /\ row[id].exists /\ adm[a].seen \in TableRow
  BY DEF Update, AdminsOK, TablesOK
<1>2. PICK is_active \in {row[id].is_active, ~adm[a].seen.is_active}, path \in NewPaths(a) :
        /\ path # row[id].path => \A r \in Request : ~Locks(r, id)
        /\ row' = [row EXCEPT ![id] = Edited(@, is_active, path)]
        /\ owner' = IF path = None THEN owner ELSE [owner EXCEPT ![path] = id]
  BY Zenon DEF Update
<1>3. /\ revisions' = revisions \cup
           {[id |-> id, is_active |-> row'[id].is_active, revision |-> row'[id].revision]}
      /\ adm' = [adm EXCEPT ![a] = [adm[a] EXCEPT !.pc = "updated", !.seen = row'[id]]]
      /\ UNCHANGED <<objects, cache, req, records, settled>>
  BY DEF Update, AdminsOK
<1> HIDE DEF id
<1>4. is_active \in BOOLEAN
  <2>1. row[id].is_active \in BOOLEAN
    BY <1>1 DEF TableRow
  <2> QED
    BY <1>2, <2>1
<1>5. path \in Path \cup {None} /\ (path = None \/ path = row[id].path \/ owner[path] = None)
  BY <1>1, <1>2 DEF NewPaths, TableRow, id
<1> DEFINE new == Edited(row[id], is_active, path)
<1>6. new \in TableRow /\ new.exists = row[id].exists /\ new.path = path
  <2>1. row[id] \in TableRow /\ path \in Path \cup {None}
    BY <1>1, <1>5
  <2> QED
    BY ONLY <1>4, <2>1, EditFits, Zenon
<1>7. row' = [row EXCEPT ![id] = new]
  BY <1>2
<1> HIDE DEF new
<1>8. row'[id] = new /\ \A w \in Workflow \ {id} : row'[w] = row[w]
  BY <1>1, <1>7 DEF TablesOK
\* Who has a path keeps it.
<1>9. /\ owner' \in [Path -> Workflow \cup {None}]
      /\ \A p \in Path : owner[p] # None => owner'[p] = owner[p]
      /\ path # None => owner'[path] = id
  <2>1. path # None /\ path = row[id].path => owner[path] = id
    BY <1>1, <1>5 DEF RowsAreKnown
  <2> QED
    BY <1>1, <1>2, <1>5, <2>1 DEF TablesOK
<1>10. TablesOK'
  BY <1>1, <1>3, <1>6, <1>7, <1>9 DEF TablesOK, records
<1>11. AdminsOK'
  <2>1. adm[a] \in Changing
    BY DEF AdminsOK
  <2> DEFINE q == [adm[a] EXCEPT !.pc = "updated", !.seen = new]
  <2>2. q \in Changing /\ q.id = id /\ q.seen = new
    BY <1>6, <2>1 DEF Changing, id
  <2>3. adm' = [adm EXCEPT ![a] = q]
    BY <1>3, <1>8
  <2> HIDE DEF q
  <2> QED
    BY <1>1, <1>3, <1>6, <2>2, <2>3 DEF AdminsOK
<1>12. RowsAreKnown'
  <2> SUFFICES ASSUME NEW w \in Workflow, row'[w].exists
               PROVE  /\ [id |-> w, is_active |-> row'[w].is_active,
                          revision |-> row'[w].revision] \in revisions'
                      /\ row'[w].path # None => owner'[row'[w].path] = w
    BY DEF RowsAreKnown
  <2>1. CASE w = id
    BY <1>3, <1>6, <1>8, <1>9, <2>1
  <2>2. CASE w # id
    <3>1. row'[w] = row[w] /\ row[w].path \in Path \cup {None} /\ w # None
      BY <1>8, <2>2 DEF TablesOK, TableRow
    <3> QED
      BY <1>3, <1>9, <3>1 DEF RowsAreKnown
  <2> QED
    BY <2>1, <2>2
<1>13. InstancesAreKnown'
  <2>1. \A n \in DOMAIN objects :
          objects[n].path # None => objects[n].path \in Path /\ objects[n].id # None
    BY InstancesFit
  <2> QED
    BY <1>3, <1>9, <2>1 DEF InstancesAreKnown, Triple
<1>14. CacheSound(cache)'
  BY <1>3, <1>9 DEF CacheSound
<1>15. RequestsRefer'
  <2>1. \A r \in Request : req[r].object # 0 =>
          /\ req[r].object \in DOMAIN objects /\ Obj(r).id \in Workflow
    BY InstancesFit DEF RequestsRefer, Refers, Obj
  <2>2. \A w \in Workflow : row'[w].exists = row[w].exists
    BY <1>6, <1>8
  <2>3. \A r \in Request : Refers(req[r])'
    BY <1>3, <1>9, <2>1, <2>2 DEF RequestsRefer, Refers, Obj
  <2> QED
    BY <2>3 DEF RequestsRefer
<1>16. RunsAnActiveRevision' /\ NothingOfDeleted'
  BY <1>1, <1>3, <1>6, <1>8 DEF RunsAnActiveRevision, NothingOfDeleted, records, TablesOK
<1> QED
  BY <1>3, <1>10, <1>11, <1>12, <1>13, <1>14, <1>15, <1>16 DEF RequestsOK

LEMMA RemovedFits ==
  ASSUME NEW old \in TableRow
  PROVE  Removed(old) \in TableRow /\ Removed(old).exists = FALSE
<1>1. old.revision \in Nat
  BY DEF TableRow
<1> DEFINE one == [old EXCEPT !.exists = FALSE]
           two == [one EXCEPT !.path = None]
<1>2. one \in TableRow /\ one.exists = FALSE
  BY DEF TableRow
<1> HIDE DEF one
<1>3. two \in TableRow /\ two.exists = FALSE
  BY <1>2 DEF TableRow
<1> HIDE DEF two
<1>4. [two EXCEPT !.revision = old.revision + 1] \in TableRow
  BY <1>1, <1>3 DEF TableRow
<1>5. Removed(old) = [two EXCEPT !.revision = old.revision + 1]
  BY DEF one, two, TableRow, Removed
<1>6. Removed(old).exists = FALSE
  BY DEF Removed, TableRow
<1> QED
  BY <1>4, <1>5, <1>6

\* A DELETE waits for the handlers that hold the row, and takes its records along.
LEMMA DeleteKeeps ==
  ASSUME IInv, NEW a \in Admin, Delete(a)
  PROVE  IInv'
<1> DEFINE id == adm[a].id
           new == Removed(row[id])
<1>1. id \in Workflow /\ row[id] \in TableRow /\ adm[a].seen \in TableRow
  BY DEF Delete, AdminsOK, TablesOK
<1>2. /\ row' = [row EXCEPT ![id] = new]
      /\ executions' = {e \in executions : e.id # id}
      /\ deliveries' = {d \in deliveries : d.id # id}
      /\ adm' = [adm EXCEPT ![a] = [adm[a] EXCEPT !.pc = "deleted", !.seen = row'[id]]]
      /\ UNCHANGED <<revisions, owner, objects, cache, req, settled>>
      /\ \A r \in Request : ~Locks(r, id)
  BY DEF Delete, AdminsOK
<1>3. new \in TableRow /\ new.exists = FALSE
  BY <1>1, RemovedFits
<1> HIDE DEF new, id
<1>4. row'[id] = new /\ \A w \in Workflow \ {id} : row'[w] = row[w]
  BY <1>1, <1>2 DEF TablesOK
<1>5. TablesOK'
  BY <1>1, <1>2, <1>3 DEF TablesOK
<1>6. AdminsOK'
  <2>1. adm[a] \in Changing
    BY DEF AdminsOK
  <2> DEFINE q == [adm[a] EXCEPT !.pc = "deleted", !.seen = new]
  <2>2. q \in Changing /\ q.id = id /\ q.seen = new
    BY <1>3, <2>1 DEF Changing, id
  <2>3. adm' = [adm EXCEPT ![a] = q]
    BY <1>2, <1>4
  <2> HIDE DEF q
  <2> QED
    BY <1>1, <1>2, <1>3, <2>2, <2>3 DEF AdminsOK
<1>7. RowsAreKnown'
  BY <1>2, <1>3, <1>4 DEF RowsAreKnown
<1>8. InstancesAreKnown' /\ CacheSound(cache)'
  BY <1>2 DEF InstancesAreKnown, CacheSound
<1>9. RequestsRefer'
  <2>1. \A r \in Request : req[r].pc \in {"logged", "running", "raising", "rejected"} =>
          /\ objects[req[r].object].id # id
          /\ objects[req[r].object].id \in Workflow
    BY <1>2, InstancesFit DEF RequestsRefer, Refers, Locks, Obj
  <2>2. \A r \in Request : Refers(req[r])'
    BY <1>2, <1>4, <2>1 DEF RequestsRefer, Refers
  <2> QED
    BY <2>2 DEF RequestsRefer
<1>10. RunsAnActiveRevision' /\ NothingOfDeleted'
  <2>1. \A x \in executions \cup deliveries : x.id \in Workflow
    BY DEF TablesOK
  <2> QED
    BY <1>2, <1>4, <2>1 DEF RunsAnActiveRevision, NothingOfDeleted
<1> QED
  BY <1>2, <1>5, <1>6, <1>7, <1>8, <1>9, <1>10 DEF RequestsOK
-----------------------------------------------------------------------------
LEMMA InitHolds == Init => IInv
<1> SUFFICES ASSUME Init PROVE IInv
  OBVIOUS
<1>1. TablesOK
  BY DEF Init, TablesOK, TableRow
<1>2. \A id \in Workflow : owner[FirstPath[id]] = id
  BY DEF Init
<1>3. objects = << >> /\ Len(objects) = 0 /\ DOMAIN objects = {}
  BY DEF Init
<1>4. RequestsOK /\ AdminsOK /\ objects \in Seq(Instance)
  BY DEF Init, RequestsOK, AdminsOK, Idle, AdmIdle, Handling, Changing
<1>5. RowsAreKnown
  <2> SUFFICES ASSUME NEW id \in Workflow
               PROVE  /\ [id |-> id, is_active |-> row[id].is_active,
                          revision |-> row[id].revision] \in revisions
                      /\ owner[row[id].path] = id
    BY DEF RowsAreKnown
  <2>1. /\ row[id].is_active = TRUE /\ row[id].revision = 1
        /\ row[id].path = FirstPath[id]
    BY DEF Init
  <2>2. [id |-> id, is_active |-> TRUE, revision |-> 1] \in revisions
    BY DEF Init
  <2> QED
    BY <1>2, <2>1, <2>2
<1>6. InstancesAreKnown
  BY <1>3 DEF InstancesAreKnown
<1>7. CacheSound(cache)
  BY <1>3 DEF Init, CacheSound, EmptyCache
<1>8. RequestsRefer
  BY DEF Init, RequestsRefer, Refers, Idle
<1>9. RunsAnActiveRevision /\ NothingOfDeleted
  BY DEF Init, RunsAnActiveRevision, NothingOfDeleted
<1> QED
  BY <1>1, <1>4, <1>5, <1>6, <1>7, <1>8, <1>9

LEMMA HandleKeeps ==
  ASSUME IInv, NEW r \in Request, Handle(r)
  PROVE  IInv'
  BY SelectKeeps, StoreKeeps, LogDeliveryKeeps, RunKeeps, AcceptKeeps, RecordErrorKeeps,
     RejectKeeps, FailFlushKeeps DEF Handle

LEMMA ChangeKeeps ==
  ASSUME IInv, NEW a \in Admin, Change(a)
  PROVE  IInv'
  BY UpdateKeeps, DeleteKeeps, InvalidateAndAnswerKeeps, FailChangeKeeps DEF Change

LEMMA StutterKeeps ==
  ASSUME IInv, UNCHANGED vars
  PROVE  IInv'
<1>1. AdminsOK' /\ CacheSound(cache') /\ UNCHANGED <<table, objects, req, records>>
  BY DEF vars, AdminsOK, table, records
<1> QED
  BY <1>1, AdminKeeps

LEMMA NextKeeps == IInv /\ [Next]_vars => IInv'
<1> SUFFICES ASSUME IInv, [Next]_vars PROVE IInv'
  OBVIOUS
<1>1. CASE \E r \in Request : Handle(r) \/ \E path \in Path : Receive(r, path)
  BY <1>1, HandleKeeps, ReceiveKeeps
<1>2. CASE \E a \in Admin : Change(a) \/ \E id \in Workflow : Load(a, id)
  BY <1>2, ChangeKeeps, LoadKeeps
<1>3. CASE \E id \in Workflow : Expire(id)
  BY <1>3, ExpireKeeps
<1>4. CASE Fault
  BY <1>4, FailFlushKeeps, FailChangeKeeps DEF Fault
<1> QED
  BY <1>1, <1>2, <1>3, <1>4, StutterKeeps DEF Next

\* The inductive invariant: instances are committed revisions, the index leads to
\* owners, and a handler past its first flush holds its row.
THEOREM Invariance == Spec => []IInv
  BY InitHolds, NextKeeps, PTL DEF Spec

\* receive_webhook never serves a workflow the path was not generated for, though
\* evictions leave paths in the index and instances outlive their rows.
THEOREM PathsServeTheirOwner == Spec => []ServesItsOwner
<1>1. IInv => ServesItsOwner
  BY DEF RequestsRefer, Refers, Obj, ServesItsOwner
<1> QED
  BY <1>1, Invariance, PTL

\* What receive_webhook runs was committed as one active revision.
THEOREM RunsAreOfActiveRevisions == Spec => []RunsAnActiveRevision
<1>1. IInv => RunsAnActiveRevision
  OBVIOUS
<1> QED
  BY <1>1, Invariance, PTL

\* What is cached after a DELETE never leads to a committed record.
THEOREM DeletedLeavesNothing == Spec => []NothingOfDeleted
<1>1. IInv => NothingOfDeleted
  OBVIOUS
<1> QED
  BY <1>1, Invariance, PTL
-----------------------------------------------------------------------------
(* The order of the entries *)

\* Each key once and in its place: taking one out leaves the others.
LEMMA WithoutFits ==
  ASSUME NEW order \in Seq(Workflow), OneEach(order), NEW id, Lists(order, id)
  PROVE  /\ Without(order, id) \in Seq(Workflow)
         /\ Len(Without(order, id)) = Len(order) - 1
         /\ OneEach(Without(order, id))
         /\ \A w : Lists(Without(order, id), w) <=> Lists(order, w) /\ w # id
<1> DEFINE k == CHOOSE i \in 1..Len(order) : order[i] = id
           left == [i \in 1..Len(order) - 1 |-> order[IF i < k THEN i ELSE i + 1]]
<1>1. k \in 1..Len(order) /\ order[k] = id
  BY DEF Lists
<1>2. Without(order, id) = left
  BY DEF Without
<1> HIDE DEF k
<1>3. Len(order) \in Nat /\ Len(order) >= 1
  BY <1>1
<1>4. /\ left \in Seq(Workflow) /\ Len(left) = Len(order) - 1
      /\ \A i \in 1..Len(order) - 1 : left[i] = order[IF i < k THEN i ELSE i + 1]
  BY <1>1, <1>3
<1> HIDE DEF left
<1>5. OneEach(left)
  BY <1>1, <1>3, <1>4 DEF OneEach
<1>6. ASSUME NEW w, Lists(left, w) PROVE Lists(order, w) /\ w # id
  <2>1. PICK i \in 1..Len(left) : left[i] = w
    BY <1>6 DEF Lists
  <2> DEFINE j == IF i < k THEN i ELSE i + 1
  <2>2. j \in 1..Len(order) /\ j # k /\ left[i] = order[j]
    BY <1>1, <1>3, <1>4
  <2> QED
    BY <1>1, <2>1, <2>2 DEF Lists, OneEach
<1>7. ASSUME NEW w, Lists(order, w), w # id PROVE Lists(left, w)
  <2>1. PICK j \in 1..Len(order) : order[j] = w /\ j # k
    BY <1>1, <1>7 DEF Lists
  <2>2. CASE j < k
    BY <1>1, <1>3, <1>4, <2>1, <2>2 DEF Lists
  <2>3. CASE j > k
    <3>1. j - 1 \in 1..Len(left) /\ left[j - 1] = order[j]
      BY <1>1, <1>3, <1>4, <2>3
    <3> QED
      BY <2>1, <3>1 DEF Lists
  <2> QED
    BY <1>1, <2>1, <2>2, <2>3
<1> QED
  BY <1>2, <1>4, <1>5, <1>6, <1>7

LEMMA AppendFits ==
  ASSUME NEW order \in Seq(Workflow), OneEach(order), NEW id \in Workflow,
         ~Lists(order, id)
  PROVE  /\ Append(order, id) \in Seq(Workflow)
         /\ Len(Append(order, id)) = Len(order) + 1
         /\ OneEach(Append(order, id))
         /\ \A w : Lists(Append(order, id), w) <=> Lists(order, w) \/ w = id
<1> DEFINE new == Append(order, id)
<1>1. /\ new \in Seq(Workflow) /\ Len(new) = Len(order) + 1 /\ Len(order) \in Nat
      /\ new[Len(order) + 1] = id /\ \A i \in 1..Len(order) : new[i] = order[i]
  OBVIOUS
<1> HIDE DEF new
<1>2. OneEach(new)
  BY <1>1 DEF OneEach, Lists
<1>3. ASSUME NEW w PROVE Lists(new, w) <=> Lists(order, w) \/ w = id
  BY <1>1 DEF Lists
<1> QED
  BY <1>1, <1>2, <1>3 DEF new

\* The end of the list, from its n-th entry on.
LEMMA RestFits ==
  ASSUME NEW order \in Seq(Workflow), OneEach(order),
         NEW n \in 1..Len(order) + 1
  PROVE  LET last == SubSeq(order, n, Len(order))
         IN  /\ last \in Seq(Workflow) /\ Len(last) = Len(order) + 1 - n
             /\ OneEach(last) /\ \A w : Lists(last, w) => Lists(order, w)
<1> DEFINE last == SubSeq(order, n, Len(order))
<1>1. /\ last \in Seq(Workflow) /\ Len(last) = Len(order) + 1 - n /\ Len(order) \in Nat
      /\ \A i \in 1..Len(last) : last[i] = order[i + n - 1]
  OBVIOUS
<1> HIDE DEF last
<1>2. OneEach(last)
  BY <1>1 DEF OneEach
<1>3. ASSUME NEW w, Lists(last, w) PROVE Lists(order, w)
  <2>1. PICK i \in 1..Len(last) : last[i] = w
    BY <1>3 DEF Lists
  <2>2. i + n - 1 \in 1..Len(order) /\ order[i + n - 1] = w
    BY <1>1, <2>1
  <2> QED
    BY <2>2 DEF Lists
<1> QED
  BY <1>1, <1>2, <1>3 DEF last
-----------------------------------------------------------------------------
(* The cache: one list of what it holds, found by its paths *)

\* What the next lemmas assume of a cache.
Kept(c) == CacheSound(c) /\ InOrder(c) /\ LeadsBack(c)

LEMMA RemoveIsInOrder ==
  ASSUME objects \in Seq(Instance), NEW c, Kept(c), NEW id \in Held(c)
  PROVE  /\ Kept(Remove(c, objects, id))
         /\ Len(Remove(c, objects, id).order) = Len(c.order) - 1
         /\ Held(Remove(c, objects, id)) = Held(c) \ {id}
<1> DEFINE path == objects[c.entry[id]].path
           order == Without(c.order, id)
           entry == [c.entry EXCEPT ![id] = 0]
           index == [c.index EXCEPT ![path] = None]
           d == Remove(c, objects, id)
<1>1. /\ id \in Workflow /\ c.entry[id] \in 1..Len(objects)
      /\ path # None /\ c.index[path] = id /\ Lists(c.order, id)
  BY DEF Kept, CacheSound, InOrder, LeadsBack, Held, Has
<1>2. path \in Path
  BY <1>1, InstancesFit
<1>3. CacheSound(d)
  BY <1>1, RemoveIsSound DEF Kept
<1>4. /\ d.order = order /\ d.entry = entry /\ d.index = index
      /\ d.fresh = c.fresh \ {id}
  BY <1>1 DEF Kept, CacheSound, Remove, RemovePathIndex
<1>5. /\ order \in Seq(Workflow) /\ Len(order) = Len(c.order) - 1 /\ OneEach(order)
      /\ \A w : Lists(order, w) <=> Lists(c.order, w) /\ w # id
  BY <1>1, WithoutFits DEF Kept, InOrder
<1> HIDE DEF d, order, path
<1>6. \A w \in Workflow : d.entry[w] = IF w = id THEN 0 ELSE c.entry[w]
  BY <1>4 DEF Kept, CacheSound
<1>7. Held(d) = Held(c) \ {id}
  BY <1>6 DEF Held, Has
<1>8. InOrder(d)
  BY <1>4, <1>5, <1>7 DEF Kept, InOrder
<1>9. LeadsBack(d)
  <2> SUFFICES ASSUME NEW w \in Held(c), w # id
               PROVE  LET o == objects[d.entry[w]]
                      IN  o.id = w /\ o.path # None /\ d.index[o.path] = w
    BY <1>7 DEF LeadsBack
  <2> DEFINE o == objects[c.entry[w]]
  <2>1. w \in Workflow /\ d.entry[w] = c.entry[w] /\ c.entry[w] \in 1..Len(objects)
    BY <1>6 DEF Held, Has, Kept, CacheSound
  <2>2. o.id = w /\ o.path # None /\ c.index[o.path] = w /\ o.path \in Path
    BY <2>1, InstancesFit DEF Kept, LeadsBack
  <2> HIDE DEF o
  <2>3. d.index[o.path] = w
    BY <1>1, <1>2, <1>4, <2>2 DEF Kept, CacheSound
  <2> QED
    BY <2>1, <2>2, <2>3 DEF o
<1> QED
  BY <1>3, <1>4, <1>5, <1>7, <1>8, <1>9 DEF Kept, d

LEMMA InvalidateIsInOrder ==
  ASSUME objects \in Seq(Instance), NEW c, Kept(c), NEW id \in Workflow
  PROVE  Kept(Invalidate(c, objects, id))
  BY RemoveIsInOrder DEF Invalidate, Held

LEMMA TouchIsInOrder ==
  ASSUME NEW c, Kept(c), NEW id \in Held(c)
  PROVE  Kept(Touch(c, id))
<1> DEFINE left == Without(c.order, id)
           order == Append(left, id)
           d == Touch(c, id)
<1>1. id \in Workflow /\ Lists(c.order, id) /\ OneEach(c.order) /\ c.order \in Seq(Workflow)
  BY DEF Kept, InOrder, Held
<1>2. /\ left \in Seq(Workflow) /\ Len(left) = Len(c.order) - 1 /\ OneEach(left)
      /\ \A w : Lists(left, w) <=> Lists(c.order, w) /\ w # id
  BY <1>1, WithoutFits
<1>3. /\ d.order = order /\ d.entry = c.entry /\ d.index = c.index /\ d.fresh = c.fresh
  BY DEF Kept, CacheSound, Touch
<1>4. CacheSound(d)
  BY <1>1, TouchIsSound DEF Kept
<1> HIDE DEF left, d
<1>5. /\ order \in Seq(Workflow) /\ Len(order) = Len(left) + 1 /\ OneEach(order)
      /\ \A w : Lists(order, w) <=> Lists(left, w) \/ w = id
  BY <1>1, <1>2, AppendFits
<1> HIDE DEF order
<1>6. Held(d) = Held(c)
  BY <1>3 DEF Held, Has
<1>7. Len(order) = Len(c.order) /\ \A w \in Workflow : Lists(order, w) <=> Lists(c.order, w)
  BY <1>1, <1>2, <1>5
<1>8. InOrder(d)
  BY <1>3, <1>5, <1>6, <1>7 DEF Kept, InOrder
<1>9. LeadsBack(d)
  BY <1>3, <1>6 DEF Kept, LeadsBack
<1> QED
  BY <1>4, <1>8, <1>9 DEF Kept, d

\* An eviction leaves room for one entry.
LEMMA EvictIsInOrder ==
  ASSUME NEW c, Kept(c)
  PROVE  /\ Kept(EvictLRU(c)) /\ Len(EvictLRU(c).order) < MaxSize
         /\ Held(EvictLRU(c)) \subseteq Held(c)
<1>1. CASE Len(c.order) < MaxSize
  BY <1>1 DEF EvictLRU, Kept
<1>2. CASE Len(c.order) >= MaxSize
  <2> DEFINE n == Len(c.order) - MaxSize + 2
             kept == SubSeq(c.order, n, Len(c.order))
             InKept(id) == \E i \in DOMAIN kept : kept[i] = id
             entry == [id \in Workflow |-> IF InKept(id) THEN c.entry[id] ELSE 0]
             fresh == {id \in c.fresh : InKept(id)}
             d == EvictLRU(c)
  <2>1. c.order \in Seq(Workflow) /\ OneEach(c.order) /\ Len(c.order) = MaxSize
    BY <1>2 DEF Kept, InOrder
  <2>2. n \in 1..Len(c.order) + 1 /\ Len(c.order) + 1 - n = MaxSize - 1
    BY <2>1
  <2>3. Len(c.order) \in Nat
    BY <2>1
  <2>4. d = IF Len(c.order) < MaxSize THEN c
            ELSE [c EXCEPT !.order = kept, !.entry = entry, !.fresh = fresh]
    BY DEF EvictLRU
  <2> HIDE DEF n, d
  <2>5. /\ kept \in Seq(Workflow) /\ Len(kept) = Len(c.order) + 1 - n
        /\ OneEach(kept) /\ \A w : Lists(kept, w) => Lists(c.order, w)
    BY <2>1, <2>2, RestFits
  <2> HIDE DEF kept
  <2>6. \A w : InKept(w) <=> Lists(kept, w)
    BY <2>5 DEF Lists
  <2> HIDE DEF InKept, entry, fresh
  <2>7. d = [c EXCEPT !.order = kept, !.entry = entry, !.fresh = fresh]
    BY <2>1, <2>3, <2>4
  <2>8. d.order = kept /\ d.entry = entry /\ d.fresh = fresh /\ d.index = c.index
    BY <2>7 DEF Kept, CacheSound
  <2>9. CacheSound(d)
    BY EvictIsSound DEF Kept, d
  <2>10. \A w \in Workflow : d.entry[w] = IF Lists(kept, w) THEN c.entry[w] ELSE 0
    BY <2>6, <2>8 DEF entry
  <2>11. \A w \in Workflow : w \in Held(d) <=> Lists(kept, w)
    BY <2>5, <2>10 DEF Held, Has, Kept, InOrder
  <2>12. Held(d) \subseteq Held(c)
    BY <2>10 DEF Held, Has
  <2>13. InOrder(d)
    <3>1. d.fresh \subseteq Held(d)
      BY <2>6, <2>8, <2>11 DEF Kept, InOrder, Held, fresh
    <3> QED
      BY <2>2, <2>1, <2>5, <2>8, <2>11, <3>1 DEF InOrder
  <2>14. LeadsBack(d)
    <3>1. \A w \in Held(d) : w \in Held(c) /\ d.entry[w] = c.entry[w]
      BY <2>10, <2>12 DEF Held, Has
    <3> QED
      BY <2>8, <3>1 DEF Kept, LeadsBack
  <2> QED
    BY <2>1, <2>2, <2>5, <2>8, <2>9, <2>12, <2>13, <2>14 DEF Kept, d
<1>3. Len(c.order) \in Nat
  BY DEF Kept, InOrder
<1> QED
  BY <1>1, <1>2, <1>3

\* No two workflows share a path, so the new index entry is nobody else's.
LEMMA SetIsInOrder ==
  ASSUME objects \in Seq(Instance), InstancesAreKnown, NEW c, Kept(c),
         NEW n \in DOMAIN objects, objects[n].path # None
  PROVE  Kept(Set(c, objects, n))
<1> DEFINE id   == objects[n].id
           path == objects[n].path
           room == EvictLRU(IF Has(c, id) THEN Remove(c, objects, id) ELSE c)
           new  == Set(c, objects, n)
           order == Append(room.order, id)
<1>1. id \in Workflow /\ path \in Path /\ path # None /\ n \in 1..Len(objects)
  BY InstancesFit
<1>2. Kept(room) /\ Len(room.order) < MaxSize /\ id \notin Held(room)
  <2>1. CASE Has(c, id)
    <3>1. id \in Held(c)
      BY <1>1, <2>1 DEF Held
    <3> QED
      BY <2>1, <3>1, RemoveIsInOrder, EvictIsInOrder
  <2>2. CASE ~Has(c, id)
    <3>1. id \notin Held(c)
      BY <2>2 DEF Held
    <3> QED
      BY <2>2, <3>1, EvictIsInOrder
  <2> QED
    BY <2>1, <2>2
<1>3. CacheSound(new)
  BY SetIsSound DEF Kept
<1>4. new = [order |-> order, entry |-> [room.entry EXCEPT ![id] = n],
             fresh |-> room.fresh \cup {id}, index |-> [room.index EXCEPT ![path] = id]]
  BY <1>1 DEF Set
<1> HIDE DEF room, new
<1>5. /\ new.order = order /\ new.entry = [room.entry EXCEPT ![id] = n]
      /\ new.fresh = room.fresh \cup {id}
      /\ new.index = [room.index EXCEPT ![path] = id]
  BY <1>4
<1>6. ~Lists(room.order, id)
  BY <1>1, <1>2 DEF Kept, InOrder
<1>7. /\ order \in Seq(Workflow) /\ Len(order) = Len(room.order) + 1 /\ OneEach(order)
      /\ \A w : Lists(order, w) <=> Lists(room.order, w) \/ w = id
  BY <1>1, <1>2, <1>6, AppendFits DEF Kept, InOrder
<1> HIDE DEF order
<1>8. /\ new.entry[id] = n
      /\ \A w \in Workflow \ {id} : new.entry[w] = room.entry[w]
  BY <1>1, <1>2, <1>5 DEF Kept, CacheSound
<1>9. Held(new) = Held(room) \cup {id}
  BY <1>1, <1>8 DEF Held, Has
<1>10. InOrder(new)
  <2>1. Len(order) <= MaxSize
    BY <1>2, <1>7 DEF Kept, InOrder
  <2> QED
    BY <1>1, <1>2, <1>5, <1>7, <1>9, <2>1 DEF Kept, InOrder
<1>11. LeadsBack(new)
  <2>1. new.index[path] = id
    BY <1>1, <1>2, <1>5 DEF Kept, CacheSound
  <2>2. ASSUME NEW w \in Held(room)
        PROVE  LET o == objects[new.entry[w]]
               IN  o.id = w /\ o.path # None /\ new.index[o.path] = w
    <3> DEFINE m == room.entry[w]
               o == objects[m]
    <3>1. w \in Workflow /\ w # id /\ m \in 1..Len(objects) /\ new.entry[w] = m
      BY <1>2, <1>8 DEF Held, Has, Kept, CacheSound
    <3>2. o.id = w /\ o.path # None /\ room.index[o.path] = w
      BY <1>2 DEF Kept, LeadsBack
    <3>3. o.path \in Path /\ owner[o.path] = w /\ owner[path] = id
      BY <1>1, <3>1, <3>2, InstancesFit DEF InstancesAreKnown
    <3>4. new.index[o.path] = w
      BY <1>2, <1>5, <3>1, <3>2, <3>3 DEF Kept, CacheSound
    <3> QED
      BY <3>1, <3>2, <3>4
  <2> QED
    BY <1>1, <1>8, <1>9, <2>1, <2>2 DEF LeadsBack
<1> QED
  BY <1>3, <1>10, <1>11 DEF Kept, new
-----------------------------------------------------------------------------
(* The steps, once more *)

\* A step that moves the cache, if at all, to one in order.
LEMMA CacheMoves ==
  ASSUME CacheIInv, IInv', UNCHANGED objects, InOrder(cache'), LeadsBack(cache')
  PROVE  CacheIInv'
<1>1. InstancesHavePaths'
  BY DEF CacheIInv, InstancesHavePaths
<1>2. CacheInv'
  BY DEF CacheInv, LeadsBack
<1> QED
  BY <1>1, <1>2 DEF CacheIInv

\* A step that leaves the cache alone and the paths of what is loaded.
LEMMA CacheStays ==
  ASSUME CacheIInv, IInv', UNCHANGED cache, Len(objects) <= Len(objects'),
         \A n \in 1..Len(objects) :
           objects'[n].id = objects[n].id /\ objects'[n].path = objects[n].path,
         \A n \in (Len(objects) + 1)..Len(objects') : objects'[n].path # None
  PROVE  CacheIInv'
<1>1. /\ DOMAIN objects = 1..Len(objects) /\ DOMAIN objects' = 1..Len(objects')
      /\ Len(objects) \in Nat /\ Len(objects') \in Nat
  BY DEF CacheIInv
<1>2. InstancesHavePaths'
  BY <1>1 DEF CacheIInv, InstancesHavePaths
<1>3. InOrder(cache)'
  BY DEF CacheIInv, CacheInv
<1>4. LeadsBack(cache)'
  <2>1. ASSUME NEW id \in Held(cache)
        PROVE  LET o == objects'[cache.entry[id]]
               IN  o.id = id /\ o.path # None /\ cache.index[o.path] = id
    <3>1. cache.entry[id] \in 1..Len(objects)
      BY <1>1 DEF CacheIInv, CacheSound, Held, Has
    <3> QED
      BY <3>1 DEF CacheIInv, CacheInv, LeadsBack
  <2> QED
    BY <2>1 DEF LeadsBack
<1> QED
  BY <1>2, <1>3, <1>4 DEF CacheIInv, CacheInv

LEMMA NothingMoves ==
  ASSUME CacheIInv, IInv', UNCHANGED <<objects, cache>>
  PROVE  CacheIInv'
  BY CacheMoves DEF CacheIInv, CacheInv

LEMMA IsKept == CacheIInv => Kept(cache) /\ objects \in Seq(Instance) /\ InstancesAreKnown
  BY DEF CacheIInv, CacheInv, Kept

\* receive_webhook on a hit moves the entry, on an expired one removes it.
LEMMA ReceiveKeepsCache ==
  ASSUME CacheIInv, IInv', NEW r \in Request, NEW path \in Path, Receive(r, path)
  PROVE  CacheIInv'
<1>1. UNCHANGED objects
  BY DEF Receive
<1>2. \A id : id \in Found(cache, path) => id \in Held(cache)
  BY DEF Found, Held, Has, CacheIInv, CacheSound
<1>3. CASE ReceiveHit(r, path)
  <2>1. PICK id \in Held(cache) : cache' = Touch(cache, id)
    BY <1>2, <1>3 DEF ReceiveHit, Hit
  <2> QED
    BY <1>1, <2>1, IsKept, TouchIsInOrder, CacheMoves DEF Kept
<1>4. CASE ReceiveExpired(r, path)
  <2>1. PICK id \in Held(cache) : cache' = Remove(cache, objects, id) \/ UNCHANGED cache
    BY <1>2, <1>4 DEF ReceiveExpired, Expired
  <2> QED
    BY <1>1, <2>1, IsKept, RemoveIsInOrder, CacheMoves, NothingMoves DEF Kept
<1>5. CASE ReceiveMiss(r, path)
  BY <1>1, <1>5, NothingMoves DEF ReceiveMiss
<1> QED
  BY <1>3, <1>4, <1>5 DEF Receive

LEMMA SelectKeepsCache ==
  ASSUME CacheIInv, IInv', NEW r \in Request, Select(r)
  PROVE  CacheIInv'
<1>1. CASE UNCHANGED objects
  BY <1>1, NothingMoves DEF Select
<1>2. CASE ~UNCHANGED objects
  <2>1. PICK id \in Workflow :
          /\ row[id].path = req[r].path
          /\ objects' = Append(objects,
               [id |-> id, path |-> row[id].path, lost |-> FALSE,
                is_active |-> row[id].is_active, revision |-> row[id].revision])
    BY <1>2 DEF Select
  <2> DEFINE new == [id |-> id, path |-> row[id].path, lost |-> FALSE,
                     is_active |-> row[id].is_active, revision |-> row[id].revision]
  <2>2. req[r].path # None
    BY DEF Select, CacheIInv, RequestsRefer, Refers
  <2>3. objects' = Append(objects, new) /\ new.path # None
    BY <2>1, <2>2
  <2> HIDE DEF new
  <2>4. /\ Len(objects') = Len(objects) + 1 /\ Len(objects) \in Nat
        /\ objects'[Len(objects) + 1] = new
        /\ \A n \in 1..Len(objects) : objects'[n] = objects[n]
    BY <2>3 DEF CacheIInv
  <2>5. \A n \in (Len(objects) + 1)..Len(objects') : n = Len(objects) + 1
    BY <2>4
  <2> QED
    BY <2>3, <2>4, <2>5, CacheStays DEF Select
<1> QED
  BY <1>1, <1>2

LEMMA StoreKeepsCache ==
  ASSUME CacheIInv, IInv', NEW r \in Request, Store(r)
  PROVE  CacheIInv'
<1> DEFINE n == req[r].object
<1>1. UNCHANGED objects /\ (cache' = Set(cache, objects, n) \/ UNCHANGED cache)
  BY DEF Store
<1>2. n \in DOMAIN objects /\ objects[n].path # None
  BY DEF Store, CacheIInv, RequestsRefer, Refers, InstancesHavePaths
<1> HIDE DEF n
<1>3. CASE cache' = Set(cache, objects, n)
  BY <1>1, <1>2, <1>3, IsKept, SetIsInOrder, CacheMoves DEF Kept
<1> QED
  BY <1>1, <1>3, NothingMoves

LEMMA FailFlushKeepsCache ==
  ASSUME CacheIInv, IInv', NEW r \in Request, FailFlush(r)
  PROVE  CacheIInv'
<1> DEFINE n == req[r].object
<1>1. CASE UNCHANGED objects
  BY <1>1, NothingMoves DEF FailFlush
<1>2. CASE ~UNCHANGED objects
  <2>1. n \in 1..Len(objects) /\ objects \in Seq(Instance)
    <3>1. req[r].pc \notin {"idle", "selecting"}
      BY DEF FailFlush
    <3>2. Refers(req[r]) /\ objects \in Seq(Instance)
      BY DEF CacheIInv, RequestsRefer
    <3> QED
      BY <3>1, <3>2 DEF Refers
  <2>2. objects[n] \in Instance
    BY <2>1
  <2>3. objects' = [objects EXCEPT ![n].lost = TRUE]
    BY <1>2 DEF FailFlush
  <2> HIDE DEF n
  <2>4. /\ Len(objects') = Len(objects)
        /\ \A i \in 1..Len(objects) :
             objects'[i].id = objects[i].id /\ objects'[i].path = objects[i].path
    BY <2>1, <2>2, <2>3 DEF Instance
  <2>5. Len(objects) \in Nat /\ (Len(objects) + 1)..Len(objects') = {}
    BY <2>1, <2>4
  <2> QED
    BY <2>4, <2>5, CacheStays DEF FailFlush
<1> QED
  BY <1>1, <1>2

LEMMA InvalidateAndAnswerKeepsCache ==
  ASSUME CacheIInv, IInv', NEW a \in Admin, InvalidateAndAnswer(a)
  PROVE  CacheIInv'
<1>1. /\ UNCHANGED objects
      /\ cache' = Invalidate(cache, objects, adm[a].id) \/ UNCHANGED cache
  BY DEF InvalidateAndAnswer
<1>2. adm[a].id \in Workflow
  BY DEF InvalidateAndAnswer, CacheIInv, AdminsOK
<1>3. CASE cache' = Invalidate(cache, objects, adm[a].id)
  BY <1>1, <1>2, <1>3, IsKept, InvalidateIsInOrder, CacheMoves DEF Kept
<1> QED
  BY <1>1, <1>3, NothingMoves

LEMMA ExpireKeepsCache ==
  ASSUME CacheIInv, IInv', NEW id \in Workflow, Expire(id)
  PROVE  CacheIInv'
<1>1. UNCHANGED objects /\ cache' = [cache EXCEPT !.fresh = cache.fresh \ {id}]
  BY DEF Expire
<1>2. /\ cache'.order = cache.order /\ cache'.entry = cache.entry
      /\ cache'.index = cache.index /\ cache'.fresh = cache.fresh \ {id}
  BY <1>1 DEF CacheIInv, CacheSound
<1>3. Held(cache') = Held(cache)
  BY <1>2 DEF Held, Has
<1>4. InOrder(cache') /\ LeadsBack(cache')
  BY <1>2, <1>3 DEF CacheIInv, CacheInv, InOrder, LeadsBack
<1> QED
  BY <1>1, <1>4, CacheMoves

LEMMA NextKeepsCache == CacheIInv /\ IInv' /\ [Next]_vars => CacheIInv'
<1> SUFFICES ASSUME CacheIInv, IInv', [Next]_vars PROVE CacheIInv'
  OBVIOUS
<1>1. CASE \E r \in Request : Handle(r) \/ \E path \in Path : Receive(r, path)
  <2>1. PICK r \in Request : Handle(r) \/ \E path \in Path : Receive(r, path)
    BY <1>1
  <2>2. CASE LogDelivery(r) \/ Run(r) \/ Accept(r) \/ RecordError(r) \/ Reject(r)
    BY <2>2, NothingMoves DEF LogDelivery, Run, Accept, RecordError, Reject
  <2> QED
    BY <2>1, <2>2, ReceiveKeepsCache, SelectKeepsCache, StoreKeepsCache,
       FailFlushKeepsCache DEF Handle
<1>2. CASE \E a \in Admin : Change(a) \/ \E id \in Workflow : Load(a, id)
  <2>1. PICK a \in Admin : Change(a) \/ \E id \in Workflow : Load(a, id)
    BY <1>2
  <2>2. CASE Update(a) \/ Delete(a) \/ FailChange(a) \/ \E id \in Workflow : Load(a, id)
    BY <2>2, NothingMoves DEF Update, Delete, FailChange, Load
  <2> QED
    BY <2>1, <2>2, InvalidateAndAnswerKeepsCache DEF Change
<1>3. CASE \E id \in Workflow : Expire(id)
  BY <1>3, ExpireKeepsCache
<1>4. CASE Fault
  BY <1>4, FailFlushKeepsCache, NothingMoves DEF Fault, FailChange
<1>5. CASE UNCHANGED vars
  BY <1>5, NothingMoves DEF vars
<1> QED
  BY <1>1, <1>2, <1>3, <1>4, <1>5 DEF Next

LEMMA InitHasCache == Init => CacheIInv
<1> SUFFICES ASSUME Init PROVE CacheIInv
  OBVIOUS
<1>1. objects = << >> /\ cache = EmptyCache
  BY DEF Init
<1>2. Held(cache) = {}
  BY <1>1 DEF Held, Has, EmptyCache
<1>3. InOrder(cache)
  <2>1. cache.order = << >> /\ cache.fresh = {}
    BY <1>1 DEF EmptyCache
  <2>2. << >> \in Seq(Workflow) /\ Len(<< >>) = 0 /\ 1..0 = {}
    OBVIOUS
  <2> QED
    BY <1>2, <2>1, <2>2 DEF InOrder, OneEach, Lists
<1>4. LeadsBack(cache) /\ InstancesHavePaths
  BY <1>1, <1>2 DEF LeadsBack, InstancesHavePaths
<1> QED
  BY <1>3, <1>4, InitHolds DEF CacheIInv, CacheInv

\* The cache keeps to its size; its LRU order is a list of exactly the entries it
\* has; and each entry is its workflow, found under the path of the object, however
\* updates, evictions, expiry and failed flushes follow each other.
THEOREM CacheIsInOrder == Spec => []CacheInv
<1>1. Spec => []CacheIInv
  BY InitHasCache, NextKeepsCache, Invariance, PTL DEF Spec
<1>2. CacheIInv => CacheInv
  BY DEF CacheIInv
<1> QED
  BY <1>1, <1>2, PTL
=============================================================================

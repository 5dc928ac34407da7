-------------------------- MODULE WebhookReceiver ---------------------------
(***************************************************************************)
(* Webhooks against the workflow cache while workflows are updated and     *)
(* deleted: receive_webhook (src/src/api/webhooks.py), update_workflow and *)
(* delete_workflow (src/src/api/workflows.py), the cache they share        *)
(* (WorkflowCache.tla) and the rows they read and write.                   *)
(*                                                                         *)
(* The handlers are coroutines of one process: a step runs from one await  *)
(* to the next, and other handlers run in between.  A request answered     *)
(* before it looks for its workflow (413) is not a request here, and what  *)
(* start_execution does inside its transaction is Orchestrator.tla.        *)
(***************************************************************************)
EXTENDS WorkflowCache

CONSTANTS
  Request,      \* handlers of POST /webhooks/{path} running side by side
  Admin,        \* handlers of PUT and DELETE /api/workflows/{id}
  FirstPath,    \* the path each workflow is created with
  MaxRequests,  \* bound: webhooks received in all
  MaxChanges    \* bound: PUTs and DELETEs in all

ASSUME ReceiverAssumption ==
  /\ FirstPath \in [Workflow -> Path]
  /\ \A v, w \in Workflow : FirstPath[v] = FirstPath[w] => v = w
  /\ MaxRequests \in Nat /\ MaxChanges \in Nat

VARIABLES
  row,         \* the workflows table, as committed
  revisions,   \* every row ever committed
  owner,       \* the workflow each webhook path was generated for
  objects,     \* the Workflow instances the requests have loaded
  cache,       \* workflow_cache
  req,         \* the webhook handlers
  adm,         \* the PUT and DELETE handlers
  executions,  \* committed executions: the workflow and the revision they ran,
               \* to the end or not
  deliveries,  \* committed deliveries: ran when they carry an execution_id
  settled,     \* the newest revision whose PUT or DELETE was answered
  received, changes      \* counters for the bounds

vars == <<row, revisions, owner, objects, cache, req, adm, executions,
          deliveries, settled, received, changes>>

\* The variables no handler changes while it works on its own request.
rest == <<row, revisions, owner, adm, settled, received, changes>>

table == <<row, revisions, owner>>
records == <<executions, deliveries>>

Idle == [pc |-> "idle", path |-> None, object |-> 0, own |-> FALSE,
         settled |-> [id \in Workflow |-> 0]]

AdmIdle == [pc |-> "idle", id |-> None, seen |-> None]

Obj(r) == objects[req[r].object]

\* The handler is inside a transaction that has inserted a row with a foreign
\* key to its workflow, and so holds that row with FOR KEY SHARE.
Locks(r, id) ==
  req[r].pc \in {"logged", "running", "raising", "rejected"} /\ Obj(r).id = id

TableRow == [exists : BOOLEAN, path : Path \cup {None},
             is_active : BOOLEAN, revision : Nat]

Instance == [id : Workflow, path : Path \cup {None}, is_active : BOOLEAN,
             revision : Nat, lost : BOOLEAN]

Handling == [pc : {"idle", "selecting", "selected", "logging", "rejecting",
                  "logged", "running", "raising", "rejected"},
             path : Path \cup {None}, object : Nat, own : BOOLEAN,
             settled : [Workflow -> Nat]]

\* What an admin is about: a PUT that leaves webhook_path alone, one that
\* writes it, or a DELETE; and then what is committed.
Changing == [pc : {"idle", "putting", "moving", "deleting", "updated", "deleted"},
             id : Workflow \cup {None}, seen : TableRow \cup {None}]

TablesOK ==
  /\ row \in [Workflow -> TableRow]
  /\ owner \in [Path -> Workflow \cup {None}]
  /\ executions \subseteq [id : Workflow, revision : Nat]
  /\ deliveries \subseteq [id : Workflow, ran : BOOLEAN,
                            status : {"accepted", "rejected", "error"}]

RequestsOK == req \in [Request -> Handling]

AdminsOK ==
  /\ adm \in [Admin -> Changing]
  /\ \A a \in Admin : adm[a].pc # "idle" =>
                        adm[a].id \in Workflow /\ adm[a].seen \in TableRow
  /\ settled \in [Workflow -> Nat]

TypeOK == TablesOK /\ objects \in Seq(Instance) /\ RequestsOK /\ AdminsOK
-----------------------------------------------------------------------------
Init ==
  /\ row = [id \in Workflow |-> [exists |-> TRUE, path |-> FirstPath[id],
                                 is_active |-> TRUE, revision |-> 1]]
  /\ revisions = {[id |-> id, is_active |-> TRUE, revision |-> 1] :
                    id \in Workflow}
  /\ owner = [p \in Path |->
                IF \E id \in Workflow : FirstPath[id] = p
                THEN CHOOSE id \in Workflow : FirstPath[id] = p ELSE None]
  /\ objects = << >> /\ cache = EmptyCache
  /\ req = [r \in Request |-> Idle] /\ adm = [a \in Admin |-> AdmIdle]
  /\ executions = {} /\ deliveries = {}
  /\ settled = [id \in Workflow |-> 0]
  /\ received = 0 /\ changes = 0

\* The handler ends, with whatever answer; its session closes.
Answer(r) == req' = [req EXCEPT ![r] = Idle]
-----------------------------------------------------------------------------
(* receive_webhook *)

\* From the workflow at hand to the next await: inactive or a wrong signature
\* leads to a "rejected" delivery, anything else to a "received" one; a lost
\* object raises at `workflow.is_active`.
Admit(r, object, request) ==
  IF object.lost THEN Answer(r)
  ELSE \E valid_signature \in BOOLEAN :
         req' = [req EXCEPT ![r] = [request EXCEPT !.pc =
                   IF object.is_active /\ valid_signature THEN "logging"
                   ELSE "rejecting"]]

Arrival(path) == [Idle EXCEPT !.path = path, !.settled = settled]

\* The lookup in the cache: a hit, an entry past its TTL (removing it raises if
\* its object is lost), or a miss.
ReceiveHit(r, path) ==
  \E id \in Hit(cache, path) :
    /\ cache' = Touch(cache, id)
    /\ Admit(r, objects[cache.entry[id]],
             [Arrival(path) EXCEPT !.object = cache.entry[id]])

ReceiveExpired(r, path) ==
  \E id \in Expired(cache, path) :
    IF RemoveRaises(cache, objects, id)
    THEN Answer(r) /\ UNCHANGED cache
    ELSE /\ cache' = Remove(cache, objects, id)
         /\ req' = [req EXCEPT ![r] = [Arrival(path) EXCEPT !.pc = "selecting"]]

ReceiveMiss(r, path) ==
  /\ Found(cache, path) = {}
  /\ req' = [req EXCEPT ![r] = [Arrival(path) EXCEPT !.pc = "selecting"]]
  /\ UNCHANGED cache

Receive(r, path) ==
  /\ req[r].pc = "idle" /\ received < MaxRequests
  /\ \/ ReceiveHit(r, path) \/ ReceiveExpired(r, path) \/ ReceiveMiss(r, path)
  /\ received' = received + 1
  /\ UNCHANGED <<table, objects, adm, records, settled, changes>>

\* The SELECT of lookup_workflow_by_path reads the row; the coroutine goes on
\* later.  No row has the path: 404.
Select(r) ==
  /\ req[r].pc = "selecting"
  /\ LET matches == {id \in Workflow : row[id].exists /\ row[id].path = req[r].path}
     IN  \/ /\ matches = {} /\ Answer(r) /\ UNCHANGED objects
         \/ \E id \in matches :
              /\ objects' = Append(objects,
                   [id |-> id, path |-> row[id].path, lost |-> FALSE,
                    is_active |-> row[id].is_active,
                    revision |-> row[id].revision])
              /\ req' = [req EXCEPT ![r] = [@ EXCEPT !.pc = "selected",
                           !.object = Len(objects'), !.own = TRUE]]
  /\ UNCHANGED <<table, cache, adm, records, settled, received, changes>>

\* workflow_cache.set, and on to the next await.
Store(r) ==
  /\ req[r].pc = "selected"
  /\ IF SetRaises(cache, objects, req[r].object)
     THEN Answer(r) /\ UNCHANGED cache
     ELSE /\ cache' = Set(cache, objects, req[r].object)
          /\ Admit(r, Obj(r), req[r])
  /\ UNCHANGED <<table, objects, adm, records, settled, received, changes>>

\* Mistake: the tables have no foreign key to workflows.
LogDelivery_unconstrained(r) ==
  /\ req[r].pc \in {"logging", "rejecting"}
  /\ req' = [req EXCEPT ![r].pc = IF @ = "logging" THEN "logged" ELSE "rejected"]
  /\ UNCHANGED <<table, objects, cache, adm, records, settled, received,
                 changes>>

\* The flush of the delivery: the foreign key demands that the workflow still
\* exists.
LogDelivery(r) ==
  /\ req[r].pc \in {"logging", "rejecting"} /\ row[Obj(r).id].exists
  /\ req' = [req EXCEPT ![r].pc = IF @ = "logging" THEN "logged" ELSE "rejected"]
  /\ UNCHANGED <<table, objects, cache, adm, records, settled, received,
                 changes>>

\* A flush fails: the workflow is gone, the delivery, the trigger data or an
\* output is something JSONB cannot hold, or the connection is lost.  The
\* session expires every instance it has loaded; the handler raises, from the
\* log or from the commit of its except branch, and nothing is recorded.
FailFlush(r) ==
  /\ req[r].pc \in {"logging", "rejecting", "logged", "running", "raising"}
  /\ objects' = IF req[r].own THEN [objects EXCEPT ![req[r].object].lost = TRUE]
                ELSE objects
  /\ Answer(r)
  /\ UNCHANGED <<table, cache, adm, records, settled, received, changes>>

\* Mistake: changes of a workflow and its runs exclude each other, by a lock of
\* the process that a change takes when it loads the workflow.
Run_behind_changes(r) ==
  /\ req[r].pc = "logged"
  /\ \A a \in Admin : adm[a].id # Obj(r).id
  /\ \E parses \in BOOLEAN :
       req' = [req EXCEPT ![r].pc =
                 IF parses /\ ~Obj(r).lost THEN "running" ELSE "raising"]
  /\ UNCHANGED <<rest, objects, cache, records>>

\* start_execution reads the definition: name, steps and id.  It raises at once
\* if the object is lost, or if the steps no longer parse.
Run(r) ==
  /\ req[r].pc = "logged"
  /\ \E parses \in BOOLEAN :
       req' = [req EXCEPT ![r].pc =
                 IF parses /\ ~Obj(r).lost THEN "running" ELSE "raising"]
  /\ UNCHANGED <<rest, objects, cache, records>>

\* The workflow ran and the handler commits.  It answers 202, unless the object
\* was lost meanwhile: then the log line after the commit raises, and the
\* except branch commits the delivery once more, as "error".
Accept(r) ==
  /\ req[r].pc = "running"
  /\ executions' = executions \cup {[id |-> Obj(r).id, revision |-> Obj(r).revision]}
  /\ deliveries' = deliveries \cup
       {[id |-> Obj(r).id, ran |-> TRUE,
         status |-> IF Obj(r).lost THEN "error" ELSE "accepted"]}
  /\ Answer(r)
  /\ UNCHANGED <<rest, objects, cache>>

\* start_execution raised with the session intact, and the handler raises once
\* the delivery is committed as "error".  If it raised at once that is all there
\* is to commit; if it raised at a branch that is no list of ids, the commit
\* takes along the execution, which says "running" (CommitInExcept of
\* Orchestrator.tla) and which no delivery names.
RecordError(r) ==
  /\ req[r].pc \in {"raising", "running"}
  /\ executions' = IF req[r].pc = "raising" THEN executions
                   ELSE executions \cup
                          {[id |-> Obj(r).id, revision |-> Obj(r).revision]}
  /\ deliveries' = deliveries \cup
       {[id |-> Obj(r).id, ran |-> FALSE, status |-> "error"]}
  /\ Answer(r)
  /\ UNCHANGED <<rest, objects, cache>>

\* Mistake: the handler goes on after the rejection.
Reject_without_return(r) ==
  /\ req[r].pc = "rejected"
  /\ deliveries' = deliveries \cup
       {[id |-> Obj(r).id, ran |-> FALSE, status |-> "rejected"]}
  /\ req' = [req EXCEPT ![r].pc = "logging"]
  /\ UNCHANGED <<rest, objects, cache, executions>>

\* The "rejected" delivery is committed: 404 or 401.
Reject(r) ==
  /\ req[r].pc = "rejected"
  /\ deliveries' = deliveries \cup
       {[id |-> Obj(r).id, ran |-> FALSE, status |-> "rejected"]}
  /\ Answer(r)
  /\ UNCHANGED <<rest, objects, cache, executions>>
-----------------------------------------------------------------------------
(* update_workflow and delete_workflow *)

\* The request has said what is to be done when the handler loads the workflow;
\* a PUT writes the path when it turns the trigger to or from "webhook".
Load(a, id) ==
  /\ adm[a].pc = "idle" /\ changes < MaxChanges /\ row[id].exists
  /\ \E pc \in {"putting", "moving", "deleting"} :
       adm' = [adm EXCEPT ![a] = [pc |-> pc, id |-> id, seen |-> row[id]]]
  /\ changes' = changes + 1
  /\ UNCHANGED <<table, objects, cache, req, records, settled, received>>

\* Mistake: a PUT may choose any path that no row has.
NewPaths_reused(a) ==
  IF adm[a].pc # "moving" THEN {row[adm[a].id].path}
  ELSE {None} \cup {p \in Path : \A w \in Workflow : row[w].path # p}

\* The webhook_path after a PUT.  It writes the column when the loaded row has a
\* path, which goes, or has none, and one is generated.
NewPaths(a) ==
  IF adm[a].pc # "moving" THEN {row[adm[a].id].path}
  ELSE IF adm[a].seen.path = None THEN {p \in Path : owner[p] = None}
  ELSE {None}

\* The row of before with what a PUT has written.
Edited(old, is_active, path) ==
  [old EXCEPT !.is_active = is_active, !.path = path, !.revision = @ + 1]

\* The commit of a PUT.  The new steps, name or secret are in the revision;
\* is_active is written when its value differs from the one loaded.  A new value
\* of the path, a unique column, waits for the transactions that hold the row;
\* the other columns do not.
Update(a) ==
  LET id == adm[a].id
  IN  /\ adm[a].pc \in {"putting", "moving"} /\ row[id].exists
      /\ \E is_active \in {row[id].is_active, ~adm[a].seen.is_active},
            path \in NewPaths(a) :
           /\ path # row[id].path => \A r \in Request : ~Locks(r, id)
           /\ row' = [row EXCEPT ![id] = Edited(@, is_active, path)]
           /\ owner' = IF path = None THEN owner ELSE [owner EXCEPT ![path] = id]
      /\ revisions' = revisions \cup
           {[id |-> id, is_active |-> row'[id].is_active,
             revision |-> row'[id].revision]}
      /\ adm' = [adm EXCEPT ![a] = [@ EXCEPT !.pc = "updated", !.seen = row'[id]]]
      /\ UNCHANGED <<objects, cache, req, records, settled, received, changes>>

Removed(old) == [old EXCEPT !.exists = FALSE, !.path = None, !.revision = @ + 1]

\* DELETE, and the cascade to executions and deliveries.  It waits for every
\* transaction that holds the row; a row that is gone already is no error.
Delete(a) ==
  LET id == adm[a].id
  IN  /\ adm[a].pc = "deleting" /\ \A r \in Request : ~Locks(r, id)
      /\ row' = [row EXCEPT ![id] = Removed(@)]
      /\ executions' = {e \in executions : e.id # id}
      /\ deliveries' = {d \in deliveries : d.id # id}
      /\ adm' = [adm EXCEPT ![a] = [@ EXCEPT !.pc = "deleted", !.seen = row'[id]]]
      /\ UNCHANGED <<revisions, owner, objects, cache, req, settled, received,
                     changes>>

\* After the refresh of a PUT, after the commit of a DELETE.  Invalidating a
\* lost object raises: the change stays committed, the answer is 500.
InvalidateAndAnswer(a) ==
  LET id == adm[a].id
  IN  /\ \/ adm[a].pc = "updated" /\ row[id].exists
         \/ adm[a].pc = "deleted"
      /\ IF RemoveRaises(cache, objects, id)
         THEN UNCHANGED <<cache, settled>>
         ELSE /\ cache' = Invalidate(cache, objects, id)
              /\ settled' = [settled EXCEPT ![id] =
                   IF adm[a].seen.revision > @ THEN adm[a].seen.revision ELSE @]
      /\ adm' = [adm EXCEPT ![a] = AdmIdle]
      /\ UNCHANGED <<table, objects, req, records, received, changes>>

\* The handler raises on the way: the row was deleted under the PUT, or the
\* connection is lost.  Once the commit is through, the change stays, and the
\* cache is not told.
FailChange(a) ==
  /\ adm[a].pc \in {"putting", "moving", "deleting", "updated"}
  /\ adm' = [adm EXCEPT ![a] = AdmIdle]
  /\ UNCHANGED <<table, objects, cache, req, records, settled, received,
                 changes>>

\* ttl_seconds go by.
Expire(id) ==
  /\ id \in cache.fresh
  /\ cache' = [cache EXCEPT !.fresh = @ \ {id}]
  /\ UNCHANGED <<table, objects, req, adm, records, settled, received, changes>>

\* What the handlers do by themselves.  A flush fails without a fault when the
\* workflow is gone, and so does a PUT.
Handle(r) ==
  \/ Select(r) \/ Store(r) \/ LogDelivery(r) \/ Run(r) \/ Accept(r)
  \/ RecordError(r) \/ Reject(r)
  \/ req[r].object # 0 /\ ~row[Obj(r).id].exists /\ FailFlush(r)

Change(a) ==
  \/ Update(a) \/ Delete(a) \/ InvalidateAndAnswer(a)
  \/ /\ adm[a].pc \in {"putting", "moving", "updated"} /\ ~row[adm[a].id].exists
     /\ FailChange(a)

Fault == (\E r \in Request : FailFlush(r)) \/ (\E a \in Admin : FailChange(a))

Next == \/ \E r \in Request : Handle(r) \/ \E path \in Path : Receive(r, path)
        \/ \E a \in Admin : Change(a) \/ \E id \in Workflow : Load(a, id)
        \/ \E id \in Workflow : Expire(id)
        \/ Fault

Spec == Init /\ [][Next]_vars

\* A coroutine is scheduled again once what it awaits is there; requests, faults
\* and the passing of time are free.  A change that waits for a row needs it free
\* of webhooks: their number is bounded, so they do not overlap for ever.
FairSpec == /\ Spec
            /\ \A r \in Request : WF_vars(Handle(r))
            /\ \A a \in Admin : WF_vars(Change(a))
-----------------------------------------------------------------------------
Held(c) == {id \in Workflow : Has(c, id)}

OneEach(order) == \A i, j \in 1..Len(order) : order[i] = order[j] => i = j
Lists(order, id) == \E i \in 1..Len(order) : order[i] = id

\* One LRU list, no longer than the cache may be, of exactly what is held.
InOrder(c) ==
  /\ c.order \in Seq(Workflow) /\ Len(c.order) <= MaxSize
  /\ OneEach(c.order)
  /\ \A id \in Workflow : id \in Held(c) <=> Lists(c.order, id)
  /\ c.fresh \subseteq Held(c)

\* What is held under an id is that workflow, and the object's path leads to it.
LeadsBack(c) ==
  \A id \in Held(c) : LET o == objects[c.entry[id]]
                      IN  o.id = id /\ o.path # None /\ c.index[o.path] = id

\* The cache stays within its size and is one LRU list of its entries; what it
\* holds under an id is that workflow, and the path of the object leads to it.
CacheInv == InOrder(cache) /\ LeadsBack(cache)

\* A webhook is never served by a workflow its path was not generated for,
\* whatever was cached, evicted, expired or left in the index before.
ServesItsOwner ==
  \A r \in Request : req[r].object # 0 => Obj(r).id = owner[req[r].path]

\* What a webhook ran is one revision as it was committed, and an active one:
\* concurrent updates never make a handler mix two.
RunsAnActiveRevision ==
  \A e \in executions :
    [id |-> e.id, is_active |-> TRUE, revision |-> e.revision] \in revisions

\* No record of a deleted workflow: what the cache still serves after a DELETE
\* never gets as far as a commit.
NothingOfDeleted ==
  \A x \in executions \cup deliveries : row[x.id].exists

\* Every webhook, PUT and DELETE is answered, if only with a 500: a DELETE and
\* a PUT that writes the path get the row once the webhooks that hold it have
\* ended, and no lost object keeps a handler from its end.
Answered == /\ \A r \in Request : req[r].pc # "idle" ~> req[r].pc = "idle"
            /\ \A a \in Admin : adm[a].pc # "idle" ~> adm[a].pc = "idle"
-----------------------------------------------------------------------------
(* The inductive invariant *)

Triple(x) == [id |-> x.id, is_active |-> x.is_active, revision |-> x.revision]

\* A row that is there is one of its revisions, and its path was made for it.
RowsAreKnown ==
  \A id \in Workflow : row[id].exists =>
    /\ [id |-> id, is_active |-> row[id].is_active,
        revision |-> row[id].revision] \in revisions
    /\ row[id].path # None => owner[row[id].path] = id

\* A loaded instance is a revision that was committed, under a path of its own.
InstancesAreKnown ==
  \A n \in DOMAIN objects :
    /\ Triple(objects[n]) \in revisions
    /\ objects[n].path # None => owner[objects[n].path] = objects[n].id

\* Entries hold their own workflow, and the index, whatever an eviction has left
\* in it, leads from a path to the workflow it was made for.
CacheSound(c) ==
  /\ DOMAIN c = {"order", "entry", "fresh", "index"}
  /\ c.entry \in [Workflow -> 0..Len(objects)]
  /\ c.index \in [Path -> Workflow \cup {None}]
  /\ \A id \in Workflow : c.entry[id] # 0 => objects[c.entry[id]].id = id
  /\ \A p \in Path : c.index[p] # None => owner[p] = c.index[p]

\* What a handler works with is the workflow of its path; once it is past the
\* checks that was active, and once its delivery is inserted the row stays.
Refers(q) ==
  /\ q.pc \in {"idle", "selecting"} <=> q.object = 0
  /\ q.pc # "idle" => q.path \in Path
  /\ q.object # 0 => /\ q.object \in DOMAIN objects
                     /\ objects[q.object].id = owner[q.path]
  /\ q.pc \in {"logging", "logged", "running"} => objects[q.object].is_active
  /\ q.pc \in {"logged", "running", "raising", "rejected"} =>
       row[objects[q.object].id].exists

RequestsRefer == \A r \in Request : Refers(req[r])

\* What ServesItsOwner, RunsAnActiveRevision and NothingOfDeleted rest on.
IInv == /\ TypeOK /\ RowsAreKnown /\ InstancesAreKnown /\ CacheSound(cache)
        /\ RequestsRefer /\ RunsAnActiveRevision /\ NothingOfDeleted

\* A handler finds a row by its path, so what is cached has one.
InstancesHavePaths == \A n \in DOMAIN objects : objects[n].path # None

\* What CacheInv rests on.
CacheIInv == IInv /\ InstancesHavePaths /\ CacheInv
-----------------------------------------------------------------------------
(* A claim of the code that it does not keep *)

\* cache.py: "Called on workflow update (PUT) and delete (DELETE) to ensure
\* stale data is not served."
StaleNotServed ==
  \A r \in Request : req[r].pc \in {"logging", "rejecting"} =>
    Obj(r).revision >= req[r].settled[Obj(r).id]
=============================================================================

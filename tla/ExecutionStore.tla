--------------------------- MODULE ExecutionStore ---------------------------
(***************************************************************************)
(* What starts executions, and what reads them: manual triggers and        *)
(* replays (src/src/api/executions.py, src/src/triggers/manual.py,         *)
(* src/src/replay/service.py), the cron scheduler                          *)
(* (src/src/triggers/cron.py) in the life of the web process               *)
(* (src/src/main.py), webhooks (src/src/api/webhooks.py), the workflows    *)
(* under them (src/src/api/workflows.py), and clients that list executions *)
(* page by page or open an event stream.                                   *)
(*                                                                         *)
(* A run is one transaction whose record appears when it is over, or       *)
(* never: that is what Orchestrator is shown to do (AtomicRun).  A webhook *)
(* may commit the record of a run that raised, which is "running" until    *)
(* somebody cancels it or cleans it up.  One tenant: every query is scoped *)
(* to it.                                                                  *)
(***************************************************************************)
EXTENDS Pagination, FiniteSets

CONSTANTS
  Workflow,    \* workflow ids
  Id,          \* execution ids, random and compared by the database
  Session,     \* handlers and cron jobs running side by side
  Client,      \* clients that read
  PageSize,    \* limit
  MaxCron,     \* settings.max_cron_workflows
  MaxTime, MaxEdits, MaxStarts,   \* bounds: of the clock, of workflow edits,
                                  \* of starts of the process
  None

ASSUME StoreAssumption ==
  /\ Id \subseteq Nat \ {0} /\ IsFiniteSet(Id) /\ None \notin Id \cup Workflow
  /\ PageSize \in Nat \ {0} /\ MaxCron \in Nat
  /\ MaxTime \in Nat /\ MaxEdits \in Nat /\ MaxStarts \in Nat

VARIABLES
  row,         \* the workflows table, as committed
  executions,  \* the executions table, as committed: an id is free, in use or gone
  up, jobs,    \* the web process runs; the jobs of its scheduler
  session,     \* the transactions that run workflows
  client,      \* the readers
  clock,       \* now()
  off,         \* when an inactive workflow was made so
  edits, starts          \* counters for the bounds

vars == <<row, executions, up, jobs, session, client, clock, off, edits, starts>>

tables == <<row, executions, off>>
process == <<up, jobs>>
counters == <<edits, starts>>

\* Who starts a run.
Starter == {"manual", "cron", "replay", "webhook"}

NoSession == [pc |-> "idle", workflow |-> None, by |-> "manual", from |-> None,
              began |-> 0, id |-> None]
NoClient == [pc |-> "idle", cursor |-> NoCursor, seen |-> << >>, base |-> {},
             status |-> None]

NoExecution == [status |-> "free", workflow |-> None, webhook |-> FALSE,
                from |-> None, created |-> 0]

Gone == [status |-> "gone", workflow |-> None, webhook |-> FALSE, from |-> None,
         created |-> 0]

InUse == {id \in Id : executions[id].status \notin {"free", "gone"}}

There(w) == row[w].state = "there"

TablesOK ==
  /\ row \in [Workflow -> [state : {"none", "there", "deleted"},
                           is_active : BOOLEAN, trigger : {"cron", "other"}]]
  /\ executions \in [Id ->
       [status : {"free", "running", "ended", "gone"}, created : 0..MaxTime,
        workflow : Workflow \cup {None}, webhook : BOOLEAN, from : Id \cup {None}]]
  /\ off \in [Workflow -> 0..MaxTime]

SessionsOK ==
  session \in [Session ->
    [pc : {"idle", "original", "selected", "running"},
     workflow : Workflow \cup {None}, by : Starter, from : Id \cup {None},
     began : 0..MaxTime, id : Id \cup {None}]]

ProcessOK ==
  /\ up \in BOOLEAN /\ jobs \subseteq Workflow /\ clock \in 0..MaxTime
  /\ edits \in 0..MaxEdits /\ starts \in 0..MaxStarts

Reader ==
  [pc : {"idle", "listing", "listed", "streaming"},
   cursor : [created : Nat, id : Nat, first : BOOLEAN],
   seen : Seq(Id), base : SUBSET Id, status : {"free", "running", "ended", "gone", None}]

ClientsOK == client \in [Client -> Reader]

TypeOK == TablesOK /\ SessionsOK /\ ProcessOK /\ ClientsOK

\* The process was up before: workflows may be there already.
Found == [state : {"there"}, is_active : BOOLEAN, trigger : {"cron", "other"}]
           \cup {[state |-> "none", is_active |-> FALSE, trigger |-> "other"]}

Init ==
  /\ row \in [Workflow -> Found]
  /\ executions = [id \in Id |-> NoExecution]
  /\ up = FALSE /\ jobs = {} /\ clock = 0
  /\ session = [s \in Session |-> NoSession]
  /\ client = [c \in Client |-> NoClient]
  /\ off = [w \in Workflow |-> 0] /\ edits = 0 /\ starts = 0
-----------------------------------------------------------------------------
(* The process and its scheduler *)

\* load_cron_workflows: LIMIT without ORDER BY.
Loads == LET found == {w \in Workflow : /\ There(w) /\ row[w].is_active
                                        /\ row[w].trigger = "cron"}
             size == IF Cardinality(found) > MaxCron THEN MaxCron
                     ELSE Cardinality(found)
         IN  {loaded \in SUBSET found : Cardinality(loaded) = size}

\* Any expression may be missing or be none: it is stored without a check.
parse_cron_expression(loaded) == SUBSET loaded

\* lifespan: start_scheduler schedules what it loads and whose expression parses.  If it raises, the process serves without a scheduler.
Start ==
  /\ ~up /\ starts < MaxStarts
  /\ up' = TRUE /\ starts' = starts + 1
  /\ \E loaded \in Loads : jobs' \in parse_cron_expression(loaded)
  /\ UNCHANGED <<tables, session, client, clock, edits>>

\* The process stops, in order or not: open transactions are rolled back, and
\* streams break.  stop_scheduler does not wait for its jobs.
Stop ==
  /\ up /\ up' = FALSE /\ jobs' = {}
  /\ session' = [s \in Session |-> NoSession]
  /\ client' = [c \in Client |->
       IF client[c].pc = "streaming" THEN NoClient ELSE client[c]]
  /\ UNCHANGED <<tables, clock, counters>>
-----------------------------------------------------------------------------
(* Workflow CRUD *)

Edit == up /\ edits < MaxEdits /\ edits' = edits + 1

\* The trigger configuration is stored as it comes.
CreateWorkflow(w) ==
  /\ Edit /\ row[w].state = "none"
  /\ \E trigger \in {"cron", "other"}, is_active \in BOOLEAN :
       row' = [row EXCEPT ![w] = [state |-> "there", is_active |-> is_active,
                                  trigger |-> trigger]]
  /\ off' = [off EXCEPT ![w] = clock]
  /\ UNCHANGED <<executions, process, session, client, clock, starts>>

\* The commit of a PUT (in WebhookReceiver with what comes before and after it).
\* Nobody tells the scheduler.
UpdateWorkflow(w) ==
  /\ Edit /\ There(w)
  /\ \/ \E trigger \in {"cron", "other"} :
          row' = [row EXCEPT ![w].trigger = trigger]
     \/ row' = [row EXCEPT ![w].is_active = ~@]
  /\ off' = IF row'[w].is_active = row[w].is_active THEN off
            ELSE [off EXCEPT ![w] = clock]
  /\ UNCHANGED <<executions, process, session, client, clock, starts>>

\* An execution that is inserted and not committed holds its workflow's row.
Locks(s, w) == session[s].pc = "running" /\ session[s].workflow = w

Without(w) ==
  [id \in Id |-> IF executions[id].workflow = w
                 THEN Gone ELSE executions[id]]

\* Mistake: nobody holds the row.
DeleteWorkflow_unlocked(w) ==
  /\ Edit /\ There(w)
  /\ row' = [row EXCEPT ![w].state = "deleted"]
  /\ executions' = Without(w)
  /\ UNCHANGED <<process, session, client, clock, off, starts>>

\* DELETE, and the cascade to the executions.
DeleteWorkflow(w) ==
  /\ Edit /\ There(w) /\ \A s \in Session : ~Locks(s, w)
  /\ row' = [row EXCEPT ![w].state = "deleted"]
  /\ executions' = Without(w)
  /\ UNCHANGED <<process, session, client, clock, off, starts>>
-----------------------------------------------------------------------------
(* Triggers *)

\* now() is the start of the transaction.
Begin(s, pc, w, by, from) ==
  session' = [session EXCEPT ![s] = [pc |-> pc, workflow |-> w, by |-> by,
                                     from |-> from, began |-> clock, id |-> None]]

\* manual_execute: get_tenant_workflow and validate_workflow_active, or 404 or
\* 400.
SelectManually(s, w) ==
  /\ up /\ session[s].pc = "idle" /\ There(w) /\ row[w].is_active
  /\ Begin(s, "selected", w, "manual", None)
  /\ UNCHANGED <<tables, process, client, clock, counters>>

\* Mistake: the scheduler's word is taken for it.
CronTick_unchecked(s, w) ==
  /\ up /\ w \in jobs /\ session[s].pc = "idle"
  /\ \A t \in Session : ~(session[t].by = "cron" /\ session[t].workflow = w)
  /\ There(w)
  /\ Begin(s, "selected", w, "cron", None)
  /\ UNCHANGED <<tables, process, client, clock, counters>>

\* _execute_cron_workflow, which APScheduler does not start while the last run
\* of the job goes on: the row is read again, but not its trigger.
CronTick(s, w) ==
  /\ up /\ w \in jobs /\ session[s].pc = "idle"
  /\ \A t \in Session : ~(session[t].by = "cron" /\ session[t].workflow = w)
  /\ There(w) /\ row[w].is_active
  /\ Begin(s, "selected", w, "cron", None)
  /\ UNCHANGED <<tables, process, client, clock, counters>>

\* receive_webhook, with the workflow as its cache has it: perhaps from before it
\* was made inactive or deleted (WebhookReceiver has the cache).
ReceiveWebhook(s, w) ==
  /\ up /\ session[s].pc = "idle" /\ row[w].state # "none"
  /\ Begin(s, "selected", w, "webhook", None)
  /\ UNCHANGED <<tables, process, client, clock, counters>>

\* replay_execution: first the original.
SelectOriginal(s, id) ==
  /\ up /\ session[s].pc = "idle" /\ id \in InUse
  /\ Begin(s, "original", executions[id].workflow, "replay", id)
  /\ UNCHANGED <<tables, process, client, clock, counters>>

\* Mistake: a replay is not a new start.
SelectWorkflow_unchecked(s) ==
  /\ session[s].pc = "original" /\ There(session[s].workflow)
  /\ session' = [session EXCEPT ![s].pc = "selected"]
  /\ UNCHANGED <<tables, process, client, clock, counters>>

\* Then its workflow, as it is now.
SelectWorkflow(s) ==
  /\ session[s].pc = "original"
  /\ There(session[s].workflow) /\ row[session[s].workflow].is_active
  /\ session' = [session EXCEPT ![s].pc = "selected"]
  /\ UNCHANGED <<tables, process, client, clock, counters>>

Record(t, status) == [status |-> status, workflow |-> t.workflow,
                      webhook |-> t.by = "webhook", from |-> t.from, created |-> t.began]

\* Mistake: the execution is committed when it is created, and again at the end.
Insert_visible(s) ==
  /\ session[s].pc = "selected" /\ There(session[s].workflow)
  /\ \E id \in Id :
       /\ executions[id].status = "free"
       /\ executions' = [executions EXCEPT ![id] =
            Record(session[s], "running")]
       /\ session' = [session EXCEPT ![s].pc = "running", ![s].id = id]
  /\ UNCHANGED <<row, off, process, client, clock, counters>>

\* start_execution inserts the execution.  The foreign keys demand the workflow
\* and the original, and hold them.
Insert(s) ==
  /\ session[s].pc = "selected" /\ There(session[s].workflow)
  /\ \E id \in Id :
       /\ executions[id].status = "free" /\ \A t \in Session : session[t].id # id
       /\ session' = [session EXCEPT ![s].pc = "running", ![s].id = id]
  /\ UNCHANGED <<tables, process, client, clock, counters>>

\* The run is over, and the caller commits.
Commit(s) ==
  /\ session[s].pc = "running"
  /\ executions' = [executions EXCEPT ![session[s].id] = Record(session[s], "ended")]
  /\ session' = [session EXCEPT ![s] = NoSession]
  /\ UNCHANGED <<row, off, process, client, clock, counters>>

\* The run of a webhook raises outside every try of the orchestrator, and the except
\* branch of receive_webhook commits what it has flushed.
CommitInExcept(s) ==
  /\ session[s].pc = "running" /\ session[s].by = "webhook"
  /\ executions' = [executions EXCEPT ![session[s].id] = Record(session[s], "running")]
  /\ session' = [session EXCEPT ![s] = NoSession]
  /\ UNCHANGED <<row, off, process, client, clock, counters>>

\* cancel_execution, or an hour later cleanup_stale_executions in another process
\* (QueueWorker has both).  Nobody is told.
EndUnfinished(id) ==
  /\ executions[id].status = "running"
  /\ executions' = [executions EXCEPT ![id].status = "ended"]
  /\ UNCHANGED <<row, off, process, session, client, clock, counters>>

\* 404, 400, a foreign key that finds nothing, a run that raises, a connection
\* that breaks: the transaction is rolled back.
Abort(s) ==
  /\ session[s].pc # "idle"
  /\ session' = [session EXCEPT ![s] = NoSession]
  /\ UNCHANGED <<tables, process, client, clock, counters>>
-----------------------------------------------------------------------------
(* Readers *)

Rows == {[created |-> executions[id].created, id |-> id] : id \in InUse}

\* What a client has after one more page.
NextPage(r) ==
  LET fetched == Fetched(Rows, r.cursor, PageSize)
      page == PageOf(fetched, PageSize)
  IN  [pc |-> IF has_more(fetched, PageSize) THEN "listing" ELSE "listed",
       cursor |-> next_cursor(fetched, PageSize),
       seen |-> r.seen \o [i \in DOMAIN page |-> page[i].id],
       base |-> IF r.pc = "idle" THEN InUse ELSE r.base, status |-> r.status]

\* GET /api/executions, without a cursor or with the one of the page before.
GetPage(c) ==
  /\ up /\ client[c].pc \in {"idle", "listing"}
  /\ client' = [client EXCEPT ![c] = NextPage(@)]
  /\ UNCHANGED <<tables, process, session, clock, counters>>

\* GET /api/executions/{id}/stream: the status goes out with the first event.
\* Nobody publishes to the channel.
OpenStream(c, id) ==
  /\ up /\ client[c].pc = "idle" /\ id \in InUse
  /\ client' = [client EXCEPT ![c] = [NoClient EXCEPT !.pc = "streaming",
                  !.seen = <<id>>, !.status = executions[id].status]]
  /\ UNCHANGED <<tables, process, session, clock, counters>>

\* The client is done with its list, or closes the stream.
Leave(c) ==
  /\ client[c].pc \in {"listed", "streaming"}
  /\ client' = [client EXCEPT ![c] = NoClient]
  /\ UNCHANGED <<tables, process, session, clock, counters>>

Tick ==
  /\ clock < MaxTime /\ clock' = clock + 1
  /\ UNCHANGED <<tables, process, session, client, counters>>
-----------------------------------------------------------------------------
Next ==
  \/ Start \/ Stop \/ Tick
  \/ \E w \in Workflow : CreateWorkflow(w) \/ UpdateWorkflow(w) \/ DeleteWorkflow(w)
  \/ \E s \in Session :
       \/ \E w \in Workflow : \/ SelectManually(s, w) \/ CronTick(s, w)
                           \/ ReceiveWebhook(s, w)
       \/ \E id \in Id : SelectOriginal(s, id)
       \/ SelectWorkflow(s) \/ Insert(s) \/ Commit(s) \/ CommitInExcept(s) \/ Abort(s)
  \/ \E id \in Id : EndUnfinished(id)
  \/ \E c \in Client :
       \/ GetPage(c) \/ Leave(c)
       \/ \E id \in Id : OpenStream(c, id)

Spec == Init /\ [][Next]_vars
-----------------------------------------------------------------------------
\* An execution has its workflow, and a replay the original it names, of the
\* same workflow: whatever is deleted while runs are under way, and whichever
\* jobs the scheduler still has.
RecordsAreWhole ==
  \A id \in InUse :
    LET e == executions[id]
    IN  /\ There(e.workflow)
        /\ e.from # None => /\ e.from \in InUse
                            /\ executions[e.from].workflow = e.workflow

\* No run of an inactive workflow began after the moment it was made inactive,
\* by hand, as a replay, or from a job of the scheduler, which is never told.
\* Webhooks go by the cache: see RunsAnActiveRevision of WebhookReceiver.
DeactivatedStaysQuiet ==
  \A id \in InUse :
    LET e == executions[id]
    IN  ~e.webhook /\ ~row[e.workflow].is_active =>
          e.created <= off[e.workflow]

\* A client that follows the cursors gets every execution at most once, and at
\* the end every one that was there at its first request and
\* still is: also those with the created_at of the last row of a page, while
\* others are committed (late, with an earlier created_at) and deleted.
PagesAreExact ==
  \A c \in Client : client[c].pc \in {"listing", "listed"} =>
    /\ \A i, j \in DOMAIN client[c].seen :
         i # j => client[c].seen[i] # client[c].seen[j]
    /\ client[c].pc = "listed" =>
         client[c].base \cap InUse \subseteq ToSet(client[c].seen)

\* Nothing is ever published on a stream, and yet its client misses nothing that
\* a run does: what the stream says first is how the execution ended, and stays
\* true, or the execution is what the except branch of a webhook left "running",
\* which no run goes on with.  That somebody ends it later the client is not told.
StreamsMissNoRun ==
  \A c \in Client : client[c].pc = "streaming" =>
    /\ client[c].status \in {"ended", "running"}
    /\ \A id \in InUse \cap ToSet(client[c].seen) :
         /\ client[c].status = "ended" => executions[id].status = "ended"
         /\ client[c].status = "running" =>
              /\ executions[id].webhook
              /\ ~\E s \in Session : session[s].pc = "running" /\ session[s].id = id
-----------------------------------------------------------------------------
(* The inductive invariant *)

\* What is committed is over, or what a webhook left of a run, and no younger than
\* the clock.
CommittedIsOver ==
  /\ \A id \in InUse : /\ executions[id].status = "ended"
                          \/ executions[id].webhook
                       /\ executions[id].created <= clock
                       /\ executions[id].workflow \in Workflow
  /\ \A id \in Id : executions[id].status = "free" => executions[id].workflow = None

\* A session has a workflow that is there or was deleted.  As long as it is
\* there, so is the original of a replay.
SessionsRefer ==
  \A s \in Session : session[s].pc # "idle" =>
    LET t == session[s]
    IN  /\ t.workflow \in Workflow /\ row[t.workflow].state # "none"
        /\ t.began <= clock
        /\ There(t.workflow) /\ t.from # None =>
             t.from \in InUse /\ executions[t.from].workflow = t.workflow

\* A run holds its workflow, and an id nobody else has.
RunsHold ==
  \A s \in Session : session[s].pc = "running" =>
    /\ There(session[s].workflow)
    /\ session[s].id \in Id /\ executions[session[s].id].status = "free"
    /\ \A t \in Session : session[t].id = session[s].id => t = s

\* A session past the check of is_active began before any change of it.
SessionsBeganActive ==
  \A s \in Session : session[s].pc \in {"selected", "running"} =>
    LET w == session[s].workflow
    IN  session[s].by # "webhook" /\ ~row[w].is_active => session[s].began <= off[w]

\* What RecordsAreWhole and DeactivatedStaysQuiet rest on, whatever the
\* sessions, the scheduler and the edits do.
TablesInv ==
  /\ TablesOK /\ SessionsOK /\ ProcessOK
  /\ CommittedIsOver /\ SessionsRefer /\ RunsHold /\ SessionsBeganActive
  /\ RecordsAreWhole /\ DeactivatedStaysQuiet

\* What a client that goes on from a cursor still gets.
Ahead(cursor) == {x.id : x \in Following(Rows, cursor)}

\* What PagesAreExact rests on: a client has nothing yet of what lies ahead of
\* its cursor, and everything of what lies behind it and was there when it began.
\* What it has and what was there is committed, or gone for good.
Reads(r) ==
  /\ r.pc = "idle" => r = NoClient
  /\ r.pc \in {"listing", "listed"} =>
       /\ IsInjective(r.seen)
       /\ \A id \in r.base \cup ToSet(r.seen) : executions[id].status # "free"
  /\ r.pc = "listing" =>
       /\ ~r.cursor.first
       /\ Ahead(r.cursor) \cap ToSet(r.seen) = {}
       /\ r.base \cap InUse \subseteq Ahead(r.cursor) \cup ToSet(r.seen)
  /\ r.pc = "listed" => r.base \cap InUse \subseteq ToSet(r.seen)

PagesInv == \A c \in Client : Reads(client[c])

IInv == TablesInv /\ ClientsOK /\ PagesInv
=============================================================================

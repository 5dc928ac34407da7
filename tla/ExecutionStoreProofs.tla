------------------------ MODULE ExecutionStoreProofs ------------------------
(***************************************************************************)
(* Proofs about ExecutionStore, for any number of workflows, executions,   *)
(* sessions and clients, and without regard to its bounds.                 *)
(***************************************************************************)
EXTENDS ExecutionStore, FiniteSetTheorems, TLAPS

USE StoreAssumption DEF TablesInv, NoSession, NoExecution, There, Starter

\* The invariant is about the tables, the process, the sessions and the clock.
LEMMA ReadersKeep ==
  ASSUME TablesInv, UNCHANGED <<tables, process, session, clock, counters>>
  PROVE  TablesInv'
  BY DEF tables, process, counters, TablesOK, SessionsOK, ProcessOK, CommittedIsOver,
     SessionsRefer, RunsHold, SessionsBeganActive, RecordsAreWhole, DeactivatedStaysQuiet,
     InUse

\* What a session may become while nothing else moves.
Fits(t) ==
  /\ t.pc # "idle" =>
       /\ t.workflow \in Workflow /\ row[t.workflow].state # "none" /\ t.began <= clock
       /\ There(t.workflow) /\ t.from # None =>
            t.from \in InUse /\ executions[t.from].workflow = t.workflow
  /\ t.pc \in {"selected", "running"} =>
       (t.by # "webhook" /\ ~row[t.workflow].is_active => t.began <= off[t.workflow])
  /\ t.pc = "running" =>
       There(t.workflow) /\ t.id \in Id /\ executions[t.id].status = "free"

LEMMA SessionStepKeeps ==
  ASSUME TablesInv, NEW s \in Session, SessionsOK', Fits(session'[s]),
         \A t \in Session \ {s} : session'[t] = session[t],
         \A t \in Session \ {s} : session[t].pc = "running" \/ session'[s].pc = "running" =>
           session[t].id # session'[s].id,
         UNCHANGED <<tables, process, clock, counters>>
  PROVE  TablesInv'
<1>1. TablesOK' /\ ProcessOK' /\ CommittedIsOver' /\ RecordsAreWhole' /\
      DeactivatedStaysQuiet'
  BY DEF tables, process, counters, TablesOK, ProcessOK, CommittedIsOver,
     RecordsAreWhole, DeactivatedStaysQuiet, InUse
<1>2. SessionsRefer'
  BY DEF tables, SessionsRefer, Fits, InUse
<1>3. RunsHold'
  BY DEF tables, RunsHold, Fits
<1>4. SessionsBeganActive'
  BY DEF tables, SessionsBeganActive, Fits
<1> QED
  BY <1>1, <1>2, <1>3, <1>4

\* A workflow that was active when it was read, or that a webhook found in the cache.
LEMMA BeginKeeps ==
  ASSUME TablesInv, NEW s \in Session, NEW w \in Workflow, NEW by \in Starter,
         row[w].state # "none", by # "webhook" => row[w].is_active,
         Begin(s, "selected", w, by, None),
         UNCHANGED <<tables, process, clock, counters>>
  PROVE  TablesInv'
<1> DEFINE new == [pc |-> "selected", workflow |-> w, by |-> by, from |-> None,
                   began |-> clock, id |-> None]
<1>1. session' = [session EXCEPT ![s] = new]
  BY DEF Begin
<1>2. SessionsOK'
  BY <1>1 DEF SessionsOK, ProcessOK
<1>3. session'[s] = new /\ \A t \in Session \ {s} : session'[t] = session[t]
  BY <1>1 DEF SessionsOK
<1>4. Fits(new)
  BY DEF Fits, ProcessOK
<1>5. new.pc = "selected" /\ \A t \in Session : session[t].pc = "running" => session[t].id # new.id
  BY DEF RunsHold
<1> HIDE DEF new
<1> QED
  BY <1>2, <1>3, <1>4, <1>5, SessionStepKeeps

LEMMA TriggersKeep ==
  ASSUME TablesInv, NEW s \in Session, NEW w \in Workflow,
         SelectManually(s, w) \/ CronTick(s, w) \/ ReceiveWebhook(s, w)
  PROVE  TablesInv'
  BY BeginKeeps DEF SelectManually, CronTick, ReceiveWebhook

LEMMA SelectOriginalKeeps ==
  ASSUME TablesInv, NEW s \in Session, NEW id \in Id, SelectOriginal(s, id)
  PROVE  TablesInv'
<1> DEFINE new == [pc |-> "original", workflow |-> executions[id].workflow,
                   by |-> "replay", from |-> id, began |-> clock, id |-> None]
<1>1. session' = [session EXCEPT ![s] = new]
  BY DEF Begin, SelectOriginal
<1>2. There(executions[id].workflow) /\ executions[id].workflow \in Workflow
  BY DEF RecordsAreWhole, CommittedIsOver, SelectOriginal
<1>3. SessionsOK'
  BY <1>1, <1>2 DEF SessionsOK, ProcessOK
<1>4. session'[s] = new /\ \A t \in Session \ {s} : session'[t] = session[t]
  BY <1>1 DEF SessionsOK
<1>5. Fits(new)
  BY <1>2 DEF Fits, ProcessOK, SelectOriginal
<1>6. new.pc = "original" /\ \A t \in Session : session[t].pc = "running" => session[t].id # new.id
  BY DEF RunsHold
<1>7. UNCHANGED <<tables, process, clock, counters>>
  BY DEF SelectOriginal
<1> HIDE DEF new
<1> QED
  BY <1>3, <1>4, <1>5, <1>6, <1>7, SessionStepKeeps

\* The check of is_active is made on the row as it is now.
LEMMA SelectWorkflowKeeps ==
  ASSUME TablesInv, NEW s \in Session, SelectWorkflow(s)
  PROVE  TablesInv'
<1>1. /\ SessionsOK'
      /\ \A t \in Session \ {s} : session'[t] = session[t]
  BY DEF SessionsOK, SelectWorkflow
<1>2. /\ session'[s].pc = "selected" /\ session'[s].workflow = session[s].workflow
      /\ session'[s].from = session[s].from /\ session'[s].began = session[s].began
      /\ session'[s].id = session[s].id
  BY DEF SessionsOK, SelectWorkflow
<1>3. Fits(session'[s])
  BY <1>2 DEF Fits, SessionsOK, SessionsRefer, SelectWorkflow
<1>4. \A t \in Session \ {s} : session[t].pc = "running" => session[t].id # session'[s].id
  BY <1>2 DEF RunsHold, SelectWorkflow
<1>5. UNCHANGED <<tables, process, clock, counters>>
  BY DEF SelectWorkflow
<1> QED
  BY <1>1, <1>2, <1>3, <1>4, <1>5, SessionStepKeeps

\* The foreign keys hold, and the id is nobody else's.
LEMMA InsertKeeps ==
  ASSUME TablesInv, NEW s \in Session, Insert(s)
  PROVE  TablesInv'
<1>1. PICK id \in Id :
        /\ executions[id].status = "free" /\ \A t \in Session : session[t].id # id
        /\ session' = [session EXCEPT ![s].pc = "running", ![s].id = id]
  BY DEF Insert
<1>2. /\ SessionsOK'
      /\ \A t \in Session \ {s} : session'[t] = session[t]
  BY <1>1 DEF SessionsOK
<1>3. /\ session'[s].pc = "running" /\ session'[s].workflow = session[s].workflow
      /\ session'[s].from = session[s].from /\ session'[s].began = session[s].began
      /\ session'[s].id = id
  BY <1>1 DEF SessionsOK
<1>4. Fits(session'[s])
  BY <1>1, <1>3 DEF Fits, SessionsOK, SessionsRefer, SessionsBeganActive, Insert
<1>5. UNCHANGED <<tables, process, clock, counters>>
  BY DEF Insert
<1> QED
  BY <1>1, <1>2, <1>3, <1>4, <1>5, SessionStepKeeps

LEMMA AbortKeeps ==
  ASSUME TablesInv, NEW s \in Session, Abort(s)
  PROVE  TablesInv'
<1>1. /\ SessionsOK'
      /\ \A t \in Session \ {s} : session'[t] = session[t]
  BY DEF SessionsOK, Abort
<1>2. session'[s].pc = "idle" /\ session'[s].id = None
  BY DEF SessionsOK, Abort
<1>3. Fits(session'[s])
  BY <1>2 DEF Fits
<1>4. \A t \in Session \ {s} : session[t].pc = "running" => session[t].id # session'[s].id
  BY <1>2 DEF RunsHold
<1>5. UNCHANGED <<tables, process, clock, counters>>
  BY DEF Abort
<1> QED
  BY <1>1, <1>2, <1>3, <1>4, <1>5, SessionStepKeeps

\* The id was free: what was committed stays, and nobody's reference is lost.
LEMMA CommitKeeps ==
  ASSUME TablesInv, NEW s \in Session, Commit(s) \/ CommitInExcept(s)
  PROVE  TablesInv'
<1>0. PICK status \in {"ended", "running"} :
        /\ executions' = [executions EXCEPT ![session[s].id] = Record(session[s], status)]
        /\ status = "ended" \/ session[s].by = "webhook"
        /\ session[s].pc = "running" /\ session' = [session EXCEPT ![s] = NoSession]
        /\ UNCHANGED <<row, off, process, client, clock, counters>>
  BY DEF Commit, CommitInExcept
<1> DEFINE id == session[s].id
<1> DEFINE e == Record(session[s], status)
<1>1. /\ id \in Id /\ executions[id].status = "free"
      /\ \A t \in Session \ {s} : session[t].id # id
  BY <1>0 DEF RunsHold
<1>2. session[s].workflow \in Workflow /\ session[s].began \in 0..MaxTime
      /\ session[s].from \in Id \cup {None} /\ session[s].began <= clock
      /\ session[s].by \in Starter
  BY <1>0 DEF SessionsRefer, SessionsOK
<1>3. executions' = [executions EXCEPT ![id] = e]
  BY <1>0
<1>4. /\ e.status = "ended" \/ e.webhook
      /\ e.status \in {"ended", "running"}
      /\ e.webhook <=> session[s].by = "webhook"
      /\ e.workflow = session[s].workflow
      /\ e.from = session[s].from /\ e.created = session[s].began
  BY <1>0 DEF Record
<1>5. e \in [status : {"free", "running", "ended", "gone"}, created : 0..MaxTime,
            workflow : Workflow \cup {None}, webhook : BOOLEAN, from : Id \cup {None}]
  BY <1>2 DEF Record
<1> HIDE DEF e
<1>6. executions'[id] = e /\ \A i \in Id \ {id} : executions'[i] = executions[i]
  BY <1>1, <1>3 DEF TablesOK
<1>7. InUse' = InUse \cup {id} /\ id \notin InUse /\ InUse \subseteq Id
  BY <1>1, <1>4, <1>6 DEF InUse
<1>8. UNCHANGED <<row, off, process, clock, counters>>
  BY <1>0
<1>9. SessionsOK' /\ session'[s].pc = "idle" /\ session'[s].id = None
      /\ \A t \in Session \ {s} : session'[t] = session[t]
  BY <1>0 DEF SessionsOK
<1> HIDE DEF id
<1>10. TablesOK' /\ ProcessOK'
  BY <1>1, <1>3, <1>5, <1>8 DEF TablesOK, ProcessOK, process, counters
<1>11. CommittedIsOver'
  BY <1>2, <1>4, <1>6, <1>7, <1>8 DEF CommittedIsOver
<1>12. SessionsRefer'
  <2> SUFFICES ASSUME NEW t \in Session \ {s}, session[t].pc # "idle"
               PROVE  LET u == session[t]
                      IN  /\ u.workflow \in Workflow /\ row[u.workflow].state # "none"
                          /\ u.began <= clock
                          /\ There(u.workflow) /\ u.from # None =>
                               u.from \in InUse' /\ executions'[u.from].workflow = u.workflow
    BY <1>8, <1>9 DEF SessionsRefer
  <2> QED
    BY <1>6, <1>7 DEF SessionsRefer
<1>13. RunsHold'
  <2> SUFFICES ASSUME NEW t \in Session, session'[t].pc = "running"
               PROVE  /\ There(session[t].workflow)
                      /\ session[t].id \in Id /\ executions'[session[t].id].status = "free"
                      /\ \A u \in Session : session'[u].id = session[t].id => u = t
    BY <1>8, <1>9 DEF RunsHold
  <2>1. t # s /\ session[t].pc = "running" /\ session[t].id # id
    BY <1>1, <1>9
  <2>2. session[t].id \in Id /\ executions[session[t].id].status = "free"
        /\ There(session[t].workflow)
        /\ \A u \in Session : session[u].id = session[t].id => u = t
    BY <2>1 DEF RunsHold
  <2>3. executions'[session[t].id].status = "free"
    BY <1>6, <2>1, <2>2
  <2>4. ASSUME NEW u \in Session, session'[u].id = session[t].id PROVE u = t
    BY <1>9, <2>2, <2>4
  <2> QED
    BY <2>2, <2>3, <2>4
<1>14. SessionsBeganActive'
  BY <1>8, <1>9 DEF SessionsBeganActive
<1>15. There(e.workflow)
       /\ (e.from # None => e.from \in InUse /\ executions[e.from].workflow = e.workflow)
  BY <1>0, <1>4 DEF RunsHold, SessionsRefer
<1>16. RecordsAreWhole'
  <2>1. \A i \in InUse : executions'[i] = executions[i]
    BY <1>6, <1>7
  <2>2. /\ e.from \in InUse => executions'[e.from] = executions[e.from]
        /\ InUse \subseteq InUse'
    BY <2>1, <1>7
  <2>3. ASSUME NEW i \in InUse
        PROVE  LET x == executions'[i]
               IN  /\ There(x.workflow)
                   /\ x.from # None => x.from \in InUse'
                                       /\ executions'[x.from].workflow = x.workflow
    BY <2>1, <2>2 DEF RecordsAreWhole
  <2>4. e.from # None => e.from \in InUse' /\ executions'[e.from].workflow = e.workflow
    BY <2>2, <1>15
  <2> QED
    BY <2>3, <2>4, <1>6, <1>7, <1>8, <1>15 DEF RecordsAreWhole
<1>17. ~e.webhook /\ ~row[e.workflow].is_active => e.created <= off[e.workflow]
  BY <1>0, <1>4 DEF SessionsBeganActive
<1>18. DeactivatedStaysQuiet'
  BY <1>6, <1>7, <1>8, <1>17 DEF DeactivatedStaysQuiet
<1> QED
  BY <1>9, <1>10, <1>11, <1>12, <1>13, <1>14, <1>16, <1>18

\* Only the status of a webhook's record changes.
LEMMA EndUnfinishedKeeps ==
  ASSUME TablesInv, NEW id \in Id, EndUnfinished(id)
  PROVE  TablesInv'
<1>1. /\ executions[id].status = "running"
      /\ UNCHANGED <<row, off, process, session, clock, counters>>
  BY DEF EndUnfinished
<1>2. /\ executions'[id].status = "ended"
      /\ \A i \in Id : /\ executions'[i].workflow = executions[i].workflow
                       /\ executions'[i].webhook = executions[i].webhook
                       /\ executions'[i].from = executions[i].from
                       /\ executions'[i].created = executions[i].created
      /\ \A i \in Id \ {id} : executions'[i].status = executions[i].status
  BY DEF EndUnfinished, TablesOK
<1>3. TablesOK' /\ SessionsOK' /\ ProcessOK'
  BY <1>1 DEF EndUnfinished, TablesOK, SessionsOK, ProcessOK, process, counters
<1>4. InUse' = InUse /\ InUse \subseteq Id
  BY <1>1, <1>2 DEF InUse
<1>5. CommittedIsOver'
  <2>1. ASSUME NEW i \in InUse
        PROVE  /\ executions'[i].status = "ended" \/ executions'[i].webhook
               /\ executions'[i].created <= clock /\ executions'[i].workflow \in Workflow
    BY <1>2, <1>4 DEF CommittedIsOver
  <2>2. ASSUME NEW i \in Id, executions'[i].status = "free"
        PROVE  executions'[i].workflow = None
    BY <1>2, <2>2 DEF CommittedIsOver
  <2> QED
    BY <1>1, <1>4, <2>1, <2>2 DEF CommittedIsOver
<1>6. SessionsRefer' /\ SessionsBeganActive'
  BY <1>1, <1>2, <1>4 DEF SessionsRefer, SessionsBeganActive, InUse
<1>7. RunsHold'
  BY <1>1, <1>2 DEF RunsHold
<1>8. RecordsAreWhole'
  <2>1. ASSUME NEW i \in InUse
        PROVE  LET x == executions'[i]
               IN  /\ There(x.workflow)
                   /\ x.from # None => x.from \in InUse
                                       /\ executions'[x.from].workflow = x.workflow
    BY <1>2, <1>4 DEF RecordsAreWhole
  <2> QED
    BY <1>1, <1>4, <2>1 DEF RecordsAreWhole
<1>9. DeactivatedStaysQuiet'
  BY <1>1, <1>2, <1>4 DEF DeactivatedStaysQuiet
<1> QED
  BY <1>3, <1>5, <1>6, <1>7, <1>8, <1>9

\* Nothing refers to a workflow that was not there yet.
LEMMA CreateWorkflowKeeps ==
  ASSUME TablesInv, NEW w \in Workflow, CreateWorkflow(w)
  PROVE  TablesInv'
<1>1. PICK trigger \in {"cron", "other"}, is_active \in BOOLEAN :
        row' = [row EXCEPT ![w] = [state |-> "there", is_active |-> is_active,
                                   trigger |-> trigger]]
  BY DEF CreateWorkflow
<1>2. row[w].state = "none" /\ off' = [off EXCEPT ![w] = clock]
      /\ UNCHANGED <<executions, process, session, clock, starts>>
  BY DEF CreateWorkflow
<1>3. \A v \in Workflow \ {w} : row'[v] = row[v] /\ off'[v] = off[v]
  BY <1>1, <1>2 DEF TablesOK
<1>4. row' \in [Workflow -> [state : {"none", "there", "deleted"},
                             is_active : BOOLEAN, trigger : {"cron", "other"}]]
  BY <1>1 DEF TablesOK
<1>5. TablesOK' /\ SessionsOK'
  BY <1>2, <1>4 DEF TablesOK, SessionsOK, ProcessOK
<1>6. ProcessOK'
  BY <1>2 DEF ProcessOK, process, CreateWorkflow, Edit
<1>7. InUse' = InUse /\ \A id \in InUse : executions[id].workflow \in Workflow \ {w}
  BY <1>2 DEF InUse, RecordsAreWhole, CommittedIsOver
<1>8. \A s \in Session : session[s].pc # "idle" => session[s].workflow \in Workflow \ {w}
  BY <1>2 DEF SessionsRefer
<1>9. CommittedIsOver' /\ RecordsAreWhole' /\ DeactivatedStaysQuiet'
  BY <1>2, <1>3, <1>7 DEF CommittedIsOver, RecordsAreWhole, DeactivatedStaysQuiet
<1>10. SessionsRefer' /\ RunsHold' /\ SessionsBeganActive'
  BY <1>2, <1>3, <1>7, <1>8 DEF SessionsRefer, RunsHold, SessionsBeganActive, SessionsOK
<1> QED
  BY <1>5, <1>6, <1>9, <1>10

\* What was read before a change of is_active began before it.
LEMMA UpdateWorkflowKeeps ==
  ASSUME TablesInv, NEW w \in Workflow, UpdateWorkflow(w)
  PROVE  TablesInv'
<1>1. /\ row[w].state = "there"
      /\ UNCHANGED <<executions, process, session, clock, starts>>
  BY DEF UpdateWorkflow
<1>2. /\ row' \in [Workflow -> [state : {"none", "there", "deleted"},
                                is_active : BOOLEAN, trigger : {"cron", "other"}]]
      /\ \A v \in Workflow : row'[v].state = row[v].state
      /\ \A v \in Workflow \ {w} : row'[v] = row[v]
  <2>1. CASE \E trigger \in {"cron", "other"} : row' = [row EXCEPT ![w].trigger = trigger]
    BY <2>1 DEF TablesOK
  <2>2. CASE row' = [row EXCEPT ![w].is_active = ~@]
    BY <2>2 DEF TablesOK
  <2> QED
    BY <2>1, <2>2 DEF UpdateWorkflow
<1>3. /\ off' \in [Workflow -> 0..MaxTime]
      /\ \A v \in Workflow : \/ row'[v].is_active = row[v].is_active /\ off'[v] = off[v]
                             \/ off'[v] = clock
  BY <1>2 DEF UpdateWorkflow, TablesOK, ProcessOK
<1>4. TablesOK' /\ SessionsOK'
  BY <1>1, <1>2, <1>3 DEF TablesOK, SessionsOK
<1>5. ProcessOK'
  BY <1>1 DEF ProcessOK, process, UpdateWorkflow, Edit
<1>6. InUse' = InUse
  BY <1>1 DEF InUse
<1>7. CommittedIsOver' /\ RecordsAreWhole' /\ SessionsRefer' /\ RunsHold'
  BY <1>1, <1>2, <1>6 DEF CommittedIsOver, RecordsAreWhole, SessionsRefer, RunsHold
<1>8. SessionsBeganActive'
  BY <1>1, <1>3 DEF SessionsBeganActive, SessionsRefer
<1>9. DeactivatedStaysQuiet'
  BY <1>1, <1>3, <1>6 DEF DeactivatedStaysQuiet, CommittedIsOver
<1> QED
  BY <1>4, <1>5, <1>7, <1>8, <1>9

\* No run holds the row, so that nobody who still refers to the workflow is past
\* its insert.
LEMMA DeleteWorkflowKeeps ==
  ASSUME TablesInv, NEW w \in Workflow, DeleteWorkflow(w)
  PROVE  TablesInv'
<1>1. /\ \A s \in Session : session[s].pc = "running" => session[s].workflow # w
      /\ UNCHANGED <<process, session, clock, off, starts>>
  BY DEF DeleteWorkflow, Locks
<1>2. /\ row' \in [Workflow -> [state : {"none", "there", "deleted"},
                                is_active : BOOLEAN, trigger : {"cron", "other"}]]
      /\ row'[w].state = "deleted"
      /\ \A v \in Workflow \ {w} : row'[v] = row[v]
      /\ \A v \in Workflow : row'[v].is_active = row[v].is_active
  BY DEF DeleteWorkflow, TablesOK
<1>3. \A id \in Id : executions'[id] = IF executions[id].workflow = w THEN Gone
                                       ELSE executions[id]
  BY DEF DeleteWorkflow, Without
<1>4. Gone \in [status : {"free", "running", "ended", "gone"}, created : 0..MaxTime,
                workflow : Workflow \cup {None}, webhook : BOOLEAN, from : Id \cup {None}]
      /\ Gone.status = "gone" /\ Gone.workflow = None
  BY DEF Gone
<1>5. executions' \in [Id ->
        [status : {"free", "running", "ended", "gone"}, created : 0..MaxTime,
         workflow : Workflow \cup {None}, webhook : BOOLEAN, from : Id \cup {None}]]
  BY <1>3, <1>4 DEF DeleteWorkflow, Without, TablesOK
<1>6. TablesOK' /\ SessionsOK'
  BY <1>1, <1>2, <1>5 DEF TablesOK, SessionsOK
<1>7. ProcessOK'
  BY <1>1 DEF ProcessOK, process, DeleteWorkflow, Edit
<1>8. /\ InUse' = {id \in InUse : executions[id].workflow # w}
      /\ InUse \subseteq Id
      /\ \A id \in InUse' : executions'[id] = executions[id]
  BY <1>3, <1>4 DEF InUse
<1>9. CommittedIsOver'
  <2>1. \A id \in Id : executions'[id].status = "free" => executions'[id].workflow = None
    BY <1>3, <1>4 DEF CommittedIsOver
  <2> QED
    BY <2>1, <1>1, <1>8 DEF CommittedIsOver
<1>10. SessionsRefer'
  <2> SUFFICES ASSUME NEW s \in Session, session[s].pc # "idle"
               PROVE  LET t == session[s]
                      IN  /\ t.workflow \in Workflow /\ row'[t.workflow].state # "none"
                          /\ t.began <= clock
                          /\ row'[t.workflow].state = "there" /\ t.from # None =>
                               t.from \in InUse' /\ executions'[t.from].workflow = t.workflow
    BY <1>1 DEF SessionsRefer
  <2>1. CASE session[s].workflow = w
    BY <2>1, <1>2 DEF SessionsRefer
  <2>2. CASE session[s].workflow # w
    BY <2>2, <1>2, <1>8 DEF SessionsRefer
  <2> QED
    BY <2>1, <2>2
<1>11. RunsHold'
  <2> SUFFICES ASSUME NEW s \in Session, session[s].pc = "running"
               PROVE  /\ row'[session[s].workflow].state = "there"
                      /\ session[s].id \in Id
                      /\ executions'[session[s].id].status = "free"
                      /\ \A t \in Session : session[t].id = session[s].id => t = s
    BY <1>1 DEF RunsHold
  <2>1. session[s].workflow \in Workflow \ {w} /\ session[s].id \in Id
        /\ executions[session[s].id].workflow # w
    BY <1>1 DEF RunsHold, CommittedIsOver, SessionsRefer
  <2> QED
    BY <2>1, <1>2, <1>3 DEF RunsHold
<1>12. SessionsBeganActive'
  BY <1>1, <1>2 DEF SessionsBeganActive, SessionsRefer
<1>13. RecordsAreWhole'
  <2> SUFFICES ASSUME NEW id \in InUse'
               PROVE  LET e == executions[id]
                      IN  /\ row'[e.workflow].state = "there"
                          /\ e.from # None => e.from \in InUse'
                                              /\ executions'[e.from].workflow = e.workflow
    BY <1>8 DEF RecordsAreWhole
  <2>1. id \in InUse /\ executions[id].workflow \in Workflow \ {w}
    BY <1>8 DEF CommittedIsOver
  <2> QED
    BY <2>1, <1>2, <1>8 DEF RecordsAreWhole
<1>14. DeactivatedStaysQuiet'
  BY <1>1, <1>2, <1>8 DEF DeactivatedStaysQuiet, CommittedIsOver
<1> QED
  BY <1>6, <1>7, <1>9, <1>10, <1>11, <1>12, <1>13, <1>14

\* Only workflows that are there are scheduled.
LEMMA StartKeeps ==
  ASSUME TablesInv, Start
  PROVE  TablesInv'
<1>1. PICK loaded \in Loads : jobs' \in parse_cron_expression(loaded)
  BY DEF Start
<1>2. jobs' \subseteq Workflow
  BY <1>1 DEF Loads, parse_cron_expression
<1>3. ProcessOK'
  BY <1>2 DEF Start, ProcessOK
<1>4. TablesOK' /\ SessionsOK' /\ CommittedIsOver' /\ SessionsRefer' /\ RunsHold'
      /\ SessionsBeganActive' /\ RecordsAreWhole' /\ DeactivatedStaysQuiet'
  BY DEF Start, tables, TablesOK, SessionsOK, CommittedIsOver, SessionsRefer, RunsHold,
     SessionsBeganActive, RecordsAreWhole, DeactivatedStaysQuiet, InUse
<1> QED
  BY <1>3, <1>4

\* Every transaction is rolled back.
LEMMA StopKeeps ==
  ASSUME TablesInv, Stop
  PROVE  TablesInv'
<1>1. TablesOK' /\ CommittedIsOver' /\ RecordsAreWhole' /\ DeactivatedStaysQuiet'
  BY DEF Stop, tables, TablesOK, CommittedIsOver, RecordsAreWhole,
     DeactivatedStaysQuiet, InUse
<1>2. ProcessOK'
  BY DEF Stop, counters, ProcessOK
<1>3. \A s \in Session : session'[s].pc = "idle"
  BY DEF Stop
<1>4. SessionsRefer' /\ RunsHold' /\ SessionsBeganActive'
  BY <1>3 DEF SessionsRefer, RunsHold, SessionsBeganActive
<1>5. SessionsOK'
  BY DEF Stop, SessionsOK
<1> QED
  BY <1>1, <1>2, <1>4, <1>5

LEMMA TickKeeps ==
  ASSUME TablesInv, Tick
  PROVE  TablesInv'
<1>1. clock' \in 0..MaxTime /\ \A n \in 0..MaxTime : n <= clock => n <= clock'
  BY DEF Tick, ProcessOK
<1>2. ProcessOK'
  BY <1>1 DEF Tick, ProcessOK, process, counters
<1>3. TablesOK' /\ SessionsOK' /\ RunsHold' /\ SessionsBeganActive' /\ RecordsAreWhole'
      /\ DeactivatedStaysQuiet'
  BY DEF Tick, tables, TablesOK, SessionsOK, RunsHold, SessionsBeganActive,
     RecordsAreWhole, DeactivatedStaysQuiet, InUse
<1>4. CommittedIsOver' /\ SessionsRefer'
  BY <1>1 DEF Tick, tables, TablesOK, SessionsOK, CommittedIsOver, SessionsRefer, InUse
<1> QED
  BY <1>2, <1>3, <1>4

LEMMA InitHolds == Init => TablesInv
<1> SUFFICES ASSUME Init PROVE TablesInv
  OBVIOUS
<1> DEFINE Row == [state : {"none", "there", "deleted"}, is_active : BOOLEAN,
                   trigger : {"cron", "other"}]
<1>1. Found \subseteq Row
  <2>1. [state : {"there"}, is_active : BOOLEAN, trigger : {"cron", "other"}] \subseteq Row
    OBVIOUS
  <2>2. [state |-> "none", is_active |-> FALSE, trigger |-> "other"] \in Row
    OBVIOUS
  <2> QED
    BY <2>1, <2>2, Zenon DEF Found
<1>2. TablesOK
  <2>1. row \in [Workflow -> Row]
    <3> HIDE DEF Row
    <3> QED
      BY <1>1 DEF Init
  <2> QED
    BY <2>1 DEF Init, TablesOK
<1>3. SessionsOK /\ ProcessOK
  <2>1. NoSession \in [pc : {"idle", "original", "selected", "running"},
                       workflow : Workflow \cup {None}, by : Starter,
                       from : Id \cup {None}, began : 0..MaxTime, id : Id \cup {None}]
    OBVIOUS
  <2> HIDE DEF NoSession
  <2>2. SessionsOK
    BY <2>1 DEF Init, SessionsOK
  <2>3. up \in BOOLEAN /\ jobs \subseteq Workflow
    BY Zenon DEF Init
  <2>4. clock \in 0..MaxTime /\ edits \in 0..MaxEdits /\ starts \in 0..MaxStarts
    BY DEF Init
  <2> QED
    BY <2>2, <2>3, <2>4 DEF ProcessOK
<1>4. InUse = {} /\ \A s \in Session : session[s].pc = "idle"
  BY DEF Init, InUse
<1> QED
  BY <1>2, <1>3, <1>4 DEF Init, CommittedIsOver, SessionsRefer, RunsHold,
     SessionsBeganActive, RecordsAreWhole, DeactivatedStaysQuiet

LEMMA NextKeeps ==
  ASSUME TablesInv, [Next]_vars
  PROVE  TablesInv'
<1>1. CASE Start
  BY <1>1, StartKeeps
<1>2. CASE Stop
  BY <1>2, StopKeeps
<1>3. CASE Tick
  BY <1>3, TickKeeps
<1>4. ASSUME NEW w \in Workflow,
             CreateWorkflow(w) \/ UpdateWorkflow(w) \/ DeleteWorkflow(w)
      PROVE  TablesInv'
  BY <1>4, CreateWorkflowKeeps, UpdateWorkflowKeeps, DeleteWorkflowKeeps
<1>5. ASSUME NEW s \in Session, NEW w \in Workflow,
             SelectManually(s, w) \/ CronTick(s, w) \/ ReceiveWebhook(s, w)
      PROVE  TablesInv'
  BY <1>5, TriggersKeep
<1>6. ASSUME NEW s \in Session, NEW id \in Id, SelectOriginal(s, id)
      PROVE  TablesInv'
  BY <1>6, SelectOriginalKeeps
<1>7. ASSUME NEW s \in Session,
             SelectWorkflow(s) \/ Insert(s) \/ Commit(s) \/ CommitInExcept(s) \/ Abort(s)
      PROVE  TablesInv'
  BY <1>7, SelectWorkflowKeeps, InsertKeeps, CommitKeeps, AbortKeeps
<1>8. ASSUME NEW c \in Client,
             GetPage(c) \/ Leave(c) \/ \E id \in Id : OpenStream(c, id)
      PROVE  TablesInv'
  BY <1>8, ReadersKeep DEF GetPage, Leave, OpenStream
<1>9. CASE UNCHANGED vars
  BY <1>9, ReadersKeep DEF vars, tables, process, counters
<1>10. ASSUME NEW id \in Id, EndUnfinished(id)
       PROVE  TablesInv'
  BY <1>10, EndUnfinishedKeeps
<1> QED
  BY <1>1, <1>2, <1>3, <1>4, <1>5, <1>6, <1>7, <1>8, <1>9, <1>10 DEF Next

\* The invariant on which the next two theorems rest holds in every state.
THEOREM TablesInvariance == Spec => []TablesInv
<1>1. Init => TablesInv
  BY InitHolds
<1>2. TablesInv /\ [Next]_vars => TablesInv'
  BY NextKeeps
<1> QED
  BY <1>1, <1>2, PTL DEF Spec

\* Whatever is deleted while runs are under way, and whichever jobs the scheduler
\* has, a committed execution has its workflow and its original.
THEOREM RecordsStayWhole == Spec => []RecordsAreWhole
<1>1. TablesInv => RecordsAreWhole
  OBVIOUS
<1> QED
  BY <1>1, TablesInvariance, PTL

\* A workflow that was made inactive is not run from then on, although the
\* scheduler keeps its job.
THEOREM InactiveIsQuiet == Spec => []DeactivatedStaysQuiet
<1>1. TablesInv => DeactivatedStaysQuiet
  OBVIOUS
<1> QED
  BY <1>1, TablesInvariance, PTL
-----------------------------------------------------------------------------
(* The order of the pages *)

Row == [created : Nat, id : Nat]
Cursor == [created : Nat, id : Nat, first : BOOLEAN]

\* ORDER BY is a strict total order of the rows.
LEMMA OrderIsTotal ==
  ASSUME NEW x \in Row, NEW y \in Row
  PROVE  /\ ~Precedes(x, x)
         /\ x = y \/ Precedes(x, y) \/ Precedes(y, x)
         /\ ~(Precedes(x, y) /\ Precedes(y, x))
         /\ \A z \in Row : Precedes(x, y) /\ Precedes(y, z) => Precedes(x, z)
<1>1. x = y <=> x.created = y.created /\ x.id = y.id
  BY DEF Row
<1> QED
  BY <1>1 DEF Row, Precedes

\* The sorted rows are the rows, each once and in order: a place is taken by one
\* row, and there are as many places as rows.
LEMMA SortedFits ==
  ASSUME NEW rows, rows \subseteq Row, IsFiniteSet(rows)
  PROVE  /\ Cardinality(rows) \in Nat
         /\ Sorted(rows) \in Seq(rows) /\ Len(Sorted(rows)) = Cardinality(rows)
         /\ \A x \in rows : \E i \in 1..Cardinality(rows) : Sorted(rows)[i] = x
         /\ \A i, j \in 1..Cardinality(rows) :
              i < j => Precedes(Sorted(rows)[i], Sorted(rows)[j])
<1> DEFINE Before(x) == {y \in rows : Precedes(y, x)}
           n == Cardinality(rows)
           place == [x \in rows |-> Place(x, rows)]
<1>1. n \in Nat
  BY FS_CardinalityType
<1>2. ASSUME NEW x \in rows
      PROVE  /\ IsFiniteSet(Before(x)) /\ Cardinality(Before(x)) \in Nat
             /\ Cardinality(Before(x)) < n
             /\ place[x] = 1 + Cardinality(Before(x))
  <2>1. Before(x) \subseteq rows /\ x \notin Before(x)
    BY <1>2, OrderIsTotal
  <2>2. /\ IsFiniteSet(Before(x)) /\ Cardinality(Before(x)) <= n
        /\ Cardinality(Before(x)) # n
    BY <2>1, FS_Subset
  <2>3. Cardinality(Before(x)) \in Nat
    BY <2>2, FS_CardinalityType
  <2>4. place[x] = 1 + Cardinality(Before(x))
    BY DEF Place
  <2> QED
    BY <1>1, <2>2, <2>3, <2>4
<1>3. ASSUME NEW x \in rows, NEW y \in rows, Precedes(x, y)
      PROVE  place[x] < place[y]
  <2>1. Before(x) \subseteq Before(y)
    BY <1>3, OrderIsTotal
  <2>2. x \in Before(y) /\ x \notin Before(x)
    BY <1>3, OrderIsTotal
  <2>3. /\ Cardinality(Before(x)) <= Cardinality(Before(y))
        /\ Cardinality(Before(x)) # Cardinality(Before(y))
    BY <1>2, <2>1, <2>2, FS_Subset
  <2> HIDE DEF Before, place
  <2> QED
    BY <1>2, <2>3
<1>4. ASSUME NEW x \in rows PROVE place[x] \in 1..n
  <2> HIDE DEF Before, place
  <2> QED
    BY <1>1, <1>2
<1>5. ASSUME NEW x \in rows, NEW y \in rows, place[x] = place[y] PROVE x = y
  <2>1. place[x] \in Int /\ place[y] \in Int
    BY <1>1, <1>4
  <2> HIDE DEF place
  <2>2. ~Precedes(x, y) /\ ~Precedes(y, x)
    BY <1>3, <1>5, <2>1
  <2> QED
    BY <2>2, OrderIsTotal
<1>6. place \in Surjection(rows, 1..n)
  <2>1. place \in Injection(rows, 1..n)
    <3>1. place \in [rows -> 1..n] /\ DOMAIN place = rows
      BY <1>4
    <3> HIDE DEF place
    <3> QED
      BY <1>5, <3>1 DEF Injection, IsInjective
  <2>2. IsFiniteSet(1..n) /\ Cardinality(1..n) = n
    BY <1>1, FS_Interval
  <2> QED
    BY <2>1, <2>2, FS_Injection
<1> DEFINE sorted == [i \in 1..n |-> CHOOSE x \in rows : place[x] = i]
<1>7. ASSUME NEW i \in 1..n PROVE sorted[i] \in rows /\ place[sorted[i]] = i
  <2>1. \E x \in rows : place[x] = i
    BY <1>6 DEF Surjection
  <2> HIDE DEF place
  <2> QED
    BY <2>1
<1>8. Sorted(rows) = sorted
  <2>1. ASSUME NEW i \in 1..n
        PROVE  (CHOOSE x \in rows : Place(x, rows) = i) = (CHOOSE x \in rows : place[x] = i)
    <3>1. \A x \in rows : Place(x, rows) = place[x]
      OBVIOUS
    <3> HIDE DEF place
    <3> QED
      BY <3>1, Zenon
  <2> QED
    BY <2>1 DEF Sorted
<1> HIDE DEF sorted, place
<1>9. sorted \in Seq(rows) /\ Len(sorted) = n
  <2>1. sorted \in [1..n -> rows]
    BY <1>7 DEF sorted
  <2> QED
    BY <1>1, <2>1
<1>10. ASSUME NEW x \in rows PROVE \E i \in 1..n : sorted[i] = x
  BY <1>4, <1>5, <1>7
<1>11. ASSUME NEW i \in 1..n, NEW j \in 1..n, i < j
       PROVE  Precedes(sorted[i], sorted[j])
  <2>1. sorted[i] \in rows /\ sorted[j] \in rows /\ sorted[i] # sorted[j]
    BY <1>7, <1>11
  <2>2. ~Precedes(sorted[j], sorted[i])
    BY <1>1, <1>3, <1>7, <1>11
  <2> QED
    BY <2>1, <2>2, OrderIsTotal
<1> QED
  BY <1>1, <1>8, <1>9, <1>10, <1>11

\* A page holds rows that follow its cursor, each once.  Either they are all, or
\* the next cursor leaves behind what is on the page and nothing else.
LEMMA PageFits ==
  ASSUME NEW rows, rows \subseteq Row, IsFiniteSet(rows), NEW cursor \in Cursor,
         NEW limit \in Nat \ {0}
  PROVE  LET fetched == Fetched(rows, cursor, limit)
             page == PageOf(fetched, limit)
             next == next_cursor(fetched, limit)
         IN  /\ page \in Seq(Following(rows, cursor))
             /\ \A i, j \in 1..Len(page) : i # j => page[i] # page[j]
             /\ ~has_more(fetched, limit) =>
                  /\ next = NoCursor
                  /\ \A x \in Following(rows, cursor) : \E i \in 1..Len(page) : page[i] = x
             /\ has_more(fetched, limit) =>
                  /\ next \in Cursor /\ ~next.first
                  /\ Following(rows, next) \subseteq Following(rows, cursor)
                  /\ \A i \in 1..Len(page) : page[i] \notin Following(rows, next)
                  /\ \A x \in Following(rows, cursor) \ Following(rows, next) :
                       \E i \in 1..Len(page) : page[i] = x
<1> DEFINE after == Following(rows, cursor)
           all == Sorted(after)
           n == Cardinality(after)
           fetched == Fetched(rows, cursor, limit)
           page == PageOf(fetched, limit)
           next == next_cursor(fetched, limit)
<1>1. after \subseteq rows /\ after \subseteq Row /\ IsFiniteSet(after)
  <2>1. after \subseteq rows
    BY DEF Following
  <2> QED
    BY <2>1, FS_Subset
<1> HIDE DEF after
<1>2. /\ n \in Nat /\ all \in Seq(after) /\ Len(all) = n
      /\ \A x \in after : \E i \in 1..n : all[i] = x
      /\ \A i, j \in 1..n : i < j => Precedes(all[i], all[j])
  BY <1>1, SortedFits
<1> HIDE DEF all, n
<1>3. \A i, j \in 1..n : i # j => all[i] # all[j]
  <2> SUFFICES ASSUME NEW i \in 1..n, NEW j \in 1..n, i # j PROVE all[i] # all[j]
    OBVIOUS
  <2>1. all[i] \in Row /\ all[j] \in Row
    BY <1>1, <1>2
  <2>2. i < j \/ j < i
    BY <1>2
  <2> QED
    BY <1>2, <2>1, <2>2, OrderIsTotal
<1>4. fetched = SubSeq(all, 1, IF n > limit THEN limit + 1 ELSE n)
  BY <1>2 DEF Fetched, all, after
<1> HIDE DEF fetched
<1>5. CASE n > limit
  <2>1. /\ Len(fetched) = limit + 1 /\ \A i \in 1..limit : fetched[i] = all[i]
        /\ fetched \in Seq(after)
    BY <1>2, <1>4, <1>5
  <2>2. has_more(fetched, limit)
    BY <2>1 DEF has_more
  <2>3. page = SubSeq(fetched, 1, limit) /\ next = encode_cursor(fetched[limit])
    BY <2>2 DEF PageOf, next_cursor
  <2> HIDE DEF page, next
  <2>4. /\ page \in Seq(after) /\ Len(page) = limit
        /\ \A i \in 1..limit : page[i] = all[i]
    BY <2>1, <2>3
  <2> DEFINE last == all[limit]
  <2>5. last \in after /\ last \in Row /\ limit \in 1..n
    BY <1>1, <1>2, <1>5
  <2>6. next = [created |-> last.created, id |-> last.id, first |-> FALSE]
    <3>1. limit \in 1..limit
      OBVIOUS
    <3> QED
      BY <2>1, <2>3, <3>1 DEF encode_cursor
  <2> HIDE DEF last
  <2>7. next \in Cursor /\ ~next.first
    BY <2>5, <2>6 DEF Row, Cursor
  <2>8. ASSUME NEW x \in rows PROVE x \in Following(rows, next) <=> Precedes(last, x)
    <3>1. x \in Row /\ x.created \in Nat /\ x.id \in Nat
          /\ last.created \in Nat /\ last.id \in Nat
      BY <2>5 DEF Row
    <3>2. x \in Following(rows, next) <=>
            x.created >= last.created /\ ~(x.created = last.created /\ x.id <= last.id)
      BY <2>6 DEF Following
    <3> QED
      BY <3>1, <3>2 DEF Precedes
  <2>9. Following(rows, next) \subseteq after
    <3> SUFFICES ASSUME NEW x \in rows, Precedes(last, x) PROVE x \in after
      BY <2>8 DEF Following
    <3>1. CASE cursor.first
      BY <3>1 DEF Following, after
    <3>2. CASE ~cursor.first
      <4>1. /\ x.created \in Nat /\ x.id \in Nat /\ last.created \in Nat /\ last.id \in Nat
            /\ cursor.created \in Nat /\ cursor.id \in Nat
        BY <2>5 DEF Row, Cursor
      <4>2. /\ last.created >= cursor.created
            /\ ~(last.created = cursor.created /\ last.id <= cursor.id)
        BY <2>5, <3>2 DEF Following, after
      <4>3. /\ x.created >= cursor.created
            /\ ~(x.created = cursor.created /\ x.id <= cursor.id)
        BY <4>1, <4>2 DEF Precedes
      <4> QED
        BY <3>2, <4>3 DEF Following, after
    <3> QED
      BY <3>1, <3>2
  <2>10. ASSUME NEW i \in 1..limit PROVE page[i] \notin Following(rows, next)
    <3>1. page[i] = all[i] /\ i \in 1..n /\ all[i] \in rows /\ all[i] \in Row
      BY <1>1, <1>2, <1>5, <2>4
    <3>2. ~Precedes(last, all[i])
      <4>1. CASE i = limit
        BY <2>5, <4>1, OrderIsTotal DEF last
      <4>2. CASE i < limit
        BY <1>2, <2>5, <3>1, <4>2, OrderIsTotal DEF last
      <4> QED
        BY <4>1, <4>2
    <3> QED
      BY <2>8, <3>1, <3>2
  <2>11. ASSUME NEW x \in after \ Following(rows, next)
         PROVE  \E i \in 1..Len(page) : page[i] = x
    <3>1. PICK i \in 1..n : all[i] = x
      BY <1>2
    <3>2. i <= limit
      <4> SUFFICES ASSUME i > limit PROVE FALSE
        BY <1>2
      <4>1. Precedes(last, x)
        BY <1>2, <2>5, <3>1 DEF last
      <4> QED
        BY <1>1, <2>8, <2>11, <4>1
    <3> QED
      BY <2>4, <3>1, <3>2
  <2>12. \A i, j \in 1..Len(page) : i # j => page[i] # page[j]
    BY <1>2, <1>3, <1>5, <2>4
  <2> QED
    BY <2>2, <2>4, <2>7, <2>9, <2>10, <2>11, <2>12 DEF page, next, fetched, after
<1>6. CASE ~(n > limit)
  <2>1. fetched = SubSeq(all, 1, n)
    BY <1>4, <1>6
  <2>2. /\ fetched \in Seq(after) /\ Len(fetched) = n
        /\ \A i \in 1..n : fetched[i] = all[i]
    BY <1>2, <2>1
  <2>3. ~has_more(fetched, limit)
    BY <1>6, <2>2 DEF has_more
  <2>4. page = fetched /\ next = NoCursor
    BY <2>3 DEF PageOf, next_cursor
  <2> HIDE DEF page, next
  <2> QED
    BY <1>2, <1>3, <2>2, <2>3, <2>4 DEF page, next, fetched, after
<1> QED
  BY <1>5, <1>6
-----------------------------------------------------------------------------
(* What a client has *)

LEMMA ConcatFits ==
  ASSUME NEW T, NEW s \in Seq(T), NEW t \in Seq(T), IsInjective(s), IsInjective(t),
         ToSet(s) \cap ToSet(t) = {}
  PROVE  /\ s \o t \in Seq(T) /\ IsInjective(s \o t)
         /\ ToSet(s \o t) = ToSet(s) \cup ToSet(t)
<1> DEFINE u == s \o t
           m == Len(s)
           n == Len(t)
<1>1. m \in Nat /\ n \in Nat /\ DOMAIN s = 1..m /\ DOMAIN t = 1..n
  OBVIOUS
<1>2. /\ u \in Seq(T) /\ Len(u) = m + n /\ DOMAIN u = 1..m + n
      /\ \A i \in 1..m + n : u[i] = IF i <= m THEN s[i] ELSE t[i - m]
  OBVIOUS
<1> HIDE DEF u
<1>3. \A i \in 1..m : u[i] = s[i] /\ i \in 1..m + n
  BY <1>1, <1>2
<1>4. \A j \in 1..n : u[j + m] = t[j] /\ j + m \in 1..m + n
  BY <1>1, <1>2
<1>5. \A i \in 1..m + n : i \in 1..m \/ (i - m \in 1..n /\ i = (i - m) + m)
  BY <1>1
<1> HIDE DEF m, n
<1>6. ToSet(u) = ToSet(s) \cup ToSet(t)
  <2>1. ASSUME NEW x \in ToSet(u) PROVE x \in ToSet(s) \cup ToSet(t)
    <3>1. PICK i \in 1..m + n : u[i] = x
      BY <1>2, <2>1 DEF ToSet
    <3>2. CASE i \in 1..m
      BY <1>1, <1>3, <3>1, <3>2 DEF ToSet
    <3>3. CASE i - m \in 1..n /\ i = (i - m) + m
      <4>1. t[i - m] = x
        BY <1>4, <3>1, <3>3
      <4> QED
        BY <1>1, <3>3, <4>1 DEF ToSet
    <3> QED
      BY <1>5, <3>2, <3>3
  <2>2. ASSUME NEW x \in ToSet(s) PROVE x \in ToSet(u)
    <3>1. PICK i \in 1..m : s[i] = x
      BY <1>1, <2>2 DEF ToSet
    <3> QED
      BY <1>2, <1>3, <3>1 DEF ToSet
  <2>3. ASSUME NEW x \in ToSet(t) PROVE x \in ToSet(u)
    <3>1. PICK i \in 1..n : t[i] = x
      BY <1>1, <2>3 DEF ToSet
    <3> QED
      BY <1>2, <1>4, <3>1 DEF ToSet
  <2> QED
    BY <2>1, <2>2, <2>3
<1>7. ASSUME NEW i \in 1..m + n, NEW j \in 1..m + n, u[i] = u[j] PROVE i = j
  <2>1. CASE i \in 1..m /\ j \in 1..m
    BY <1>1, <1>3, <1>7, <2>1 DEF IsInjective
  <2>2. CASE /\ i - m \in 1..n /\ i = (i - m) + m
             /\ j - m \in 1..n /\ j = (j - m) + m
    <3>1. t[i - m] = t[j - m]
      BY <1>4, <1>7, <2>2
    <3>2. i - m = j - m
      BY <1>1, <2>2, <3>1 DEF IsInjective
    <3> QED
      BY <2>2, <3>2
  <2>3. CASE i \in 1..m /\ j - m \in 1..n /\ j = (j - m) + m
    <3>1. s[i] = t[j - m]
      BY <1>3, <1>4, <1>7, <2>3
    <3> QED
      BY <1>1, <2>3, <3>1 DEF ToSet
  <2>4. CASE j \in 1..m /\ i - m \in 1..n /\ i = (i - m) + m
    <3>1. s[j] = t[i - m]
      BY <1>3, <1>4, <1>7, <2>4
    <3> QED
      BY <1>1, <2>4, <3>1 DEF ToSet
  <2> QED
    BY <1>5, <2>1, <2>2, <2>3, <2>4
<1>8. IsInjective(u)
  BY <1>2, <1>7 DEF IsInjective
<1> QED
  BY <1>2, <1>6, <1>8 DEF u

\* An execution in use is a row, and an id is that of one row.
LEMMA RowsFit ==
  ASSUME TablesOK
  PROVE  /\ Rows \subseteq Row /\ IsFiniteSet(Rows)
         /\ \A x \in Rows : x.id \in InUse /\ x.id \in Id
         /\ \A x, y \in Rows : x.id = y.id => x = y
         /\ \A id \in InUse : \E x \in Rows : x.id = id
<1> DEFINE rowOf == [id \in InUse |-> [created |-> executions[id].created, id |-> id]]
<1>1. InUse \subseteq Id /\ IsFiniteSet(InUse)
  BY FS_Subset DEF InUse
<1>2. \A id \in InUse : executions[id].created \in Nat /\ id \in Nat
  BY <1>1 DEF TablesOK
<1>3. /\ Rows \subseteq Row
      /\ \A x \in Rows : x.id \in InUse /\ x.id \in Id
      /\ \A x, y \in Rows : x.id = y.id => x = y
      /\ \A id \in InUse : \E x \in Rows : x.id = id
  <2>1. ASSUME NEW x \in Rows
        PROVE  /\ x.id \in InUse /\ x.id \in Id /\ x \in Row
               /\ x = [created |-> executions[x.id].created, id |-> x.id]
    <3>1. PICK id \in InUse : x = [created |-> executions[id].created, id |-> id]
      BY DEF Rows
    <3> QED
      BY <1>1, <1>2, <3>1 DEF Row
  <2>2. ASSUME NEW id \in InUse PROVE \E x \in Rows : x.id = id
    <3>1. [created |-> executions[id].created, id |-> id] \in Rows
      BY DEF Rows
    <3> QED
      BY <3>1
  <2>3. ASSUME NEW x \in Rows, NEW y \in Rows, x.id = y.id PROVE x = y
    BY <2>1, <2>3
  <2> QED
    BY <2>1, <2>2, <2>3
<1>4. rowOf \in Surjection(InUse, Rows)
  BY DEF Surjection, Rows
<1>5. IsFiniteSet(Rows)
  BY <1>1, <1>4, FS_Surjection
<1> QED
  BY <1>3, <1>5

\* A page, as the ids on it: what lay ahead of the cursor and does no longer.
LEMMA PageIds ==
  ASSUME TablesOK, NEW cursor \in Cursor
  PROVE  LET fetched == Fetched(Rows, cursor, PageSize)
             page == PageOf(fetched, PageSize)
             next == next_cursor(fetched, PageSize)
             ids == [i \in DOMAIN page |-> page[i].id]
         IN  /\ ids \in Seq(Id) /\ IsInjective(ids) /\ ToSet(ids) \subseteq Ahead(cursor)
             /\ next \in Cursor
             /\ ~has_more(fetched, PageSize) => Ahead(cursor) \subseteq ToSet(ids)
             /\ has_more(fetched, PageSize) =>
                  /\ ~next.first /\ Ahead(next) \subseteq Ahead(cursor)
                  /\ Ahead(next) \cap ToSet(ids) = {}
                  /\ Ahead(cursor) \subseteq Ahead(next) \cup ToSet(ids)
<1> DEFINE after == Following(Rows, cursor)
           fetched == Fetched(Rows, cursor, PageSize)
           more == has_more(fetched, PageSize)
           page == PageOf(fetched, PageSize)
           next == next_cursor(fetched, PageSize)
           left == Following(Rows, next)
           ids == [i \in DOMAIN page |-> page[i].id]
<1>1. /\ Rows \subseteq Row /\ IsFiniteSet(Rows)
      /\ \A x \in Rows : x.id \in InUse /\ x.id \in Id
      /\ \A x, y \in Rows : x.id = y.id => x = y
  BY RowsFit
<1>2. PageSize \in Nat \ {0} /\ NoCursor \in Cursor
  BY DEF NoCursor, Cursor
<1>3. /\ page \in Seq(after)
      /\ \A i, j \in 1..Len(page) : i # j => page[i] # page[j]
      /\ ~more => /\ next = NoCursor
                  /\ \A x \in after : \E i \in 1..Len(page) : page[i] = x
      /\ more => /\ next \in Cursor /\ ~next.first
                 /\ left \subseteq after
                 /\ \A i \in 1..Len(page) : page[i] \notin left
                 /\ \A x \in after \ left : \E i \in 1..Len(page) : page[i] = x
  BY ONLY <1>1, <1>2, cursor \in Cursor, PageFits
<1>4. after \subseteq Rows /\ left \subseteq Rows
  BY DEF Following
<1>5. Ahead(cursor) = {x.id : x \in after} /\ Ahead(next) = {x.id : x \in left}
  BY DEF Ahead
<1> HIDE DEF after, fetched, more, page, next, left
<1>6. /\ Len(page) \in Nat /\ DOMAIN page = 1..Len(page)
      /\ \A i \in 1..Len(page) : page[i] \in after
  BY <1>3
<1>7. /\ ids \in Seq(Id) /\ Len(ids) = Len(page) /\ DOMAIN ids = 1..Len(page)
      /\ \A i \in 1..Len(page) : ids[i] = page[i].id
  <2>1. ids \in [1..Len(page) -> Id]
    BY <1>1, <1>4, <1>6
  <2> QED
    BY <1>6, <2>1
<1> HIDE DEF ids
<1>8. IsInjective(ids)
  BY <1>1, <1>3, <1>4, <1>6, <1>7 DEF IsInjective
<1>9. \A x : x \in ToSet(ids) <=> \E i \in 1..Len(page) : x = page[i].id
  BY <1>7 DEF ToSet
<1>10. ToSet(ids) \subseteq Ahead(cursor)
  BY <1>5, <1>6, <1>9
<1>11. ASSUME ~more PROVE Ahead(cursor) \subseteq ToSet(ids)
  BY <1>3, <1>5, <1>9, <1>11
<1>12. ASSUME more
       PROVE  /\ ~next.first /\ Ahead(next) \subseteq Ahead(cursor)
              /\ Ahead(next) \cap ToSet(ids) = {}
              /\ Ahead(cursor) \subseteq Ahead(next) \cup ToSet(ids)
  <2>1. ~next.first /\ Ahead(next) \subseteq Ahead(cursor)
    BY <1>3, <1>5, <1>12
  <2>2. Ahead(next) \cap ToSet(ids) = {}
    <3> SUFFICES ASSUME NEW x \in left, NEW i \in 1..Len(page), x.id = page[i].id
                 PROVE  FALSE
      BY <1>5, <1>9
    <3>1. x = page[i]
      BY <1>1, <1>4, <1>6
    <3> QED
      BY <1>3, <1>12, <3>1
  <2>3. Ahead(cursor) \subseteq Ahead(next) \cup ToSet(ids)
    <3> SUFFICES ASSUME NEW x \in after PROVE x.id \in Ahead(next) \cup ToSet(ids)
      BY <1>5
    <3>1. CASE x \in left
      BY <1>5, <3>1
    <3>2. CASE x \notin left
      BY <1>3, <1>9, <1>12, <3>2
    <3> QED
      BY <3>1, <3>2
  <2> QED
    BY <2>1, <2>2, <2>3
<1>13. next \in Cursor
  BY <1>2, <1>3
<1> QED
  BY <1>7, <1>8, <1>10, <1>11, <1>12, <1>13 DEF ids, page, next, fetched, more
-----------------------------------------------------------------------------
(* The readers *)

\* Ids are used once: an execution in use that was not free before is the one it
\* was.
Moves ==
  \A id \in Id : \/ executions'[id] = executions[id]
                 \/ executions[id].status = "free" /\ executions'[id].status # "free"
                 \/ executions'[id].status = "gone"
                 \/ /\ executions[id].status = "running"
                    /\ executions'[id] = [executions[id] EXCEPT !.status = "ended"]

LEMMA NextMoves ==
  ASSUME TablesInv, [Next]_vars
  PROVE  Moves
<1>1. CASE UNCHANGED executions
  BY <1>1 DEF Moves
<1>2. ASSUME NEW w \in Workflow, DeleteWorkflow(w) PROVE Moves
  BY <1>2 DEF DeleteWorkflow, Without, Gone, Moves
<1>3. ASSUME NEW s \in Session, Commit(s) \/ CommitInExcept(s) PROVE Moves
  <2>1. session[s].id \in Id /\ executions[session[s].id].status = "free"
    BY <1>3 DEF Commit, CommitInExcept, RunsHold
  <2>2. /\ executions'[session[s].id].status \in {"ended", "running"}
        /\ \A id \in Id : id # session[s].id => executions'[id] = executions[id]
    BY <1>3, <2>1 DEF Commit, CommitInExcept, TablesOK, Record
  <2> QED
    BY <2>1, <2>2 DEF Moves
<1>4. ASSUME NEW id \in Id, EndUnfinished(id) PROVE Moves
  BY <1>4 DEF EndUnfinished, TablesOK, Moves
<1> QED
  BY <1>1, <1>2, <1>3, <1>4 DEF Next, vars, tables, Start, Stop, Tick, CreateWorkflow,
     UpdateWorkflow, SelectManually, CronTick, ReceiveWebhook, SelectOriginal,
     SelectWorkflow, Insert, Abort, GetPage, Leave, OpenStream

LEMMA CommittedStays ==
  ASSUME TablesOK, Moves, NEW id \in Id, executions[id].status # "free"
  PROVE  /\ executions'[id].status # "free"
         /\ id \in InUse' => /\ id \in InUse
                             /\ executions'[id].created = executions[id].created
<1>1. CASE executions[id].status = "running"
           /\ executions'[id] = [executions[id] EXCEPT !.status = "ended"]
  <2>1. executions'[id].status = "ended" /\ executions'[id].created = executions[id].created
    BY <1>1 DEF TablesOK
  <2> QED
    BY <1>1, <2>1 DEF InUse
<1> QED
  BY <1>1 DEF Moves, InUse

\* What lay ahead of a cursor or was committed since is ahead of it.
LEMMA AheadStays ==
  ASSUME TablesOK, TablesOK', Moves, NEW cursor \in Cursor,
         NEW id \in Id, executions[id].status # "free", id \in InUse'
  PROVE  id \in Ahead(cursor)' <=> id \in Ahead(cursor)
<1> DEFINE x == [created |-> executions[id].created, id |-> id]
<1>1. id \in InUse /\ executions'[id].created = executions[id].created
  BY CommittedStays
<1>2. ASSUME NEW y \in Rows, y.id = id PROVE y = x
  BY <1>2 DEF Rows
<1>3. ASSUME NEW y \in Rows', y.id = id PROVE y = x
  BY <1>1, <1>3 DEF Rows
<1>4. x \in Rows /\ x \in Rows' /\ x.id = id
  BY <1>1 DEF Rows
<1>5. id \in Ahead(cursor) <=> x \in Following(Rows, cursor)
  <2>1. \A y \in Following(Rows, cursor) : y \in Rows
    BY DEF Following
  <2> HIDE DEF x
  <2> QED
    BY <1>2, <1>4, <2>1 DEF Ahead
<1>6. id \in Ahead(cursor)' <=> x \in Following(Rows', cursor)
  <2>1. \A y \in Following(Rows', cursor) : y \in Rows'
    BY DEF Following
  <2> HIDE DEF x
  <2> QED
    BY <1>3, <1>4, <2>1 DEF Ahead
<1>7. x \in Following(Rows, cursor) <=> x \in Following(Rows', cursor)
  <2> HIDE DEF x
  <2> QED
    BY <1>4 DEF Following
<1> QED
  BY <1>5, <1>6, <1>7

\* A reader that does nothing, whatever is committed or deleted meanwhile.
LEMMA ReadsStays ==
  ASSUME TablesOK, TablesOK', Moves, NEW r \in Reader, Reads(r)
  PROVE  Reads(r)'
<1>1. r.cursor \in Cursor /\ r.base \subseteq Id /\ ToSet(r.seen) \subseteq Id
  <2>1. r.seen \in Seq(Id) /\ r.cursor \in Cursor /\ r.base \subseteq Id
    BY DEF Reader, Cursor
  <2> QED
    BY <2>1 DEF ToSet
<1>2. CASE r.pc \notin {"listing", "listed"}
  BY <1>2 DEF Reads
<1>3. CASE r.pc \in {"listing", "listed"}
  <2> DEFINE had == r.base \cup ToSet(r.seen)
  <2>1. \A id \in had : id \in Id /\ executions[id].status # "free"
    BY <1>1, <1>3 DEF Reads
  <2>2. \A id \in had : /\ executions'[id].status # "free"
                        /\ id \in InUse' => id \in InUse
    BY <2>1, CommittedStays
  <2>3. \A id \in had : id \in InUse' =>
          (id \in Ahead(r.cursor)' <=> id \in Ahead(r.cursor))
    BY <1>1, <2>1, AheadStays
  <2>4. \A id \in Ahead(r.cursor)' : id \in InUse'
    BY DEF Ahead, Following, Rows
  <2>5. ASSUME r.pc = "listing"
        PROVE  /\ ~r.cursor.first
               /\ \A id \in Ahead(r.cursor)' : id \notin ToSet(r.seen)
               /\ \A id \in r.base : id \in InUse' =>
                    id \in Ahead(r.cursor)' \/ id \in ToSet(r.seen)
    <3>1. /\ ~r.cursor.first
          /\ \A id \in Ahead(r.cursor) : id \notin ToSet(r.seen)
          /\ \A id \in r.base : id \in InUse =>
               id \in Ahead(r.cursor) \/ id \in ToSet(r.seen)
      BY <2>5 DEF Reads
    <3> QED
      BY <2>2, <2>3, <2>4, <3>1
  <2>6. ASSUME r.pc = "listed"
        PROVE  \A id \in r.base : id \in InUse' => id \in ToSet(r.seen)
    BY <2>2, <2>6 DEF Reads
  <2>7. IsInjective(r.seen) /\ r.pc # "idle"
    BY <1>3 DEF Reads
  <2> QED
    BY <1>3, <2>2, <2>5, <2>6, <2>7 DEF Reads
<1> QED
  BY <1>2, <1>3

\* A reader that gets a page.
LEMMA PageKeeps ==
  ASSUME TablesOK, NEW r \in Reader, Reads(r), r.pc \in {"idle", "listing"}
  PROVE  NextPage(r) \in Reader /\ Reads(NextPage(r))
<1> DEFINE fetched == Fetched(Rows, r.cursor, PageSize)
           more == has_more(fetched, PageSize)
           page == PageOf(fetched, PageSize)
           next == next_cursor(fetched, PageSize)
           ids == [i \in DOMAIN page |-> page[i].id]
           seen == r.seen \o ids
           base == IF r.pc = "idle" THEN InUse ELSE r.base
           new == NextPage(r)
<1>1. r.cursor \in Cursor /\ r.base \subseteq Id /\ r.seen \in Seq(Id)
  BY DEF Reader, Cursor
<1>2. /\ ids \in Seq(Id) /\ IsInjective(ids) /\ ToSet(ids) \subseteq Ahead(r.cursor)
      /\ next \in Cursor
      /\ ~more => Ahead(r.cursor) \subseteq ToSet(ids)
      /\ more => /\ ~next.first /\ Ahead(next) \subseteq Ahead(r.cursor)
                 /\ Ahead(next) \cap ToSet(ids) = {}
                 /\ Ahead(r.cursor) \subseteq Ahead(next) \cup ToSet(ids)
  BY <1>1, PageIds
<1>3. /\ new = [pc |-> IF more THEN "listing" ELSE "listed", cursor |-> next,
                seen |-> seen, base |-> base, status |-> r.status]
  BY DEF NextPage
<1> HIDE DEF fetched, more, page, next, ids, new
<1>4. Ahead(r.cursor) \subseteq InUse
  BY DEF Ahead, Following, Rows
\* How the reader stands before: the same for the first page and a further one.
<1>5. /\ base \subseteq Id /\ IsInjective(r.seen)
      /\ \A id \in base \cup ToSet(r.seen) : executions[id].status # "free"
      /\ Ahead(r.cursor) \cap ToSet(r.seen) = {}
      /\ base \cap InUse \subseteq Ahead(r.cursor) \cup ToSet(r.seen)
  <2>1. CASE r.pc = "idle"
    <3>1. r.seen = << >> /\ r.cursor.first /\ base = InUse
      BY <2>1 DEF Reads, NoClient, NoCursor
    <3>2. ToSet(r.seen) = {} /\ IsInjective(r.seen)
      BY <3>1 DEF ToSet, IsInjective
    <3>3. \A id \in InUse : id \in Ahead(r.cursor)
      <4>1. Following(Rows, r.cursor) = Rows
        BY <3>1 DEF Following
      <4> QED
        BY <4>1, RowsFit DEF Ahead
    <3> QED
      BY <3>1, <3>2, <3>3 DEF InUse
  <2>2. CASE r.pc = "listing"
    BY <1>1, <2>2 DEF Reads
  <2> QED
    BY <2>1, <2>2
<1> HIDE DEF base
<1>6. /\ seen \in Seq(Id) /\ IsInjective(seen)
      /\ ToSet(seen) = ToSet(r.seen) \cup ToSet(ids)
  BY <1>1, <1>2, <1>5, ConcatFits
<1> HIDE DEF seen
<1>7. \A id \in base \cup ToSet(seen) : executions[id].status # "free"
  BY <1>2, <1>4, <1>5, <1>6 DEF InUse
<1>8. CASE more
  <2>1. new.pc = "listing" /\ new.cursor = next /\ new.seen = seen /\ new.base = base
    BY <1>3, <1>8
  <2>2. Ahead(next) \cap ToSet(seen) = {}
    BY <1>2, <1>5, <1>6, <1>8
  <2>3. base \cap InUse \subseteq Ahead(next) \cup ToSet(seen)
    BY <1>2, <1>5, <1>6, <1>8
  <2>4. ~next.first
    BY <1>2, <1>8
  <2>5. Reads(new)
    BY <1>6, <1>7, <2>1, <2>2, <2>3, <2>4 DEF Reads
  <2>6. new \in Reader
    BY <1>2, <1>3, <1>5, <1>6, <1>8 DEF Reader, Cursor
  <2> QED
    BY <2>5, <2>6 DEF new
<1>9. CASE ~more
  <2>1. new.pc = "listed" /\ new.seen = seen /\ new.base = base
    BY <1>3, <1>9
  <2>2. base \cap InUse \subseteq ToSet(seen)
    BY <1>2, <1>5, <1>6, <1>9
  <2>3. Reads(new)
    BY <1>6, <1>7, <2>1, <2>2 DEF Reads
  <2>4. new \in Reader
    BY <1>2, <1>3, <1>5, <1>6, <1>9 DEF Reader, Cursor
  <2> QED
    BY <2>3, <2>4 DEF new
<1> QED
  BY <1>8, <1>9

\* A reader that is what it was, or fits the tables as they were.
LEMMA ReaderStays ==
  ASSUME TablesOK, TablesOK', Moves, NEW c \in Client, NEW r \in Reader, Reads(r),
         client'[c] = r
  PROVE  Reads(client[c])'
<1>1. Reads(r)'
  BY ReadsStays
<1> QED
  BY <1>1 DEF Reads, Ahead

LEMMA ReadersStay ==
  ASSUME TablesOK, TablesOK', Moves, ClientsOK, PagesInv, UNCHANGED client
  PROVE  ClientsOK' /\ PagesInv'
<1>1. ASSUME NEW c \in Client PROVE Reads(client[c])'
  <2>1. PICK r : r = client[c]
    OBVIOUS
  <2>2. r \in Reader /\ Reads(r)
    BY <2>1 DEF ClientsOK, PagesInv
  <2> QED
    BY <2>1, <2>2, ReaderStays
<1> QED
  BY <1>1 DEF ClientsOK, PagesInv

\* What a step makes of one reader, the tables standing still.
LEMMA OneReads ==
  ASSUME TablesOK, TablesOK', UNCHANGED executions, ClientsOK, PagesInv,
         NEW c \in Client, NEW r \in Reader, Reads(r),
         client' = [client EXCEPT ![c] = r]
  PROVE  ClientsOK' /\ PagesInv'
<1>1. Moves
  BY DEF Moves
<1>2. ASSUME NEW d \in Client PROVE Reads(client[d])'
  <2>1. PICK q : q = client'[d]
    OBVIOUS
  <2>2. q \in Reader /\ Reads(q)
    <3>1. q = r \/ q = client[d]
      BY <2>1 DEF ClientsOK
    <3> QED
      BY <3>1 DEF ClientsOK, PagesInv
  <2> QED
    BY <1>1, <2>1, <2>2, ReaderStays
<1>3. ClientsOK'
  BY DEF ClientsOK
<1> QED
  BY <1>2, <1>3 DEF PagesInv

LEMMA IdleReads == NoClient \in Reader /\ Reads(NoClient)
<1>1. << >> \in Seq(Id)
  OBVIOUS
<1> QED
  BY <1>1 DEF NoClient, NoCursor, Reader, Reads

LEMMA StopReads ==
  ASSUME TablesOK, TablesOK', ClientsOK, PagesInv, Stop
  PROVE  ClientsOK' /\ PagesInv'
<1>1. Moves
  BY DEF Moves, Stop, tables
<1>2. \A c \in Client : client'[c] = NoClient \/ client'[c] = client[c]
  BY DEF Stop
<1>3. ASSUME NEW c \in Client PROVE Reads(client[c])'
  <2>1. PICK q : q = client'[c]
    OBVIOUS
  <2>2. q \in Reader /\ Reads(q)
    BY <1>2, <2>1, IdleReads DEF ClientsOK, PagesInv
  <2> QED
    BY <1>1, <2>1, <2>2, ReaderStays
<1>4. ClientsOK'
  BY IdleReads DEF ClientsOK, Stop
<1> QED
  BY <1>3, <1>4 DEF PagesInv

LEMMA NextReads ==
  ASSUME TablesInv, TablesInv', ClientsOK, PagesInv, [Next]_vars
  PROVE  ClientsOK' /\ PagesInv'
<1>1. CASE UNCHANGED client
  BY <1>1, NextMoves, ReadersStay
<1>2. CASE Stop
  BY <1>2, StopReads
<1>3. ASSUME NEW c \in Client, GetPage(c) PROVE ClientsOK' /\ PagesInv'
  <2>1. PICK r : r = client[c]
    OBVIOUS
  <2>2. r \in Reader /\ Reads(r) /\ r.pc \in {"idle", "listing"}
    BY <1>3, <2>1 DEF GetPage, ClientsOK, PagesInv
  <2>3. PICK n : n = NextPage(r)
    OBVIOUS
  <2>4. n \in Reader /\ Reads(n)
    BY <2>2, <2>3, PageKeeps
  <2>5. client' = [client EXCEPT ![c] = n] /\ UNCHANGED executions
    BY <1>3, <2>1, <2>3 DEF GetPage, tables
  <2> QED
    BY <2>4, <2>5, OneReads
<1>4. ASSUME NEW c \in Client, NEW id \in Id, OpenStream(c, id)
      PROVE  ClientsOK' /\ PagesInv'
  <2> DEFINE stream == [NoClient EXCEPT !.pc = "streaming", !.seen = <<id>>,
                                        !.status = executions[id].status]
  <2>1. PICK n : n = stream
    OBVIOUS
  <2>2. n = [pc |-> "streaming", cursor |-> NoCursor, seen |-> <<id>>, base |-> {},
             status |-> executions[id].status]
    BY <2>1 DEF NoClient
  <2>3. n \in Reader
    <3>1. <<id>> \in Seq(Id) /\ executions[id].status \in {"free", "running", "ended", "gone"}
      BY DEF TablesOK
    <3> QED
      BY <2>2, <3>1 DEF Reader, NoCursor
  <2>4. Reads(n)
    BY <2>2 DEF Reads
  <2>5. client' = [client EXCEPT ![c] = n] /\ UNCHANGED executions
    BY <1>4, <2>1 DEF OpenStream, tables
  <2> QED
    BY <2>3, <2>4, <2>5, OneReads
<1>5. ASSUME NEW c \in Client, Leave(c) PROVE ClientsOK' /\ PagesInv'
  <2>1. PICK n : n = NoClient
    OBVIOUS
  <2>2. n \in Reader /\ Reads(n)
    BY <2>1, IdleReads
  <2>3. client' = [client EXCEPT ![c] = n] /\ UNCHANGED executions
    BY <1>5, <2>1 DEF Leave, tables
  <2> QED
    BY <2>2, <2>3, OneReads
<1> QED
  BY <1>1, <1>2, <1>3, <1>4, <1>5 DEF Next, vars, Start, Tick, CreateWorkflow,
     UpdateWorkflow, DeleteWorkflow, SelectManually, CronTick, ReceiveWebhook,
     SelectOriginal, SelectWorkflow, Insert, Commit, CommitInExcept, EndUnfinished, Abort

\* The invariant with the readers in it.
THEOREM Invariance == Spec => []IInv
<1>1. Init => ClientsOK /\ PagesInv
  <2> SUFFICES ASSUME Init PROVE ClientsOK /\ PagesInv
    OBVIOUS
  <2>1. client = [c \in Client |-> NoClient]
    BY DEF Init
  <2> QED
    BY <2>1, IdleReads DEF ClientsOK, PagesInv
<1>2. TablesInv /\ TablesInv' /\ ClientsOK /\ PagesInv /\ [Next]_vars
        => ClientsOK' /\ PagesInv'
  BY NextReads
<1>3. TablesInv /\ ClientsOK /\ PagesInv => IInv
  BY DEF IInv
<1> QED
  BY <1>1, <1>2, <1>3, TablesInvariance, PTL DEF Spec

\* Whoever follows the cursors to the end has every execution that was there all
\* the time, once, whatever is committed and deleted between the pages.
THEOREM PagesStayExact == Spec => []PagesAreExact
<1>1. IInv => PagesAreExact
  BY DEF IInv, PagesInv, Reads, PagesAreExact, IsInjective
<1> QED
  BY <1>1, Invariance, PTL
-----------------------------------------------------------------------------
(* The streams *)

\* What was told of an execution.
Told(status, id) ==
  /\ status \in {"ended", "running"} /\ executions[id].status # "free"
  /\ status = "ended" => executions[id].status # "running"
  /\ status = "running" => executions[id].status = "gone" \/ executions[id].webhook

StreamsInv ==
  \A c \in Client : client[c].pc = "streaming" =>
    \E id \in Id : client[c].seen = <<id>> /\ Told(client[c].status, id)

\* What was told stays true whatever becomes of the execution.
LEMMA ToldStays ==
  ASSUME TablesOK, Moves, NEW status, NEW id \in Id, Told(status, id)
  PROVE  Told(status, id)'
<1>1. CASE executions[id].status = "running"
           /\ executions'[id] = [executions[id] EXCEPT !.status = "ended"]
  <2>1. executions'[id].status = "ended" /\ executions'[id].webhook = executions[id].webhook
    BY <1>1 DEF TablesOK
  <2> QED
    BY <1>1, <2>1 DEF Told
<1> QED
  BY <1>1 DEF Told, Moves

LEMMA StreamsStep ==
  ASSUME TablesInv, TablesInv', ClientsOK, StreamsInv, [Next]_vars
  PROVE  StreamsInv'
<1>0. Moves
  BY NextMoves
<1>1. ASSUME NEW c \in Client, client'[c] = client[c], client[c].pc = "streaming"
      PROVE  \E id \in Id : client'[c].seen = <<id>> /\ Told(client[c].status, id)'
  <2>1. PICK id \in Id : client[c].seen = <<id>> /\ Told(client[c].status, id)
    BY <1>1 DEF StreamsInv
  <2>2. PICK status : status = client[c].status
    OBVIOUS
  <2>3. Told(status, id)'
    BY <1>0, <2>1, <2>2, ToldStays
  <2> QED
    BY <1>1, <2>1, <2>2, <2>3
<1>2. ASSUME NEW c \in Client, NEW id \in Id, OpenStream(c, id)
      PROVE  /\ client'[c].seen = <<id>> /\ Told(client[c].status, id)'
             /\ \A d \in Client \ {c} : client'[d] = client[d]
  <2>1. /\ client'[c].seen = <<id>> /\ client'[c].status = executions[id].status
        /\ \A d \in Client \ {c} : client'[d] = client[d]
    BY <1>2 DEF OpenStream, ClientsOK, NoClient
  <2>2. executions[id].status \in {"ended", "running"} /\ id \in InUse
    BY <1>2 DEF OpenStream, TablesOK, InUse
  <2>3. Told(executions[id].status, id)
    BY <2>2 DEF Told, CommittedIsOver
  <2>4. UNCHANGED executions
    BY <1>2 DEF OpenStream, tables
  <2> QED
    BY <2>1, <2>3, <2>4 DEF Told
<1>3. ASSUME NEW c \in Client, GetPage(c) \/ Leave(c)
      PROVE  /\ client'[c].pc # "streaming"
             /\ \A d \in Client \ {c} : client'[d] = client[d]
  BY <1>3 DEF GetPage, NextPage, Leave, NoClient, ClientsOK
<1>4. ASSUME Stop, NEW c \in Client PROVE client'[c].pc # "streaming"
  BY <1>4 DEF Stop, NoClient
<1>5. \/ UNCHANGED client \/ Stop
      \/ \E c \in Client, id \in Id : OpenStream(c, id)
      \/ \E c \in Client : GetPage(c) \/ Leave(c)
  BY DEF Next, vars, Start, Tick, CreateWorkflow, UpdateWorkflow, DeleteWorkflow,
     SelectManually, CronTick, ReceiveWebhook, SelectOriginal, SelectWorkflow, Insert,
     Commit, CommitInExcept, EndUnfinished, Abort
<1> QED
  BY <1>1, <1>2, <1>3, <1>4, <1>5 DEF StreamsInv

\* The client of a stream, on which nothing is ever published, misses nothing that a
\* run does: the stream told how the execution ended, or what a webhook left of it.
THEOREM StreamsNeedNoEvents == Spec => []StreamsMissNoRun
<1>1. Init => StreamsInv
  BY DEF Init, StreamsInv, NoClient
<1>2. TablesInv /\ TablesInv' /\ ClientsOK /\ StreamsInv /\ [Next]_vars => StreamsInv'
  BY StreamsStep
<1>3. TablesInv /\ StreamsInv => StreamsMissNoRun
  <2> SUFFICES ASSUME TablesInv, StreamsInv, NEW c \in Client,
                      client[c].pc = "streaming"
               PROVE  /\ client[c].status \in {"ended", "running"}
                      /\ \A id \in InUse \cap ToSet(client[c].seen) :
                           /\ client[c].status = "ended" => executions[id].status = "ended"
                           /\ client[c].status = "running" =>
                                /\ executions[id].webhook
                                /\ ~\E s \in Session :
                                      session[s].pc = "running" /\ session[s].id = id
    BY DEF StreamsMissNoRun
  <2>1. PICK id \in Id : client[c].seen = <<id>> /\ Told(client[c].status, id)
    BY DEF StreamsInv
  <2>2. ToSet(client[c].seen) = {id}
    BY <2>1 DEF ToSet
  <2>3. id \in InUse => executions[id].status \in {"ended", "running"}
    BY DEF InUse, TablesOK
  <2>4. ~\E s \in Session : session[s].pc = "running" /\ session[s].id = id
    BY <2>1 DEF Told, RunsHold
  <2> QED
    BY <2>1, <2>2, <2>3, <2>4 DEF Told, InUse
<1>4. IInv => TablesInv /\ ClientsOK
  BY DEF IInv
<1> QED
  BY <1>1, <1>2, <1>3, <1>4, Invariance, PTL DEF Spec
=============================================================================

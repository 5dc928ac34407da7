----------------------------- MODULE QueueWorker ----------------------------
(***************************************************************************)
(* Several sessions on the rows of one execution: execute_step on the arq  *)
(* worker (src/src/queue/tasks.py), cancel_execution in the web process    *)
(* (src/src/api/executions.py) and the hourly cleanup_stale_executions     *)
(* (src/src/queue/jobs.py).                                                *)
(*                                                                         *)
(* An action is the code between two round trips to PostgreSQL.  A session *)
(* reads what is committed and keeps it: a later SELECT of a loaded row    *)
(* returns the instance it has.  A flush is an UPDATE by primary key,      *)
(* which waits for the row and then writes whatever the row has become.    *)
(* Who queues the steps and their jobs is outside of src/: the starting    *)
(* point is an execution committed as running with its steps queued.       *)
(***************************************************************************)
EXTENDS StateMachine, Sequences, Naturals

CONSTANTS
  StepList,    \* the steps of the execution, in the order of their rows
  Job,         \* jobs in the arq queue
  Canceller,   \* handlers of POST /api/executions/{id}/cancel
  None,
  MaxFaults    \* bound: crashes of workers and lost connections

Cleaner == "cleanup"
Session == Job \cup Canceller \cup {Cleaner}

Exec == "execution"
Step == {StepList[i] : i \in DOMAIN StepList}
Row == Step \cup {Exec}

ASSUME QueueAssumption ==
  /\ Exec \notin Step
  /\ None \notin Session /\ Cleaner \notin Job \cup Canceller
  /\ Job \cap Canceller = {} /\ MaxFaults \in Nat

\* What cancel and cleanup take for unfinished.
Waiting == {"pending", "queued", "running"}

Unfinished(step) == step.status \in Waiting

VARIABLES
  step_of, \* the step each job was queued for; a step may have several jobs
  db,      \* the rows as committed
  row,     \* the newest version of each row
  held,    \* the session whose transaction wrote (or locked) it, and holds it
  pc,      \* the round trip each session is about to make
  seen,    \* what a job's session loaded: its step's status and the context
  todo,    \* the steps that cancel or cleanup still goes through
  stale,   \* the execution started more than STALE_THRESHOLD ago
  faults   \* counter for the bound

vars == <<step_of, db, row, held, pc, seen, todo, stale, faults>>

ExecRow == [status : ExecutionStatus, context : SUBSET Step]
\* Whose message the column error holds: that of the executor or of the cleanup.
Errors == {"none", "raised", "stale"}
StepRow == [status : StepStatus, output : BOOLEAN, error : Errors]

RowsOK ==
  /\ \A t \in {db, row} : /\ DOMAIN t = Row /\ t[Exec] \in ExecRow
                          /\ \A s \in Step : t[s] \in StepRow
  /\ held \in [Row -> Session \cup {None}]

PcOK ==
  /\ DOMAIN pc = Session
  /\ \A j \in Job : pc[j] \in {"enqueued", "lookup", "starting", "executing",
                               "orphaned", "merging", "committing", "ended"}
  /\ \A c \in Canceller : pc[c] \in {"idle", "loading", "updating", "steps", "ended"}
  /\ pc[Cleaner] \in {"idle", "updating", "loading", "steps"}

LocalsOK ==
  /\ step_of \in [Job -> Step]
  /\ seen \in [Job -> [status : StepStatus, context : SUBSET Step]]
  /\ todo \in [Canceller \cup {Cleaner} -> SUBSET Step]
  /\ stale \in BOOLEAN /\ faults \in 0..MaxFaults

TypeOK == RowsOK /\ PcOK /\ LocalsOK
-----------------------------------------------------------------------------
Nothing == [status |-> "queued", context |-> {}]

Init ==
  /\ step_of \in [Job -> Step]
  /\ db = [r \in Row |-> IF r = Exec THEN [status |-> "running", context |-> {}]
                         ELSE [status |-> "queued", output |-> FALSE, error |-> "none"]]
  /\ row = db /\ held = [r \in Row |-> None]
  /\ pc = [x \in Session |-> IF x \in Job THEN "enqueued" ELSE "idle"]
  /\ seen = [j \in Job |-> Nothing]
  /\ todo = [x \in Canceller \cup {Cleaner} |-> {}]
  /\ stale = FALSE /\ faults = 0

Go(x, next) == pc' = [pc EXCEPT ![x] = next]

\* A flush: wait for the row, write it, hold it to the end of the transaction.
Free(x, r) == held[r] \in {None, x}
Flush(x, r, new) ==
  /\ Free(x, r)
  /\ row' = [row EXCEPT ![r] = new]
  /\ held' = [held EXCEPT ![r] = x]

\* A final session.commit(), or its rollback when it closes without one.
Held(x) == {r \in Row : held[r] = x}
Release(xs) == held' = [r \in Row |-> IF held[r] \in xs THEN None ELSE held[r]]
Publish(x) == /\ db' = [r \in Row |-> IF r \in Held(x) THEN row[r] ELSE db[r]]
              /\ Release({x}) /\ UNCHANGED row
Undo(xs) == /\ row' = [r \in Row |-> IF held[r] \in xs THEN db[r] ELSE row[r]]
            /\ Release(xs) /\ UNCHANGED db

\* What the sessions xs have loaded goes with them.
Close(xs) ==
  /\ seen' = [j \in Job |-> IF j \in xs THEN Nothing ELSE seen[j]]
  /\ todo' = [x \in DOMAIN todo |-> IF x \in xs THEN {} ELSE todo[x]]

rest == <<step_of, todo, stale, faults>>
-----------------------------------------------------------------------------
(* execute_step *)

\* A worker takes the job: SELECT of the step.
LookUpStep(j) ==
  /\ pc[j] = "enqueued" /\ Go(j, "lookup")
  /\ seen' = [seen EXCEPT ![j].status = db[step_of[j]].status]
  /\ UNCHANGED <<db, row, held, rest>>

\* SELECT of the execution; then the transition to running, checked against the
\* step as loaded: if it is refused the job fails, and arq does not retry it.
LookUpExecution(j) ==
  /\ pc[j] = "lookup"
  /\ IF validate_step_transition(seen[j].status, "running")
     THEN /\ Go(j, "starting")
          /\ seen' = [seen EXCEPT ![j].context = db[Exec].context]
     ELSE Go(j, "ended") /\ seen' = [seen EXCEPT ![j] = Nothing]
  /\ UNCHANGED <<db, row, held, rest>>

\* Mistake: the step is committed as running before the executor is called.
Start_committed(j) ==
  /\ pc[j] = "starting" /\ held[step_of[j]] = None /\ Go(j, "executing")
  /\ row' = [row EXCEPT ![step_of[j]].status = "running"]
  /\ db' = [db EXCEPT ![step_of[j]].status = "running"]
  /\ UNCHANGED <<held, seen, rest>>

\* The flush of running, and the call of the executor.
Start(j) ==
  /\ pc[j] = "starting" /\ Go(j, "executing")
  /\ Flush(j, step_of[j], [row[step_of[j]] EXCEPT !.status = "running"])
  /\ UNCHANGED <<db, seen, rest>>

\* The executor returns: completed, with the output.
Return(j) ==
  /\ pc[j] = "executing" /\ Go(j, "merging")
  /\ Flush(j, step_of[j], [row[step_of[j]] EXCEPT !.status = "completed",
                                                  !.output = TRUE])
  /\ UNCHANGED <<db, seen, rest>>

\* Mistake: what the executor raised is merged as an output.
Raise_merging(j) ==
  /\ pc[j] = "executing" /\ Go(j, "merging")
  /\ Flush(j, step_of[j], [row[step_of[j]] EXCEPT !.status = "failed"])
  /\ UNCHANGED <<db, seen, rest>>

\* The executor raises: failed, in the except branch.
Raise(j) ==
  /\ pc[j] = "executing" /\ Go(j, "committing")
  /\ Flush(j, step_of[j], [row[step_of[j]] EXCEPT !.status = "failed",
                                                  !.error = "raised"])
  /\ UNCHANGED <<db, seen, rest>>

\* merge_step_output: the context as loaded before the executor ran, with the
\* output added; no UPDATE if the same output is there already.
Merge(j) ==
  /\ pc[j] = "merging" /\ Go(j, "committing")
  /\ \/ Flush(j, Exec, [row[Exec] EXCEPT
                          !.context = seen[j].context \cup {step_of[j]}])
     \/ step_of[j] \in seen[j].context /\ UNCHANGED <<row, held>>
  /\ UNCHANGED <<db, seen, rest>>
-----------------------------------------------------------------------------
(* cancel_execution *)

\* SELECT of the execution; the transition is checked against what was loaded.
LoadExecution(c) ==
  /\ pc[c] = "idle"
  /\ Go(c, IF validate_execution_transition(db[Exec].status, "cancelled")
           THEN "loading" ELSE "ended")
  /\ UNCHANGED <<db, row, held, seen, rest>>

\* Mistake: queued steps are taken for finished.
LoadSteps_unqueued(x) ==
  /\ pc[x] = "loading" /\ Go(x, IF x = Cleaner THEN "steps" ELSE "updating")
  /\ todo' = [todo EXCEPT ![x] =
                {s \in Step : db[s].status \in {"pending", "running"}}]
  /\ UNCHANGED <<db, row, held, seen, stale, faults, step_of>>

\* cancel: selectinload of the steps, before the execution is updated.  cleanup:
\* the rows its second UPDATE finds, after the execution is updated.
LoadSteps(x) ==
  /\ pc[x] = "loading" /\ Go(x, IF x = Cleaner THEN "steps" ELSE "updating")
  /\ todo' = [todo EXCEPT ![x] =
                {s \in Step : Unfinished(db[s])}]
  /\ UNCHANGED <<db, row, held, seen, stale, faults, step_of>>

\* The next of them, as a set: the rows are taken in one order.
Turn(x) ==
  {s \in todo[x] : \E i \in DOMAIN StepList :
     StepList[i] = s /\ \A k \in DOMAIN StepList : k < i => StepList[k] \notin todo[x]}

CancelExecution(c) ==
  /\ pc[c] = "updating" /\ Go(c, "steps")
  /\ Flush(c, Exec, [row[Exec] EXCEPT !.status = "cancelled"])
  /\ UNCHANGED <<db, seen, rest>>

\* Mistake: the loop starts with the same step again.
SkipStep_stuck(c) ==
  /\ pc[c] = "steps"
  /\ \E s \in Turn(c) : Flush(c, s, [row[s] EXCEPT !.status = "skipped"])
  /\ UNCHANGED <<db, pc, seen, todo, stale, faults, step_of>>

\* The transition to skipped is checked against the status as loaded: it passes.
SkipStep(c) ==
  /\ pc[c] = "steps"
  /\ \E s \in Turn(c) : /\ Flush(c, s, [row[s] EXCEPT !.status = "skipped"])
                         /\ todo' = [todo EXCEPT ![c] = @ \ {s}]
  /\ UNCHANGED <<db, pc, seen, stale, faults, step_of>>
-----------------------------------------------------------------------------
(* cleanup_stale_executions *)

Elapse == /\ ~stale /\ stale' = TRUE
          /\ UNCHANGED <<step_of, db, row, held, pc, seen, todo, faults>>

\* SELECT of the running executions past the cutoff.
FindStale ==
  /\ pc[Cleaner] = "idle" /\ stale /\ db[Exec].status = "running"
  /\ Go(Cleaner, "updating")
  /\ UNCHANGED <<db, row, held, seen, rest>>

\* UPDATE by id: the status is not looked at again.
FailExecution ==
  /\ pc[Cleaner] = "updating" /\ Go(Cleaner, "loading")
  /\ Flush(Cleaner, Exec, [row[Exec] EXCEPT !.status = "failed"])
  /\ UNCHANGED <<db, seen, rest>>

\* Mistake: the steps are selected first and updated by id.
FailStep_by_id ==
  /\ pc[Cleaner] = "steps"
  /\ \E s \in Turn(Cleaner) :
       /\ Flush(Cleaner, s, [row[s] EXCEPT !.status = "failed", !.error = "stale"])
       /\ todo' = [todo EXCEPT ![Cleaner] = @ \ {s}]
  /\ UNCHANGED <<db, pc, seen, stale, faults, step_of>>

\* A row the UPDATE had to wait for is locked and its WHERE looked at again.
FailStep ==
  /\ pc[Cleaner] = "steps"
  /\ \E s \in Turn(Cleaner) :
       /\ Flush(Cleaner, s, IF Unfinished(row[s])
                            THEN [row[s] EXCEPT !.status = "failed", !.error = "stale"]
                            ELSE row[s])
       /\ todo' = [todo EXCEPT ![Cleaner] = @ \ {s}]
  /\ UNCHANGED <<db, pc, seen, stale, faults, step_of>>
-----------------------------------------------------------------------------
(* The end of a session *)

After(x) == IF x = Cleaner THEN "idle" ELSE "ended"

Commit(x) ==
  /\ \/ pc[x] = "committing"
     \/ pc[x] = "steps" /\ todo[x] = {}
  /\ Publish(x) /\ Go(x, After(x)) /\ Close({x})
  /\ UNCHANGED <<stale, faults, step_of>>

\* An exception nobody handles: in a job it ends up in the except branch, whose
\* own statements fail in the broken session.  The session rolls back.
Abort(x) == Undo({x}) /\ Go(x, After(x)) /\ Close({x}) /\ UNCHANGED <<stale, step_of>>

Calling(j) == pc[j] \in {"executing", "orphaned"}

Active(x) == pc[x] \notin {"enqueued", "idle", "ended"}

\* The connection is lost between two statements of x: PostgreSQL rolls back and
\* frees the rows, and x learns of it from its next statement.
LoseConnection(x) ==
  /\ faults < MaxFaults /\ faults' = faults + 1
  /\ Active(x) /\ ~Calling(x) /\ Abort(x)

\* The same while the executor is called: the row is free, but the job, which
\* makes no statement meanwhile, goes on awaiting the executor.
LoseConnectionInCall(j) ==
  /\ faults < MaxFaults /\ faults' = faults + 1
  /\ pc[j] = "executing" /\ Undo({j}) /\ Go(j, "orphaned")
  /\ UNCHANGED <<seen, todo, stale, step_of>>

\* That call ends, whichever way: the transition fails for want of a connection,
\* and the one of the except branch too.
FindConnectionLost(j) ==
  pc[j] = "orphaned" /\ Abort(j) /\ UNCHANGED faults

\* A job past arq's timeout is cancelled, the call of its executor with it.
TimeOut(j) ==
  /\ faults < MaxFaults /\ faults' = faults + 1
  /\ Active(j) /\ Abort(j)

\* A worker process stops; its jobs are delivered again.
Crash(js) ==
  /\ faults < MaxFaults /\ faults' = faults + 1
  /\ js # {} /\ \A j \in js : Active(j)
  /\ Undo(js) /\ Close(js)
  /\ pc' = [x \in Session |-> IF x \in js THEN "enqueued" ELSE pc[x]]
  /\ UNCHANGED <<stale, step_of>>

\* The row a session's next flush waits for.
Wanted(x) ==
  CASE pc[x] = "starting" -> {step_of[x]}
    [] pc[x] \in {"merging", "updating"} -> {Exec}
    [] pc[x] = "steps" -> Turn(x)
    [] OTHER -> {}

Blocks(y, x) == \E r \in Wanted(x) : held[r] = y /\ y # x

\* PostgreSQL finds sessions that wait in a circle and raises in one of them.
Deadlock(x) ==
  /\ \E xs \in SUBSET Session :
       x \in xs /\ \A z \in xs : \E y \in xs : Blocks(z, y)
  /\ Abort(x) /\ UNCHANGED faults
-----------------------------------------------------------------------------
\* What a session waits for a row for, and what it does without waiting.
Update(x) ==
  \/ x \in Job /\ (Start(x) \/ Merge(x))
  \/ x \in Canceller /\ (CancelExecution(x) \/ SkipStep(x))
  \/ x = Cleaner /\ (FailExecution \/ FailStep)

Proceed(x) ==
  \/ x \in Job /\ (LookUpStep(x) \/ LookUpExecution(x) \/ Return(x) \/ Raise(x)
                 \/ FindConnectionLost(x))
  \/ x \notin Job /\ LoadSteps(x)
  \/ x = Cleaner /\ FindStale
  \/ Commit(x)

Next ==
  \/ \E x \in Session : Update(x) \/ Proceed(x) \/ Deadlock(x) \/ LoseConnection(x)
  \/ \E j \in Job : LoseConnectionInCall(j) \/ TimeOut(j)
  \/ \E c \in Canceller : LoadExecution(c)
  \/ \E js \in SUBSET Job : Crash(js)
  \/ Elapse

Spec == Init /\ [][Next]_vars

\* An executor ends, at the latest when arq cancels its job past the timeout, and
\* the cleanup is scheduled every hour.  A row lock is granted in the order of the
\* queue for it, so a session that waits gets it, though others take it in between.
FairSpec ==
  /\ Spec /\ WF_vars(Elapse)
  /\ \A x \in Session : SF_vars(Update(x) \/ Proceed(x))
  /\ WF_vars(\E x \in Session : Deadlock(x))
-----------------------------------------------------------------------------
\* A crash leaves no step half started: what is committed is never running, so a
\* job that is delivered again finds its step queued, or finished by another.
CrashLeavesQueued == \A s \in Step : db[s].status # "running"

\* However many jobs a step has, the row lock of the uncommitted transition keeps
\* a second one from its executor, as long as the connection of the first lives:
\* of two calls side by side one is of a job whose connection was lost in it.
OneCallAtATime ==
  \A j, k \in Job :
    j # k /\ step_of[j] = step_of[k] /\ Calling(j) /\ Calling(k) =>
      pc[j] = "orphaned" \/ pc[k] = "orphaned"

\* Steps downstream read only outputs that were recorded: the context other
\* sessions see names no step without its output, whoever overwrote what.
ContextHasOutputs == \A s \in db[Exec].context : db[s].output

\* When others see an execution cancelled or failed, none of its steps is left
\* waiting, and none comes back.
EndedHasNoneWaiting ==
  db[Exec].status # "running" => \A s \in Step : ~Unfinished(db[s])

\* The cleanup changes no step that had finished when it got to it, the error an
\* executor left included, though it chose its rows in an older state.
CleanupKeepsFinished ==
  [][ pc[Cleaner] = "steps" /\ pc'[Cleaner] = "idle" =>
        \A s \in Step : ~Unfinished(db[s]) => db'[s] = db[s] ]_vars

\* No job waits for ever, and neither does the user who cancels.
EveryoneEnds ==
  /\ \A j \in Job : <>(pc[j] = "ended")
  /\ \A c \in Canceller : pc[c] = "loading" ~> pc[c] = "ended"

\* Whatever is lost or aborted, the cleanup in the end leaves no step waiting.
StepsEnd == <>[](\A s \in Step : ~Unfinished(db[s]))
-----------------------------------------------------------------------------
(* The inductive invariant *)

Ender == Canceller \cup {Cleaner}

\* A row nobody holds is as committed.
FreshInv == \A r \in Row : held[r] = None => row[r] = db[r]

\* From its first flush to its end a job whose connection lives holds its step;
\* one whose connection is gone holds nothing.
LockInv ==
  \A j \in Job :
    /\ pc[j] \in {"executing", "merging", "committing"} => held[step_of[j]] = j
    /\ pc[j] = "merging" => row[step_of[j]].output
    /\ pc[j] = "orphaned" => \A r \in Row : held[r] # j

\* A step written but not finished is one whose executor is called.
WaitingInv ==
  \A s \in Step : held[s] # None /\ Unfinished(row[s]) =>
    held[s] \in Job /\ step_of[held[s]] = s /\ pc[held[s]] = "executing"

\* Outputs are never lost, and a context names only steps whose output is
\* committed or will be together with it.
OutputsKept == \A s \in Step : db[s].output => row[s].output

SeenInv == \A j \in Job : \A s \in seen[j].context : db[s].output

ContextInv ==
  \A s \in row[Exec].context :
    \/ db[s].output
    \/ row[s].output /\ held[s] = held[Exec] /\ held[s] # None

\* An execution is ended by a session that goes through its steps before it
\* commits, and until then has every unfinished step before it or in its hands.
EndedByInv ==
  row[Exec].status # "running" =>
    \/ db[Exec].status # "running"
    \/ held[Exec] = Cleaner /\ pc[Cleaner] \in {"loading", "steps"}
    \/ held[Exec] \in Canceller /\ pc[held[Exec]] = "steps"

EnderInv ==
  \A x \in Ender : \A s \in Step : Unfinished(db[s]) =>
    /\ x \in Canceller /\ pc[x] = "updating" => s \in todo[x]
    /\ pc[x] = "steps" => s \in todo[x] \/ held[s] = x

\* The cleanup holds finished steps as it found them.
CleanerInv ==
  \A s \in Step : held[s] = Cleaner /\ ~Unfinished(db[s]) => row[s] = db[s]

\* The inductive invariant of execute_step, cancel_execution and
\* cleanup_stale_executions on one execution: what the uncommitted rows and the
\* local variables of a session say, from its place, of what is committed.
IInv == /\ TypeOK /\ FreshInv /\ LockInv /\ WaitingInv
        /\ OutputsKept /\ SeenInv /\ ContextInv
        /\ EndedByInv /\ EnderInv /\ CleanerInv
        /\ CrashLeavesQueued /\ ContextHasOutputs /\ EndedHasNoneWaiting
=============================================================================

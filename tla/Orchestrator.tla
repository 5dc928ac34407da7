---------------------------- MODULE Orchestrator ----------------------------
(***************************************************************************)
(* One run of a workflow: start_execution and the walk of the DAG          *)
(* (src/src/engine/orchestrator.py), from the call to the caller's commit  *)
(* or to the loss of the run.                                              *)
(*                                                                         *)
(* The run lives in one database session and one transaction.  It flushes  *)
(* after every change but never commits: the caller does, once             *)
(* start_execution has returned - and receive_webhook also when it has     *)
(* raised, if the session still lets it.  So the rows below are private    *)
(* until a commit publishes them in db, and a crash, a lost connection or  *)
(* a flush that fails takes them all back; the HTTP requests already sent  *)
(* (calls) stay sent.                                                      *)
(*                                                                         *)
(* execution.context is kept twice: ctx is the attribute of the ORM object *)
(* in memory, row the column as the transaction wrote it.  They differ     *)
(* because the metadata is put into the very dict that is assigned back,   *)
(* which SQLAlchemy takes for no change at all.                            *)
(***************************************************************************)
EXTENDS WorkflowDefinition, StateMachine

VARIABLES
  wf,             \* the workflow being run
  phase,          \* where the run is
  order,          \* `order` of _execute_dag
  pos,            \* index in order of the step at hand
  exec_status,    \* executions.status
  step_status,    \* step_executions.status
  attempt,        \* step_executions.attempt (1 by default)
  ctx,            \* execution.context in memory
  row,            \* executions.context in the transaction
  result,         \* output_data["result"] of the condition steps
  skipped_steps,  \* `skipped_steps` of _execute_dag
  calls,          \* requests the http steps have sent to the outside
  db              \* the committed records of this run

vars == <<wf, phase, order, pos, exec_status, step_status, attempt, ctx, row,
          result, skipped_steps, calls, db>>

\* A definition introduced by "Mistake:" is a variant of the action after it that
\* a plausible bug would make; no specification uses it.  Each property below
\* is broken by one of them.

\* The variables only a finished attempt changes, for UNCHANGED.
outcome == <<ctx, row, result, skipped_steps>>

Steps == StepsOf(wf)

Phase == {"idle",       \* not called yet
          "walking",    \* at the top of the `for step_id in order` loop
          "queued",     \* an attempt begun, the step queued
          "executing",  \* the step running, its input taken from the context
          "sent",       \* an http request is out
          "retrying",   \* an attempt failed, attempts are left
          "returned",   \* start_execution has returned, nothing committed
          "escaped",    \* it has raised, with a session that still works
          "raised",     \* it has raised, and the session is dead
          "ended"}      \* committed, rolled back, or the process died

InFlight == phase \in Phase \ {"idle", "ended"}

Context == [outputs : SUBSET Steps, metadata : BOOLEAN]

Record == [status |-> exec_status, steps |-> step_status, attempt |-> attempt,
           outputs |-> row.outputs, result |-> result]

TypeOK ==
  /\ wf \in Workflows
  /\ phase \in Phase
  /\ order \in Seq(Steps)
  /\ pos \in Nat \ {0}
  /\ exec_status \in ExecutionStatus
  /\ step_status \in [Steps -> StepStatus]
  /\ attempt \in [Steps -> Nat]
  /\ ctx \in Context /\ row \in Context
  /\ result \in [Steps -> BOOLEAN]
  /\ skipped_steps \subseteq Steps
  /\ calls \in [Steps -> Nat]
  /\ db \in SUBSET [status : ExecutionStatus, steps : [Steps -> StepStatus],
                    attempt : [Steps -> Nat], outputs : SUBSET Steps,
                    result : [Steps -> BOOLEAN]]
-----------------------------------------------------------------------------
Init ==
  /\ wf \in Workflows
  /\ phase = "idle" /\ order = << >> /\ pos = 1
  /\ exec_status = "pending"
  /\ step_status = [s \in Steps |-> "pending"]
  /\ attempt = [s \in Steps |-> 1]
  /\ ctx = [outputs |-> {}, metadata |-> FALSE]
  /\ row = [outputs |-> {}, metadata |-> FALSE]
  /\ result = [s \in Steps |-> FALSE]
  /\ skipped_steps = {}
  /\ calls = [s \in Steps |-> 0]
  /\ db = {}

\* What transition_execution and transition_step write once validate_..._transition
\* has let them.  It always does (MovesAllowed), so the INVALID_TRANSITION it might
\* raise is not an action.
transition_execution(new_status) == exec_status' = new_status

transition_step(s, new_status) ==
  step_status' = [step_status EXCEPT ![s] = new_status]

\* The new dict assigned here is not the old one, so the flush writes it.
merge_step_output(s) ==
  /\ ctx' = [ctx EXCEPT !.outputs = @ \cup {s}]
  /\ row' = ctx'

\* Mistake: the steps are walked in the order of the JSON array.
start_execution_in_list_order ==
  /\ phase = "idle"
  /\ phase' = "walking"
  /\ order' = wf.steps
  /\ exec_status' = "running"
  /\ ctx' = [row EXCEPT !.metadata = TRUE]
  /\ UNCHANGED <<wf, pos, step_status, attempt, row, result, skipped_steps,
                 calls, db>>

\* start_execution up to the DAG: the execution is inserted and set running,
\* the steps are inserted, and _depth and _tenant_id go into the context in
\* memory.  The flush that follows writes no context: the attribute was
\* assigned the object it already held.
start_execution ==
  /\ phase = "idle"
  /\ phase' = "walking"
  /\ order' = TopologicalSort(wf.steps, wf.depends_on)
  /\ transition_execution("running")
  /\ ctx' = [row EXCEPT !.metadata = TRUE]
  /\ UNCHANGED <<wf, pos, step_status, attempt, row, result, skipped_steps,
                 calls, db>>
-----------------------------------------------------------------------------
(* _execute_dag and _execute_step_with_retry *)

\* The loop is at step s.
At(s) == pos <= Len(order) /\ s = order[pos]

SkipStep(s) ==
  /\ phase = "walking" /\ At(s) /\ s \in skipped_steps
  /\ transition_step(s, "skipped")
  /\ pos' = pos + 1
  /\ UNCHANGED <<wf, phase, order, exec_status, attempt, outcome, calls, db>>

\* Mistake: a failed step is not queued again before it is run again.
BeginAttempt_without_requeue(s) ==
  /\ \/ phase = "walking" /\ s \notin skipped_steps
     \/ phase = "retrying"
  /\ At(s)
  /\ attempt' = [attempt EXCEPT ![s] = IF phase = "walking" THEN 1 ELSE @ + 1]
  /\ step_status' = [step_status EXCEPT ![s] =
                       IF @ = "pending" THEN "queued" ELSE @]
  /\ phase' = "queued"
  /\ UNCHANGED <<wf, order, pos, exec_status, outcome, calls, db>>

\* Mistake: a step of a branch not taken is run all the same.
BeginAttempt_of_skipped(s) ==
  /\ phase \in {"walking", "retrying"} /\ At(s)
  /\ attempt' = [attempt EXCEPT ![s] = IF phase = "walking" THEN 1 ELSE @ + 1]
  /\ step_status' = [step_status EXCEPT ![s] =
                       IF @ \in {"pending", "failed"} THEN "queued" ELSE @]
  /\ phase' = "queued"
  /\ UNCHANGED <<wf, order, pos, exec_status, outcome, calls, db>>

\* Mistake: an attempt that has sent nothing is not counted.
BeginAttempt_uncounted(s) ==
  /\ \/ phase = "walking" /\ s \notin skipped_steps
     \/ phase = "retrying"
  /\ At(s)
  /\ attempt' = [attempt EXCEPT ![s] = IF phase = "walking" THEN 1
                                     ELSE IF calls[s] = 0 THEN @ ELSE @ + 1]
  /\ step_status' = [step_status EXCEPT ![s] =
                       IF @ \in {"pending", "failed"} THEN "queued" ELSE @]
  /\ phase' = "queued"
  /\ UNCHANGED <<wf, order, pos, exec_status, outcome, calls, db>>

\* The head of `while attempt < max_attempts`: the counter, then the queue.
BeginAttempt(s) ==
  /\ \/ phase = "walking" /\ s \notin skipped_steps
     \/ phase = "retrying"
  /\ At(s)
  /\ attempt' = [attempt EXCEPT ![s] = IF phase = "walking" THEN 1 ELSE @ + 1]
  /\ step_status' = [step_status EXCEPT ![s] =
                       IF @ \in {"pending", "failed"} THEN "queued" ELSE @]
  /\ phase' = "queued"
  /\ UNCHANGED <<wf, order, pos, exec_status, outcome, calls, db>>

\* The step is set running; `session.refresh(execution)` reloads the context
\* the executor will read from the row.
RunAttempt(s) ==
  /\ phase = "queued" /\ At(s)
  /\ transition_step(s, "running")
  /\ ctx' = row
  /\ phase' = "executing"
  /\ UNCHANGED <<wf, order, pos, exec_status, attempt, row, result,
                 skipped_steps, calls, db>>

\* The executor gets past its config and templates: StrictUndefined raises on
\* an output that is not in the context, and a sub_workflow step cannot parse
\* the tenant id when the metadata is missing.
Evaluates(s) ==
  /\ s \in wf.sound
  /\ wf.reads[s] \subseteq ctx.outputs
  /\ wf.type[s] = "sub_workflow" => ctx.metadata

SendRequest(s) ==
  /\ phase = "executing" /\ At(s)
  /\ wf.type[s] = "http" /\ Evaluates(s)
  /\ calls' = [calls EXCEPT ![s] = @ + 1]
  /\ phase' = "sent"
  /\ UNCHANGED <<wf, order, pos, exec_status, step_status, attempt, outcome, db>>

\* executor.execute returns: a 2xx answer, or an evaluation that went through.
Returns(s) == IF wf.type[s] = "http" THEN phase = "sent"
              ELSE phase = "executing" /\ Evaluates(s)

\* executor.execute raises: any other answer, no answer in time, or a config
\* or template error before anything is sent.
Raises(s) == \/ phase = "sent"
             \/ phase = "executing" /\ ~Evaluates(s)

\* Mistake: the output replaces those merged before.
CompleteStep_overwriting(s) ==
  /\ At(s) /\ Returns(s)
  /\ step_status' = [step_status EXCEPT ![s] = "completed"]
  /\ ctx' = [ctx EXCEPT !.outputs = {s}]
  /\ row' = ctx'
  /\ IF wf.type[s] = "condition"
     THEN \E is_truthy \in BOOLEAN \ wf.no_list[s] :
            /\ result' = [result EXCEPT ![s] = is_truthy]
            /\ skipped_steps' = skipped_steps \cup NonTaken(wf, s, is_truthy)
     ELSE UNCHANGED <<result, skipped_steps>>
  /\ pos' = pos + 1
  /\ phase' = "walking"
  /\ UNCHANGED <<wf, order, exec_status, attempt, calls, db>>

\* The output is stored and merged, and a condition's result picks what to skip:
\* set() of the branch not taken.
CompleteStep(s) ==
  /\ At(s) /\ Returns(s)
  /\ transition_step(s, "completed")
  /\ merge_step_output(s)
  /\ IF wf.type[s] = "condition"
     THEN \E is_truthy \in BOOLEAN \ wf.no_list[s] :
            /\ result' = [result EXCEPT ![s] = is_truthy]
            /\ skipped_steps' = skipped_steps \cup NonTaken(wf, s, is_truthy)
     ELSE UNCHANGED <<result, skipped_steps>>
  /\ pos' = pos + 1
  /\ phase' = "walking"
  /\ UNCHANGED <<wf, order, exec_status, attempt, calls, db>>

\* set() raises instead, outside any try: the condition is completed, and the
\* exception leaves start_execution with the execution running.  The loop is
\* done with this step and sees no other.
EscapeFromBranch(s) ==
  /\ At(s) /\ Returns(s) /\ wf.type[s] = "condition"
  /\ transition_step(s, "completed")
  /\ merge_step_output(s)
  /\ \E is_truthy \in wf.no_list[s] : result' = [result EXCEPT ![s] = is_truthy]
  /\ pos' = pos + 1
  /\ phase' = "escaped"
  /\ UNCHANGED <<wf, order, exec_status, attempt, skipped_steps, calls, db>>

\* Mistake: one attempt too many.
FailAttempt_off_by_one(s) ==
  /\ At(s) /\ Raises(s) /\ attempt[s] <= wf.max_attempts[s]
  /\ step_status' = [step_status EXCEPT ![s] = "failed"]
  /\ phase' = "retrying"
  /\ UNCHANGED <<wf, order, pos, exec_status, attempt, outcome, calls, db>>

FailAttempt(s) ==
  /\ At(s) /\ Raises(s) /\ attempt[s] < wf.max_attempts[s]
  /\ transition_step(s, "failed")
  /\ phase' = "retrying"
  /\ UNCHANGED <<wf, order, pos, exec_status, attempt, outcome, calls, db>>

\* The last attempt fails: _execute_dag writes the execution's status itself
\* and returns.
ExhaustStep(s) ==
  /\ At(s) /\ Raises(s) /\ attempt[s] >= wf.max_attempts[s]
  /\ transition_step(s, "failed")
  /\ exec_status' = "failed"
  /\ phase' = "returned"
  /\ UNCHANGED <<wf, order, pos, attempt, outcome, calls, db>>

FinishRun ==
  /\ phase = "walking" /\ pos > Len(order)
  /\ transition_execution("completed")
  /\ phase' = "returned"
  /\ UNCHANGED <<wf, order, pos, step_status, attempt, outcome, calls, db>>
-----------------------------------------------------------------------------
(* The caller, and what can go wrong around the run *)

\* Mistake: a commit inside the walk.
Commit_early ==
  /\ phase \in {"walking", "returned"}
  /\ db' = {Record}
  /\ phase' = "ended"
  /\ UNCHANGED <<wf, order, pos, exec_status, step_status, attempt, outcome, calls>>

\* trigger_execution, receive_webhook, the cron job and the replay endpoint
\* commit after start_execution has returned.
Commit ==
  /\ phase = "returned"
  /\ db' = {Record}
  /\ phase' = "ended"
  /\ UNCHANGED <<wf, order, pos, exec_status, step_status, attempt, outcome, calls>>

\* receive_webhook has one `except Exception` around the run: it commits its
\* session, and with it whatever the run had flushed.
CommitInExcept ==
  /\ phase = "escaped"
  /\ db' = {Record}
  /\ phase' = "ended"
  /\ UNCHANGED <<wf, order, pos, exec_status, step_status, attempt, outcome, calls>>

\* Text from outside (a response, a rendered template) that PostgreSQL rejects in
\* the output or in the error message: the flush fails, and so does every
\* statement after it, the "failed" of the except branch included.
LoseOutput(s) ==
  /\ At(s) /\ (Returns(s) \/ Raises(s))
  /\ wf.type[s] \in {"http", "transform", "condition"}
  /\ phase' = "raised"
  /\ UNCHANGED <<wf, order, pos, exec_status, step_status, attempt, outcome, calls, db>>

LoseConnection ==
  /\ InFlight /\ phase # "raised"
  /\ phase' = "raised"
  /\ UNCHANGED <<wf, order, pos, exec_status, step_status, attempt, outcome, calls, db>>

\* The exception leaves the caller's `async with`: the session is closed and
\* the transaction rolled back.  The callers without an except branch do so
\* whatever the session is like, receive_webhook when its commit fails too.
Rollback ==
  /\ phase \in {"escaped", "raised"}
  /\ phase' = "ended"
  /\ UNCHANGED <<wf, order, pos, exec_status, step_status, attempt, outcome, calls, db>>

\* The process dies: PostgreSQL rolls the transaction back, and nothing looks
\* for the run after a restart.
Crash ==
  /\ InFlight
  /\ phase' = "ended"
  /\ UNCHANGED <<wf, order, pos, exec_status, step_status, attempt, outcome, calls, db>>

StepAction(s) ==
  \/ SkipStep(s) \/ BeginAttempt(s) \/ RunAttempt(s) \/ SendRequest(s)
  \/ CompleteStep(s) \/ EscapeFromBranch(s) \/ FailAttempt(s) \/ ExhaustStep(s)

\* What the program does by itself once it has been called.
Advance == \/ \E s \in Steps : StepAction(s)
           \/ FinishRun \/ Commit \/ CommitInExcept \/ Rollback

Fault == \/ \E s \in Steps : LoseOutput(s)
         \/ LoseConnection \/ Crash

Next == start_execution \/ Advance \/ Fault

Spec == Init /\ [][Next]_vars

\* The coroutine keeps being scheduled while it does not wait for the outside:
\* nobody has to call it, faults are free, and an http request need never be
\* answered (`timeout_seconds: null` is no timeout, and httpx counts anew with
\* every chunk it reads).
FairSpec == Spec /\ WF_vars(phase # "sent" /\ Advance)
-----------------------------------------------------------------------------
(* Safety *)

Completed == {s \in Steps : step_status[s] = "completed"}

Done == {s \in Steps : step_status[s] \in TerminalStep}

\* No step leaves "pending", not even to be skipped, before every step it
\* depends on is completed or skipped: the sort, the position of the loop and
\* the early return after a failure together.
DependenciesFirst ==
  \A s \in Steps : step_status[s] # "pending" => Dependencies(wf, s) \subseteq Done

\* A step whose templates refer only to steps it depends on, and to none that
\* was skipped, finds all of them in the input it is given: the outputs merged
\* by earlier steps survive every later merge, refresh and retry.
TemplatesResolve ==
  \A s \in Steps :
    /\ phase = "executing" /\ At(s)
    /\ wf.reads[s] \subseteq {d \in Dependencies(wf, s) : step_status[d] # "skipped"}
    => wf.reads[s] \subseteq ctx.outputs

\* At most one step is between "pending" and its end, and nothing after it in
\* the order has been touched: the run is sequential, whatever the retries do.
OneStepAtATime ==
  \A s, t \in Steps :
    step_status[s] \notin TerminalStep \cup {"pending"} /\ t # s =>
      step_status[t] \in TerminalStep \cup {"pending"}

\* The outside sees at most one request per attempt and no attempt beyond
\* max_attempts; an http step that completed was answered at least once, and a
\* step that never ran or was skipped has sent nothing.
CallsWithinAttempts ==
  \A s \in Steps :
    /\ calls[s] <= attempt[s] /\ attempt[s] <= wf.max_attempts[s]
    /\ step_status[s] \in {"pending", "skipped"} => calls[s] = 0
    /\ step_status[s] = "completed" /\ wf.type[s] = "http" => calls[s] > 0

\* The conditions whose branch not taken cannot be read, and could be.
Unread == {c \in Steps : wf.type[c] = "condition" /\ result[c] \in wf.no_list[c]}

Deciding == {c \in Completed : wf.type[c] = "condition"} \ Unread

Precedes(c, s) == \E i, j \in 1..Len(order) : i < j /\ order[i] = c /\ order[j] = s

\* Skipping is decided by results only: the set the loop skips from is what
\* the completed conditions decided against, only its members are skipped, and
\* a step decided against before the loop gets to it is never queued or run.
SkipsAreDecided ==
  /\ skipped_steps = UNION {NonTaken(wf, c, result[c]) : c \in Deciding}
  /\ \A s \in Steps : step_status[s] = "skipped" => s \in skipped_steps
  /\ \A c \in Deciding : \A s \in NonTaken(wf, c, result[c]) :
       Precedes(c, s) => step_status[s] \in {"pending", "skipped"}
-----------------------------------------------------------------------------
(* Steps *)

\* Every status the run writes is a move of the tables in state.py, the
\* "failed" that _execute_dag assigns without transition_execution included;
\* so no transition of a run is ever refused with 409.
MovesAllowed ==
  [][/\ exec_status' # exec_status =>
          \/ validate_execution_transition(exec_status, exec_status')
     /\ \A s \in Steps : step_status'[s] # step_status[s] =>
          validate_step_transition(step_status[s], step_status'[s])]_vars

\* A request goes out only for the step at hand, while its row says running,
\* with its dependencies done and no condition having decided against it.
CallsAreInTurn ==
  [][\A s \in Steps : calls'[s] # calls[s] =>
       /\ step_status[s] = "running" /\ exec_status = "running"
       /\ Dependencies(wf, s) \subseteq Done
       /\ s \notin skipped_steps]_vars
-----------------------------------------------------------------------------
(* What others see *)

AtomicRun == INSTANCE AtomicRun WITH records <- db

\* The run's record appears at once and never changes, whatever is lost on the
\* way; it is final unless a branch could not be read.
ImplementsAtomicRun == AtomicRun!Spec

\* A run that was started ends, committed, rolled back or lost, unless it waits
\* for ever for the answer to one http request.
RunEnds == phase = "walking" ~> (phase = "ended" \/ [](phase = "sent"))
-----------------------------------------------------------------------------
(* The inductive invariant: where the loop stands says everything about the  *)
(* rows.  What it has passed is finished, what it has not reached is as it   *)
(* was inserted, and the step at hand is where the phase says.               *)

Passed(s) == \E i \in 1..Len(order) : i < pos /\ order[i] = s

Untouched(s) == step_status[s] = "pending" /\ attempt[s] = 1 /\ calls[s] = 0

OrderInv == IF phase = "idle" THEN order = << >> /\ pos = 1
            ELSE IsTopological(wf, order)

ProgressInv ==
  \A s \in Steps :
    /\ Passed(s) => step_status[s] \in TerminalStep
    /\ At(s) => step_status[s] \notin TerminalStep
    /\ ~Passed(s) /\ ~At(s) => Untouched(s)

AtHandInv ==
  \A s \in Steps : At(s) =>
    /\ phase \in {"walking", "escaped"} => Untouched(s)
    /\ phase = "queued" => step_status[s] = "queued"
    /\ phase \in {"executing", "sent"} => step_status[s] = "running"
    /\ phase = "retrying" =>
         step_status[s] = "failed" /\ attempt[s] < wf.max_attempts[s]
    /\ phase = "returned" =>
         /\ step_status[s] = "failed" /\ attempt[s] = wf.max_attempts[s]
         /\ exec_status = "failed"
    /\ phase \in {"queued", "executing"} => calls[s] < attempt[s]
    /\ phase = "sent" => calls[s] > 0
    /\ phase \in {"queued", "executing", "sent", "retrying"} =>
         s \notin skipped_steps

PhaseInv ==
  /\ phase = "idle" => exec_status = "pending"
  /\ phase \in {"walking", "queued", "executing", "sent", "retrying", "escaped"} =>
       exec_status = "running"
  /\ phase \in {"queued", "executing", "sent", "retrying"} => pos <= Len(order)
  /\ phase = "returned" /\ pos > Len(order) => exec_status = "completed"
  /\ phase # "ended" => db = {}

\* Only a run that has raised leaves a condition whose branch it could not read.
BranchInv ==
  /\ phase = "escaped" => Completed \cap Unread # {}
  /\ phase \in Phase \ {"escaped", "raised", "ended"} => Completed \cap Unread = {}

ContextInv ==
  /\ row.outputs = Completed
  /\ phase \in {"executing", "sent"} => ctx.outputs = row.outputs

IInv == /\ TypeOK /\ OrderInv /\ ProgressInv /\ AtHandInv /\ PhaseInv
        /\ BranchInv /\ ContextInv /\ CallsWithinAttempts /\ SkipsAreDecided
-----------------------------------------------------------------------------
(* Claims of the documentation that the code does not keep *)

\* README.md: "Every state transition is persisted to PostgreSQL before
\* execution proceeds."
PersistedBeforeProceeding ==
  (\E s \in Steps : calls[s] > 0) => db # {}

\* orchestrator.py: "Store metadata in execution context for sub_workflow
\* access".
MetadataReachesSubWorkflow ==
  \A s \in Steps : phase = "executing" /\ At(s) /\ wf.type[s] = "sub_workflow" =>
    ctx.metadata
=============================================================================

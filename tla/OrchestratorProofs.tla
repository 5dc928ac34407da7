------------------------- MODULE OrchestratorProofs -------------------------
(***************************************************************************)
(* Theorems about Orchestrator.tla for every set of workflow definitions.  *)
(***************************************************************************)
EXTENDS Orchestrator, StepGraphProofs

\* Abbreviations of assignments.
USE DEF transition_execution, transition_step, merge_step_output

\* The sort of an accepted definition is a sequence of its steps.
LEMMA OrderIsTopological ==
  ASSUME NEW w \in Workflows
  PROVE  /\ IsWorkflow(w)
         /\ IsTopological(w, TopologicalSort(w.steps, w.depends_on))
<1> PICK steps : steps = w.steps
  OBVIOUS
<1> PICK deps : deps = w.depends_on
  OBVIOUS
<1> PICK order_of : order_of = TopologicalSort(steps, deps)
  OBVIOUS
<1>1. IsWorkflow(w) /\ IsGraph(steps, deps) /\ Acyclic(steps, deps)
  BY WorkflowsAssumption DEF IsWorkflow
<1>2. /\ order_of \in Seq(Ids(steps)) /\ Distinct(order_of)
      /\ DependenciesStandFirst(deps, order_of)
      /\ \A s \in Ids(steps) : In(s, order_of)
  BY <1>1, SortIsTopological
<1>3. IsTopological(w, order_of)
  <2>1. StepsOf(w) = Ids(steps)
    BY DEF StepsOf
  <2>2. ASSUME NEW i \in 1..Len(order_of), NEW d \in Dependencies(w, order_of[i])
        PROVE  \E j \in 1..(i-1) : order_of[j] = d
    <3>1. PICK m \in DOMAIN deps[order_of[i]] : deps[order_of[i]][m] = d
      BY DEF Dependencies
    <3> QED
      BY <1>2, <3>1 DEF DependenciesStandFirst
  <2> QED
    BY <1>2, <2>1, <2>2 DEF IsTopological, Distinct, In
<1> QED
  BY <1>1, <1>3

\* max_attempts is a positive number: every step gets at least one attempt.
LEMMA AttemptsAreBounded ==
  ASSUME wf \in Workflows
  PROVE  \A s \in Steps : wf.max_attempts[s] \in 1..10
<1>1. IsWorkflow(wf)
  BY OrderIsTopological
<1>2. wf.max_attempts \in [Steps -> 1..10]
  BY <1>1 DEF IsWorkflow, Steps
<1>3. QED BY <1>2

\* Every variable has its type when a run is created, and every action keeps it.
LEMMA TypeInductive == /\ Init => TypeOK
                       /\ TypeOK /\ [Next]_vars => TypeOK'
<1>1. Init => TypeOK
  BY DEF Init, TypeOK, Phase, ExecutionStatus, StepStatus, Context
<1>2. TypeOK /\ [Next]_vars => TypeOK'
  <2> SUFFICES ASSUME TypeOK, [Next]_vars PROVE TypeOK'
    OBVIOUS
  <2> USE DEF TypeOK, Phase, Context, outcome
  <2>0. ASSUME wf' = wf PROVE Steps' = Steps
    BY <2>0 DEF Steps
  <2>1. CASE start_execution
    <3>1. order' \in Seq(Steps)
      BY <2>1, OrderIsTopological DEF start_execution, IsTopological, Steps
    <3>2. QED BY <2>1, <2>0, <3>1 DEF start_execution, ExecutionStatus
  <2>2. ASSUME NEW s \in Steps, StepAction(s) PROVE TypeOK'
    <3>1. CASE SkipStep(s)
      BY <2>0, <3>1 DEF SkipStep, StepStatus
    <3>2. CASE BeginAttempt(s)
      BY <2>0, <3>2 DEF BeginAttempt, StepStatus
    <3>3. CASE RunAttempt(s)
      BY <2>0, <3>3 DEF RunAttempt, StepStatus
    <3>4. CASE SendRequest(s)
      BY <2>0, <3>4 DEF SendRequest
    <3>5. CASE CompleteStep(s)
      <4>1. IsWorkflow(wf)
        BY OrderIsTopological
      <4>2. \A b \in BOOLEAN \ wf.no_list[s] : NonTaken(wf, s, b) \subseteq Steps
        BY <4>1 DEF IsWorkflow, NonTaken, Steps, StepsOf
      <4>3. result' \in [Steps -> BOOLEAN] /\ skipped_steps' \subseteq Steps
        BY <4>2, <3>5 DEF CompleteStep
      <4>4. ctx' \in [outputs : SUBSET Steps, metadata : BOOLEAN] /\ row' = ctx'
        BY <3>5 DEF CompleteStep
      <4>5. step_status' \in [Steps -> StepStatus] /\ pos' \in Nat \ {0}
        BY <3>5 DEF CompleteStep, StepStatus
      <4>6. /\ UNCHANGED <<wf, order, exec_status, attempt, calls, db>>
            /\ phase' = "walking"
        BY <3>5 DEF CompleteStep
      <4>7. QED BY <2>0, <4>3, <4>4, <4>5, <4>6
    <3>6. CASE EscapeFromBranch(s)
      <4>1. IsWorkflow(wf)
        BY OrderIsTopological
      <4>2. wf.no_list[s] \subseteq BOOLEAN
        BY <4>1 DEF IsWorkflow, Steps, StepsOf
      <4>3. result' \in [Steps -> BOOLEAN]
        BY <4>2, <3>6 DEF EscapeFromBranch
      <4>4. ctx' \in [outputs : SUBSET Steps, metadata : BOOLEAN] /\ row' = ctx'
        BY <3>6 DEF EscapeFromBranch
      <4>5. step_status' \in [Steps -> StepStatus] /\ pos' \in Nat \ {0}
        BY <3>6 DEF EscapeFromBranch, StepStatus
      <4>6. /\ UNCHANGED <<wf, order, exec_status, attempt, calls, db, skipped_steps>>
            /\ phase' = "escaped"
        BY <3>6 DEF EscapeFromBranch
      <4>7. QED BY <2>0, <4>3, <4>4, <4>5, <4>6
    <3>7. CASE FailAttempt(s)
      BY <2>0, <3>7 DEF FailAttempt, StepStatus
    <3>8. CASE ExhaustStep(s)
      BY <2>0, <3>8 DEF ExhaustStep, StepStatus, ExecutionStatus
    <3>9. QED
      BY <2>2, <3>1, <3>2, <3>3, <3>4, <3>5, <3>6, <3>7, <3>8 DEF StepAction
  <2>3. CASE FinishRun
    BY <2>0, <2>3 DEF FinishRun, ExecutionStatus
  <2>4. CASE Commit \/ CommitInExcept
    BY <2>0, <2>4 DEF Commit, CommitInExcept, Record
  <2>5. CASE Rollback
    BY <2>0, <2>5 DEF Rollback
  <2>6. CASE Fault
    BY <2>0, <2>6 DEF Fault, LoseOutput, LoseConnection, Crash
  <2>7. CASE UNCHANGED vars
    BY <2>0, <2>7 DEF vars
  <2>8. QED
    BY <2>1, <2>2, <2>3, <2>4, <2>5, <2>6, <2>7 DEF Next, Advance
<1>3. QED BY <1>1, <1>2

\* start_execution and the walk of the DAG write only the statuses state.py knows,
\* counters that are numbers, and outputs of steps of the workflow being run.
THEOREM TypeCorrect == Spec => []TypeOK
  BY TypeInductive, PTL DEF Spec
-----------------------------------------------------------------------------
(* The loop over `order` *)

\* The step at hand has not been passed: the order names each step once.
LEMMA AtHandIsNew ==
  ASSUME TypeOK, OrderInv, NEW s \in Steps, At(s)
  PROVE  /\ pos \in 1..Len(order) /\ order[pos] = s
         /\ ~Passed(s)
         /\ \A t \in Steps : At(t) => t = s
<1>1. Len(order) \in Nat
  BY DEF TypeOK
<1>2. pos \in 1..Len(order) /\ order[pos] = s
  BY <1>1 DEF TypeOK, At
<1>3. IsTopological(wf, order)
  BY <1>2 DEF OrderInv, At
<1>4. ~Passed(s)
  <2>1. \A i, j \in 1..Len(order) : order[i] = order[j] => i = j
    BY <1>3 DEF IsTopological
  <2>2. QED BY ONLY <1>1, <1>2, <2>1 DEF Passed
<1>5. QED BY <1>2, <1>4 DEF At

\* When the loop goes on, the step that was at hand, and no other, is passed.
LEMMA LoopAdvances ==
  ASSUME TypeOK, OrderInv, NEW s \in Steps, At(s),
         order' = order, pos' = pos + 1
  PROVE  \A t \in Steps : /\ Passed(t)' <=> Passed(t) \/ t = s
                          /\ At(t)' => ~Passed(t) /\ t # s
<1>1. Len(order) \in Nat /\ pos \in Nat \ {0}
  BY DEF TypeOK
<1>2. pos \in 1..Len(order) /\ order[pos] = s
  BY AtHandIsNew
<1>3. IsTopological(wf, order)
  BY <1>2 DEF OrderInv
<1> TAKE t \in Steps
<1>4. Passed(t)' <=> Passed(t) \/ t = s
  BY <1>1, <1>2 DEF Passed
<1>5. ASSUME At(t)' PROVE ~Passed(t) /\ t # s
  <2>1. pos + 1 \in 1..Len(order) /\ order[pos + 1] = t
    BY <1>1, <1>5 DEF At
  <2>2. \A i \in 1..Len(order) : order[i] = t => i = pos + 1
    BY <2>1, <1>3 DEF IsTopological
  <2>3. QED BY <2>2, <1>1, <1>2 DEF Passed
<1>6. QED BY <1>4, <1>5

\* A step that has left "pending" comes after everything it depends on, and
\* all of that has been passed.
LEMMA StartedMeansDependenciesDone ==
  ASSUME IInv PROVE DependenciesFirst
<1> SUFFICES ASSUME NEW s \in Steps, step_status[s] # "pending",
                    NEW d \in Dependencies(wf, s)
             PROVE  d \in Done
  BY DEF DependenciesFirst
<1> USE DEF IInv
<1>1. Len(order) \in Nat /\ pos \in Nat \ {0}
  BY DEF TypeOK
<1>2. Passed(s) \/ At(s)
  BY DEF ProgressInv, Untouched
<1>3. PICK i \in 1..Len(order) : i <= pos /\ order[i] = s
  BY <1>1, <1>2, AtHandIsNew DEF Passed
<1>4. IsTopological(wf, order)
  BY <1>3 DEF OrderInv
<1>5. PICK j \in 1..(i-1) : order[j] = d
  BY <1>3, <1>4 DEF IsTopological
<1>6. j \in 1..Len(order) /\ j < pos
  BY <1>1, <1>3, <1>5
<1>7. d \in Steps
  BY <1>5, <1>6 DEF TypeOK
<1>8. QED BY <1>5, <1>6, <1>7 DEF Passed, ProgressInv, Done
-----------------------------------------------------------------------------
(* The inductive invariant, action by action *)

\* A run that has not been called satisfies the invariant.
LEMMA InitEstablishes == Init => IInv
<1> SUFFICES ASSUME Init PROVE IInv
  OBVIOUS
<1>1. TypeOK
  BY TypeInductive
<1>2. \A s \in Steps : ~At(s) /\ ~Passed(s) /\ Untouched(s)
  BY DEF Init, At, Passed, Untouched
<1>3. OrderInv /\ ProgressInv /\ AtHandInv /\ PhaseInv
  BY <1>2 DEF Init, OrderInv, ProgressInv, AtHandInv, PhaseInv, Untouched
<1>4. Completed = {} /\ Deciding = {}
  BY DEF Init, Completed, Deciding
<1>8. ContextInv /\ SkipsAreDecided /\ BranchInv
  BY <1>4 DEF Init, ContextInv, SkipsAreDecided, BranchInv
<1>5. \A s \in Steps : wf.max_attempts[s] \in 1..10
  BY <1>1, AttemptsAreBounded DEF TypeOK
<1>6. CallsWithinAttempts
  BY <1>5 DEF Init, CallsWithinAttempts
<1>7. QED BY <1>1, <1>3, <1>6, <1>8 DEF IInv

\* The call of start_execution: the loop is about to begin, nothing touched.
LEMMA StartPreserves ==
  ASSUME IInv, start_execution, TypeOK' PROVE IInv'
<1> USE DEF IInv, start_execution
<1>1. Steps' = Steps
  BY DEF Steps
<1>2. \A s \in Steps : ~At(s) /\ ~Passed(s)
  BY DEF OrderInv, At, Passed, TypeOK
<1>3. \A s \in Steps : Untouched(s)' /\ Untouched(s)
  BY <1>1, <1>2 DEF ProgressInv, Untouched
<1>4. OrderInv'
  BY OrderIsTopological DEF OrderInv, TypeOK
<1>5. pos = 1
  BY DEF OrderInv
<1>6. ProgressInv'
  BY <1>1, <1>3, <1>5 DEF ProgressInv, Passed, Untouched, TerminalStep
<1>7. AtHandInv' /\ PhaseInv'
  BY <1>1, <1>3 DEF AtHandInv, PhaseInv
<1>8. ContextInv'
  BY <1>1 DEF ContextInv, Completed
<1>9. CallsWithinAttempts'
  BY <1>1 DEF CallsWithinAttempts
<1>10. SkipsAreDecided' /\ BranchInv'
  <2>1. /\ Completed = {} /\ Completed' = {}
        /\ Deciding = {} /\ Deciding' = {}
    BY <1>1, <1>3 DEF Completed, Deciding, Untouched
  <2> QED
    BY <1>1, <1>3, <2>1 DEF SkipsAreDecided, BranchInv, Untouched
<1>11. QED BY <1>4, <1>6, <1>7, <1>8, <1>9, <1>10

\* While the loop stays at a step, the other steps keep their place and rows.
LEMMA LoopStays ==
  ASSUME UNCHANGED <<wf, order, pos>>
  PROVE  /\ Steps' = Steps
         /\ \A t \in Steps : (At(t)' <=> At(t)) /\ (Passed(t)' <=> Passed(t))
  BY DEF Steps, At, Passed

\* Actions that leave every row but those of s alone, and s unfinished.
LEMMA InPlacePreserves ==
  ASSUME IInv, TypeOK', NEW s \in Steps, At(s),
         phase \in {"walking", "queued", "executing", "sent", "retrying"},
         phase' \in {"queued", "executing", "sent", "retrying", "returned"},
         UNCHANGED <<wf, order, pos, row, result, skipped_steps>>,
         step_status' = [step_status EXCEPT ![s] = step_status'[s]],
         attempt' = [attempt EXCEPT ![s] = attempt'[s]],
         calls' = [calls EXCEPT ![s] = calls'[s]],
         step_status'[s] \in {"queued", "running", "failed"},
         calls'[s] <= attempt'[s], attempt'[s] <= wf.max_attempts[s],
         s \notin skipped_steps
  PROVE  /\ OrderInv' /\ ProgressInv' /\ CallsWithinAttempts'
         /\ Completed' = Completed /\ SkipsAreDecided' /\ BranchInv'
<1> USE DEF IInv
<1>1. /\ Steps' = Steps
      /\ \A t \in Steps : (At(t)' <=> At(t)) /\ (Passed(t)' <=> Passed(t))
  BY LoopStays
<1>2. \A t \in Steps : At(t) => t = s
  BY AtHandIsNew
<1>3. ~Passed(s) /\ step_status[s] \notin TerminalStep
  BY AtHandIsNew DEF ProgressInv
<1>4. \A t \in Steps : t # s => /\ step_status'[t] = step_status[t]
                                /\ attempt'[t] = attempt[t]
                                /\ calls'[t] = calls[t]
  BY DEF TypeOK
<1>5. OrderInv'
  BY DEF OrderInv
<1>6. ProgressInv'
  BY <1>1, <1>2, <1>3, <1>4 DEF ProgressInv, Untouched, TerminalStep
<1>7. CallsWithinAttempts'
  BY <1>1, <1>4 DEF CallsWithinAttempts
<1>8. Completed' = Completed
  BY <1>1, <1>3, <1>4 DEF Completed, TerminalStep
<1>9. Unread' = Unread /\ Deciding' = Deciding
  BY <1>1, <1>8 DEF Unread, Deciding
<1>10. BranchInv'
  BY <1>8, <1>9 DEF BranchInv, Phase
<1>11. SkipsAreDecided'
  <2>1. \A c \in Deciding : \A t \in NonTaken(wf, c, result[c]) :
          t \in skipped_steps /\ t # s
    BY DEF SkipsAreDecided
  <2>2. skipped_steps \subseteq Steps
    BY DEF TypeOK
  <2>3. \A c \in Deciding : \A t \in NonTaken(wf, c, result[c]) :
          Precedes(c, t)' => step_status'[t] \in {"pending", "skipped"}
    BY <1>4, <2>1, <2>2 DEF SkipsAreDecided, Precedes
  <2>4. \A t \in Steps : step_status'[t] = "skipped" => t \in skipped_steps
    BY <1>4 DEF SkipsAreDecided
  <2>5. skipped_steps = UNION {NonTaken(wf, c, result[c]) : c \in Deciding}
    BY DEF SkipsAreDecided
  <2> QED
    BY <1>1, <1>9, <2>3, <2>4, <2>5 DEF SkipsAreDecided
<1>12. QED BY <1>5, <1>6, <1>7, <1>8, <1>10, <1>11

\* The head of the retry loop keeps the invariant.
LEMMA BeginAttemptPreserves ==
  ASSUME IInv, TypeOK', NEW s \in Steps, BeginAttempt(s) PROVE IInv'
<1> USE DEF IInv
<1>1. At(s) /\ UNCHANGED <<wf, order, pos, row, result, skipped_steps, calls, ctx>>
  BY DEF BeginAttempt, outcome
<1>2. /\ Steps' = Steps
      /\ \A t \in Steps : (At(t)' <=> At(t)) /\ (Passed(t)' <=> Passed(t))
  BY <1>1, LoopStays
<1>3. wf.max_attempts[s] \in 1..10
  BY AttemptsAreBounded DEF TypeOK
<1>4. /\ step_status'[s] = "queued"
      /\ attempt'[s] \in Nat /\ calls'[s] < attempt'[s]
      /\ attempt'[s] <= wf.max_attempts[s]
  <2>1. CASE phase = "walking"
    BY <1>1, <1>3, <2>1 DEF BeginAttempt, AtHandInv, Untouched, TypeOK
  <2>2. CASE phase = "retrying"
    <3>1. /\ step_status[s] = "failed" /\ attempt[s] < wf.max_attempts[s]
          /\ calls[s] <= attempt[s]
          /\ attempt[s] \in Nat /\ calls[s] \in Nat
      BY <1>1, <2>2 DEF AtHandInv, CallsWithinAttempts, TypeOK
    <3>2. step_status'[s] = "queued" /\ attempt'[s] = attempt[s] + 1
      BY <2>2, <3>1 DEF BeginAttempt, TypeOK
    <3>3. QED BY <1>1, <1>3, <3>1, <3>2
  <2>3. QED BY <2>1, <2>2 DEF BeginAttempt
<1>5. /\ OrderInv' /\ ProgressInv' /\ CallsWithinAttempts'
      /\ Completed' = Completed /\ SkipsAreDecided' /\ BranchInv'
  <2>1. /\ step_status' = [step_status EXCEPT ![s] = step_status'[s]]
        /\ attempt' = [attempt EXCEPT ![s] = attempt'[s]]
        /\ calls' = [calls EXCEPT ![s] = calls'[s]]
    BY <1>1 DEF BeginAttempt, TypeOK
  <2>2. calls'[s] <= attempt'[s]
    BY <1>1, <1>4 DEF TypeOK
  <2>3. /\ phase \in {"walking", "retrying"} /\ phase' = "queued"
        /\ s \notin skipped_steps
    BY <1>1 DEF BeginAttempt, AtHandInv
  <2>4. QED BY <1>1, <1>4, <2>1, <2>2, <2>3, InPlacePreserves
<1>6. AtHandInv'
  BY <1>1, <1>2, <1>4, AtHandIsNew DEF AtHandInv, BeginAttempt
<1>7. PhaseInv' /\ ContextInv'
  BY <1>1, <1>5 DEF PhaseInv, ContextInv, BeginAttempt, At, outcome
<1>8. QED BY <1>5, <1>6, <1>7

\* So does setting the step running and refreshing the context.
LEMMA RunAttemptPreserves ==
  ASSUME IInv, TypeOK', NEW s \in Steps, RunAttempt(s) PROVE IInv'
<1> USE DEF IInv
<1>1. At(s) /\ UNCHANGED <<wf, order, pos, row, result, skipped_steps, calls,
                          attempt>>
  BY DEF RunAttempt
<1>2. /\ Steps' = Steps
      /\ \A t \in Steps : (At(t)' <=> At(t)) /\ (Passed(t)' <=> Passed(t))
  BY <1>1, LoopStays
<1>3. /\ step_status'[s] = "running" /\ calls[s] < attempt[s]
      /\ attempt[s] <= wf.max_attempts[s]
  BY <1>1 DEF RunAttempt, AtHandInv, CallsWithinAttempts, TypeOK
<1>4. /\ OrderInv' /\ ProgressInv' /\ CallsWithinAttempts'
      /\ Completed' = Completed /\ SkipsAreDecided' /\ BranchInv'
  <2>1. /\ step_status' = [step_status EXCEPT ![s] = step_status'[s]]
        /\ attempt' = [attempt EXCEPT ![s] = attempt'[s]]
        /\ calls' = [calls EXCEPT ![s] = calls'[s]]
    BY <1>1 DEF RunAttempt, TypeOK
  <2>2. calls'[s] <= attempt'[s] /\ attempt'[s] <= wf.max_attempts[s]
    BY <1>1 DEF CallsWithinAttempts
  <2>3. /\ phase = "queued" /\ phase' = "executing"
        /\ s \notin skipped_steps
    BY <1>1 DEF RunAttempt, AtHandInv
  <2>4. QED BY <1>1, <1>3, <2>1, <2>2, <2>3, InPlacePreserves
<1>5. AtHandInv'
  BY <1>1, <1>2, <1>3, AtHandIsNew DEF AtHandInv, RunAttempt
<1>6. PhaseInv' /\ ContextInv'
  BY <1>1, <1>4 DEF PhaseInv, ContextInv, RunAttempt, At
<1>7. QED BY <1>4, <1>5, <1>6

\* So does sending the request of an http step.
LEMMA SendRequestPreserves ==
  ASSUME IInv, TypeOK', NEW s \in Steps, SendRequest(s) PROVE IInv'
<1> USE DEF IInv
<1>1. At(s) /\ UNCHANGED <<wf, order, pos, row, result, skipped_steps,
                          step_status, attempt, ctx>>
  BY DEF SendRequest, outcome
<1>2. /\ Steps' = Steps
      /\ \A t \in Steps : (At(t)' <=> At(t)) /\ (Passed(t)' <=> Passed(t))
  BY <1>1, LoopStays
<1>3. /\ step_status[s] = "running" /\ calls'[s] = calls[s] + 1
      /\ calls[s] < attempt[s] /\ attempt[s] <= wf.max_attempts[s]
  BY <1>1 DEF SendRequest, AtHandInv, CallsWithinAttempts, TypeOK
<1>4. /\ OrderInv' /\ ProgressInv' /\ CallsWithinAttempts'
      /\ Completed' = Completed /\ SkipsAreDecided' /\ BranchInv'
  <2>1. /\ step_status' = [step_status EXCEPT ![s] = step_status'[s]]
        /\ attempt' = [attempt EXCEPT ![s] = attempt'[s]]
        /\ calls' = [calls EXCEPT ![s] = calls'[s]]
    BY <1>1 DEF SendRequest, TypeOK
  <2>2. calls'[s] <= attempt'[s] /\ attempt'[s] <= wf.max_attempts[s]
    BY <1>1, <1>3 DEF TypeOK
  <2>3. /\ phase = "executing" /\ phase' = "sent"
        /\ s \notin skipped_steps
    BY <1>1 DEF SendRequest, AtHandInv
  <2>4. QED BY <1>1, <1>3, <2>1, <2>2, <2>3, InPlacePreserves
<1>5. AtHandInv'
  BY <1>1, <1>2, <1>3, AtHandIsNew DEF AtHandInv, SendRequest, TypeOK
<1>6. PhaseInv' /\ ContextInv'
  BY <1>1, <1>4 DEF PhaseInv, ContextInv, SendRequest, At
<1>7. QED BY <1>4, <1>5, <1>6

\* An attempt that fails, with attempts left or with none.
LEMMA FailurePreserves ==
  ASSUME IInv, TypeOK', NEW s \in Steps, FailAttempt(s) \/ ExhaustStep(s)
  PROVE  IInv'
<1> USE DEF IInv
<1>1. At(s) /\ UNCHANGED <<wf, order, pos, row, result, skipped_steps, calls,
                          attempt, ctx, db>>
  BY DEF FailAttempt, ExhaustStep, outcome
<1>2. /\ Steps' = Steps
      /\ \A t \in Steps : (At(t)' <=> At(t)) /\ (Passed(t)' <=> Passed(t))
  BY <1>1, LoopStays
<1>3. phase \in {"executing", "sent"} /\ phase' \in {"retrying", "returned"}
  BY DEF FailAttempt, ExhaustStep, Raises
<1>4. step_status'[s] = "failed" /\ attempt[s] <= wf.max_attempts[s]
  BY DEF FailAttempt, ExhaustStep, CallsWithinAttempts, TypeOK
<1>5. wf.max_attempts[s] \in 1..10
  BY AttemptsAreBounded DEF TypeOK
<1>6. /\ OrderInv' /\ ProgressInv' /\ CallsWithinAttempts'
      /\ Completed' = Completed /\ SkipsAreDecided' /\ BranchInv'
  <2>1. /\ step_status' = [step_status EXCEPT ![s] = step_status'[s]]
        /\ attempt' = [attempt EXCEPT ![s] = attempt'[s]]
        /\ calls' = [calls EXCEPT ![s] = calls'[s]]
    BY <1>1 DEF FailAttempt, ExhaustStep, TypeOK
  <2>2. calls'[s] <= attempt'[s] /\ attempt'[s] <= wf.max_attempts[s]
    BY <1>1 DEF CallsWithinAttempts
  <2>3. s \notin skipped_steps
    BY <1>1, <1>3 DEF AtHandInv
  <2>4. QED BY <1>1, <1>3, <1>4, <2>1, <2>2, <2>3, InPlacePreserves
<1>7. AtHandInv'
  <2>1. CASE FailAttempt(s)
    <3>1. s \notin skipped_steps
      BY <1>1, <1>3 DEF AtHandInv
    <3>2. \A t \in Steps : At(t) => t = s
      BY <1>1, AtHandIsNew
    <3>3. QED BY <1>1, <1>2, <1>4, <2>1, <3>1, <3>2 DEF AtHandInv, FailAttempt
  <2>2. CASE ExhaustStep(s)
    <3>1. attempt[s] = wf.max_attempts[s]
      <4>1. attempt[s] \in Nat /\ attempt[s] >= wf.max_attempts[s]
        BY <2>2 DEF ExhaustStep, TypeOK
      <4>2. QED BY <1>4, <1>5, <4>1
    <3>2. QED BY <1>1, <1>2, <1>4, <2>2, <3>1, AtHandIsNew
              DEF AtHandInv, ExhaustStep
  <2>3. QED BY <2>1, <2>2
<1>8. PhaseInv'
  BY <1>1, <1>3 DEF PhaseInv, FailAttempt, ExhaustStep, At, TypeOK
<1>9. ContextInv'
  BY <1>1, <1>3, <1>6 DEF ContextInv
<1>10. QED BY <1>6, <1>7, <1>8, <1>9

\* Actions that finish the step at hand and let the loop go on.
LEMMA MovingOnPreserves ==
  ASSUME IInv, NEW s \in Steps, At(s),
         UNCHANGED <<wf, order, attempt, calls, exec_status, db>>,
         pos' = pos + 1, phase \in {"walking", "executing", "sent"},
         phase' \in {"walking", "escaped"}, step_status'[s] \in TerminalStep,
         \A t \in Steps : t # s => step_status'[t] = step_status[t]
  PROVE  /\ Steps' = Steps
         /\ OrderInv' /\ ProgressInv' /\ AtHandInv' /\ PhaseInv'
<1> USE DEF IInv
<1>1. /\ Steps' = Steps
      /\ \A t \in Steps : /\ Passed(t)' <=> Passed(t) \/ t = s
                          /\ At(t)' => ~Passed(t) /\ t # s
                          /\ At(t) => t = s
  BY LoopAdvances, AtHandIsNew DEF Steps
<1>2. OrderInv'
  BY DEF OrderInv
<1>3. PhaseInv'
  <2>1. exec_status = "running" /\ db = {}
    BY DEF PhaseInv
  <2>2. QED BY <2>1 DEF PhaseInv
<1>4. \A t \in Steps : At(t)' \/ (~Passed(t)' /\ ~At(t)') => Untouched(t)'
  <2> SUFFICES ASSUME NEW t \in Steps, At(t)' \/ (~Passed(t)' /\ ~At(t)')
               PROVE  Untouched(t)'
    OBVIOUS
  <2>1. t # s /\ ~Passed(t) /\ ~At(t)
    BY <1>1
  <2>2. Untouched(t)
    BY <2>1 DEF ProgressInv
  <2>3. QED BY <2>1, <2>2 DEF Untouched
<1>5. \A t \in Steps : Passed(t)' => step_status'[t] \in TerminalStep
  BY <1>1 DEF ProgressInv
<1>6. ProgressInv'
  BY <1>1, <1>4, <1>5 DEF ProgressInv, Untouched, TerminalStep
<1>7. AtHandInv'
  BY <1>1, <1>4 DEF AtHandInv
<1>8. QED BY <1>1, <1>2, <1>3, <1>6, <1>7

\* So does skipping a step of a branch that was not taken.
LEMMA SkipStepPreserves ==
  ASSUME IInv, TypeOK', NEW s \in Steps, SkipStep(s) PROVE IInv'
<1> USE DEF IInv
<1>1. /\ At(s) /\ pos' = pos + 1 /\ s \in skipped_steps
      /\ phase = "walking" /\ phase' = "walking"
      /\ UNCHANGED <<wf, order, row, result, skipped_steps, calls, attempt, ctx,
                    db, exec_status>>
  BY DEF SkipStep, outcome
<1>2. Untouched(s)
  BY <1>1 DEF AtHandInv
<1>3. /\ step_status'[s] = "skipped"
      /\ \A t \in Steps : t # s => step_status'[t] = step_status[t]
  BY DEF SkipStep, TypeOK
<1>4. /\ Steps' = Steps
      /\ OrderInv' /\ ProgressInv' /\ AtHandInv' /\ PhaseInv'
  BY <1>1, <1>3, MovingOnPreserves DEF TerminalStep
<1>5. Completed' = Completed /\ Unread' = Unread /\ Deciding' = Deciding
  <2>1. Completed' = Completed
    BY <1>2, <1>3, <1>4 DEF Completed, Untouched
  <2> QED
    BY <1>1, <1>4, <2>1 DEF Unread, Deciding
<1>6. ContextInv' /\ BranchInv'
  BY <1>1, <1>5 DEF ContextInv, BranchInv
<1>9. SkipsAreDecided'
  <2>1. skipped_steps = UNION {NonTaken(wf, c, result[c]) : c \in Deciding}
    BY DEF SkipsAreDecided
  <2>2. \A t \in Steps : step_status'[t] = "skipped" => t \in skipped_steps
    BY <1>1, <1>3 DEF SkipsAreDecided
  <2>3. \A c \in Deciding : \A t \in NonTaken(wf, c, result[c]) :
          Precedes(c, t)' => step_status'[t] \in {"pending", "skipped"}
    <3>1. skipped_steps \subseteq Steps
      BY DEF TypeOK
    <3>2. \A c \in Deciding : \A t \in NonTaken(wf, c, result[c]) : t \in Steps
      BY <2>1, <3>1
    <3> QED
      BY <1>1, <1>3, <3>2 DEF SkipsAreDecided, Precedes
  <2> QED
    BY <1>1, <1>4, <1>5, <2>1, <2>2, <2>3 DEF SkipsAreDecided
<1>7. CallsWithinAttempts'
  BY <1>1, <1>2, <1>3, <1>4 DEF CallsWithinAttempts, Untouched
<1>8. QED BY <1>4, <1>6, <1>7, <1>9

\* A step is completed and its output merged, whatever comes of its branches.
LEMMA CompletionPreserves ==
  ASSUME IInv, TypeOK', NEW s \in Steps, At(s), Returns(s),
         transition_step(s, "completed"), merge_step_output(s),
         pos' = pos + 1, phase' \in {"walking", "escaped"},
         UNCHANGED <<wf, order, exec_status, attempt, calls, db>>
  PROVE  /\ OrderInv' /\ ProgressInv' /\ AtHandInv' /\ PhaseInv'
         /\ ContextInv' /\ CallsWithinAttempts'
         /\ Steps' = Steps /\ Completed' = Completed \cup {s}
         /\ s \notin Completed /\ s \notin skipped_steps
         /\ \A t \in Steps : t # s => step_status'[t] = step_status[t]
         /\ \A t \in Steps : Precedes(s, t) => step_status'[t] = "pending"
<1> USE DEF IInv
<1>1. phase \in {"executing", "sent"}
  BY DEF Returns
<1>2. /\ step_status'[s] = "completed"
      /\ \A t \in Steps : t # s => step_status'[t] = step_status[t]
  BY DEF TypeOK
<1>3. step_status[s] = "running" /\ s \notin skipped_steps
  BY <1>1 DEF AtHandInv
<1>4. /\ Steps' = Steps
      /\ OrderInv' /\ ProgressInv' /\ AtHandInv' /\ PhaseInv'
  BY <1>1, <1>2, MovingOnPreserves DEF TerminalStep
<1>5. Completed' = Completed \cup {s} /\ s \notin Completed
  BY <1>4, <1>2, <1>3 DEF Completed
<1>6. ContextInv'
  <2>1. ctx.outputs = Completed /\ ctx \in Context
    BY <1>1 DEF ContextInv, TypeOK
  <2>2. row'.outputs = ctx.outputs \cup {s}
    BY <2>1 DEF Context
  <2>3. QED BY <1>1, <1>5, <2>1, <2>2 DEF ContextInv
<1>7. CallsWithinAttempts'
  BY <1>1, <1>4, <1>2 DEF CallsWithinAttempts, Returns, AtHandInv
<1>8. ASSUME NEW t \in Steps, Precedes(s, t) PROVE step_status'[t] = "pending"
  <2>1. pos \in 1..Len(order) /\ order[pos] = s /\ Len(order) \in Nat
    BY AtHandIsNew DEF TypeOK
  <2>2. \A i, j \in 1..Len(order) : order[i] = order[j] => i = j
    BY <2>1 DEF OrderInv, IsTopological
  <2>3. PICK i, j \in 1..Len(order) : i < j /\ order[i] = s /\ order[j] = t
    BY <1>8 DEF Precedes
  <2>4. i = pos
    BY <2>1, <2>2, <2>3
  <2>5. \A k \in 1..Len(order) : order[k] = t => k = j
    BY <2>2, <2>3
  <2>6. ~Passed(t)
    BY <2>1, <2>3, <2>4, <2>5 DEF Passed
  <2>7. ~At(t) /\ t # s
    BY <2>1, <2>2, <2>3, <2>4 DEF At
  <2> QED
    BY <1>2, <2>6, <2>7 DEF ProgressInv, Untouched
<1> QED
  BY <1>2, <1>3, <1>4, <1>5, <1>6, <1>7, <1>8

\* What was decided against before stays so when s completes: s is not among it.
LEMMA EarlierDecisionsStand ==
  ASSUME SkipsAreDecided, skipped_steps \subseteq Steps, order' = order,
         NEW s, s \notin skipped_steps,
         \A t \in Steps : t # s => step_status'[t] = step_status[t]
  PROVE  \A c \in Deciding : \A t \in NonTaken(wf, c, result[c]) :
           Precedes(c, t)' => step_status'[t] \in {"pending", "skipped"}
<1> TAKE c \in Deciding
<1> TAKE t \in NonTaken(wf, c, result[c])
<1>1. t \in skipped_steps
  BY DEF SkipsAreDecided
<1>2. t \in Steps /\ t # s
  BY <1>1
<1> QED
  BY <1>2 DEF SkipsAreDecided, Precedes

\* So does storing an output, merging it and resolving the branches.
LEMMA CompleteStepPreserves ==
  ASSUME IInv, TypeOK', NEW s \in Steps, CompleteStep(s) PROVE IInv'
<1> USE DEF IInv
<1>1. /\ At(s) /\ Returns(s) /\ order' = order /\ wf' = wf
      /\ phase \in {"executing", "sent"} /\ phase' = "walking"
  BY DEF CompleteStep, Returns
<1>2. /\ OrderInv' /\ ProgressInv' /\ AtHandInv' /\ PhaseInv'
      /\ ContextInv' /\ CallsWithinAttempts'
      /\ Steps' = Steps /\ Completed' = Completed \cup {s}
      /\ s \notin Completed /\ s \notin skipped_steps
      /\ \A t \in Steps : t # s => step_status'[t] = step_status[t]
      /\ \A t \in Steps : Precedes(s, t) => step_status'[t] = "pending"
  BY CompletionPreserves DEF CompleteStep
<1>3. skipped_steps \subseteq Steps /\ skipped_steps' \subseteq Steps
  BY <1>2 DEF TypeOK
<1>4. /\ \A c \in Deciding : \A t \in NonTaken(wf, c, result[c]) :
            Precedes(c, t)' => step_status'[t] \in {"pending", "skipped"}
      /\ skipped_steps = UNION {NonTaken(wf, c, result[c]) : c \in Deciding}
  BY <1>1, <1>2, <1>3, EarlierDecisionsStand DEF SkipsAreDecided
<1>5. Completed \cap Unread = {}
  BY <1>1 DEF BranchInv, Phase
<1>6. step_status'[s] = "completed"
  BY DEF CompleteStep, TypeOK
<1>7. SkipsAreDecided' /\ BranchInv'
  <2>1. CASE wf.type[s] = "condition"
    <3>1. PICK b \in BOOLEAN \ wf.no_list[s] :
            /\ result' = [result EXCEPT ![s] = b]
            /\ skipped_steps' = skipped_steps \cup NonTaken(wf, s, b)
      BY <2>1 DEF CompleteStep
    <3>2. result'[s] = b /\ \A c \in Steps : c # s => result'[c] = result[c]
      BY <3>1 DEF TypeOK
    <3>3. /\ Completed' \cap Unread' = {} /\ Deciding' = Deciding \cup {s}
          /\ s \notin Deciding /\ Deciding \subseteq Steps
      BY <1>1, <1>2, <1>5, <2>1, <3>2 DEF Unread, Deciding, Completed
    <3>4. \A c \in Deciding : result'[c] = result[c]
      BY <3>2, <3>3
    <3>5. skipped_steps' = UNION {NonTaken(wf, c, result'[c]) : c \in Deciding'}
      BY <1>4, <3>1, <3>2, <3>3, <3>4
    <3>6. \A t \in Steps : step_status'[t] = "skipped" => t \in skipped_steps'
      BY <1>2, <1>6, <3>1 DEF SkipsAreDecided
    <3>7. ASSUME NEW c \in Deciding', NEW t \in NonTaken(wf, c, result'[c]),
                 Precedes(c, t)'
          PROVE  step_status'[t] \in {"pending", "skipped"}
      <4>1. CASE c = s
        <5>1. t \in Steps
          BY <1>3, <3>1, <3>2, <3>7, <4>1
        <5>2. Precedes(s, t)
          BY <1>1, <3>7, <4>1 DEF Precedes
        <5> QED
          BY <1>2, <5>1, <5>2
      <4>2. CASE c # s
        BY <1>4, <3>3, <3>4, <3>7, <4>2
      <4> QED
        BY <4>1, <4>2
    <3> QED
      BY <1>1, <1>2, <3>3, <3>5, <3>6, <3>7 DEF SkipsAreDecided, BranchInv
  <2>2. CASE wf.type[s] # "condition"
    <3>1. UNCHANGED <<result, skipped_steps>>
      BY <2>2 DEF CompleteStep
    <3>2. Completed' \cap Unread' = {} /\ Deciding' = Deciding
      BY <1>1, <1>2, <1>5, <2>2, <3>1 DEF Unread, Deciding
    <3>3. \A t \in Steps : step_status'[t] = "skipped" => t \in skipped_steps
      BY <1>2, <1>6 DEF SkipsAreDecided
    <3> QED
      BY <1>1, <1>2, <1>4, <3>1, <3>2, <3>3 DEF SkipsAreDecided, BranchInv
  <2> QED
    BY <2>1, <2>2
<1> QED BY <1>2, <1>7

\* So does a condition that completes and whose branch cannot be read.
LEMMA EscapePreserves ==
  ASSUME IInv, TypeOK', NEW s \in Steps, EscapeFromBranch(s) PROVE IInv'
<1> USE DEF IInv
<1>1. /\ At(s) /\ Returns(s) /\ order' = order /\ wf' = wf
      /\ phase \in {"executing", "sent"} /\ phase' = "escaped"
      /\ skipped_steps' = skipped_steps /\ wf.type[s] = "condition"
  BY DEF EscapeFromBranch, Returns
<1>2. /\ OrderInv' /\ ProgressInv' /\ AtHandInv' /\ PhaseInv'
      /\ ContextInv' /\ CallsWithinAttempts'
      /\ Steps' = Steps /\ Completed' = Completed \cup {s}
      /\ s \notin Completed /\ s \notin skipped_steps
      /\ \A t \in Steps : t # s => step_status'[t] = step_status[t]
  BY CompletionPreserves DEF EscapeFromBranch
<1>3. PICK b \in wf.no_list[s] : result' = [result EXCEPT ![s] = b]
  BY DEF EscapeFromBranch
<1>4. result'[s] = b /\ \A c \in Steps : c # s => result'[c] = result[c]
  BY <1>3 DEF TypeOK
<1>5. s \in Unread' /\ s \in Completed'
  BY <1>1, <1>2, <1>4 DEF Unread
<1>6. Deciding' = Deciding /\ Deciding \subseteq Steps \ {s}
  BY <1>1, <1>2, <1>4, <1>5 DEF Unread, Deciding, Completed
<1>7. \A c \in Deciding : result'[c] = result[c]
  BY <1>4, <1>6
<1>8. skipped_steps \subseteq Steps
  BY DEF TypeOK
<1>9. /\ \A c \in Deciding : \A t \in NonTaken(wf, c, result[c]) :
            Precedes(c, t)' => step_status'[t] \in {"pending", "skipped"}
      /\ skipped_steps = UNION {NonTaken(wf, c, result[c]) : c \in Deciding}
  BY <1>1, <1>2, <1>8, EarlierDecisionsStand DEF SkipsAreDecided
<1>10. step_status'[s] = "completed"
  BY DEF EscapeFromBranch, TypeOK
<1>11. \A t \in Steps : step_status'[t] = "skipped" => t \in skipped_steps
  BY <1>2, <1>10 DEF SkipsAreDecided
<1>12. skipped_steps = UNION {NonTaken(wf, c, result'[c]) : c \in Deciding}
  BY <1>7, <1>9
<1>13. SkipsAreDecided'
  BY <1>1, <1>2, <1>6, <1>7, <1>9, <1>11, <1>12 DEF SkipsAreDecided
<1>14. BranchInv'
  BY <1>1, <1>5 DEF BranchInv
<1> QED BY <1>2, <1>13, <1>14

\* Nothing is decided or undone while the rows stay as they are.
LEMMA RowsStay ==
  ASSUME SkipsAreDecided, UNCHANGED <<wf, order, step_status, result, skipped_steps>>
  PROVE  /\ SkipsAreDecided'
         /\ Completed' = Completed /\ Unread' = Unread
<1>1. Steps' = Steps
  BY DEF Steps
<1>2. Completed' = Completed
  BY <1>1 DEF Completed
<1>3. Unread' = Unread
  BY <1>1 DEF Unread
<1>4. Deciding' = Deciding
  BY <1>2, <1>3 DEF Deciding
<1> QED
  BY <1>1, <1>2, <1>3, <1>4 DEF SkipsAreDecided, Precedes

\* So does the end of the walk.
LEMMA FinishRunPreserves ==
  ASSUME IInv, TypeOK', FinishRun PROVE IInv'
<1> USE DEF IInv
<1>1. UNCHANGED <<wf, order, pos, step_status, attempt, ctx, row, result,
                  skipped_steps, calls, db>>
  BY DEF FinishRun, outcome
<1>2. phase = "walking" /\ phase' = "returned" /\ exec_status' = "completed"
  BY DEF FinishRun
<1>3. /\ Steps' = Steps
      /\ \A t \in Steps : ~At(t)' /\ (Passed(t)' <=> Passed(t)) /\ ~At(t)
  <2>1. Len(order) \in Nat /\ pos > Len(order) /\ pos \in Nat
    BY DEF FinishRun, TypeOK
  <2>2. QED BY <1>1, <2>1 DEF Steps, At, Passed
<1>4. OrderInv' /\ PhaseInv'
  BY <1>1, <1>2 DEF OrderInv, PhaseInv
<1>5. ProgressInv' /\ AtHandInv'
  BY <1>1, <1>3 DEF ProgressInv, AtHandInv, Untouched
<1>6. ContextInv' /\ CallsWithinAttempts'
  BY <1>1, <1>2, <1>3 DEF ContextInv, CallsWithinAttempts, Completed
<1>7. SkipsAreDecided' /\ BranchInv'
  BY <1>1, <1>2, RowsStay DEF BranchInv, Phase
<1>8. QED BY <1>4, <1>5, <1>6, <1>7

\* The commit, and everything that ends a run early: the rows stay, in the
\* caller's memory, what they were.
LEMMA EndingPreserves ==
  ASSUME IInv, TypeOK', phase # "idle", phase' \in {"raised", "ended"},
         phase' = "ended" \/ (db' = db /\ phase # "ended"),
         UNCHANGED <<wf, order, pos, exec_status, step_status, attempt, ctx, row,
                     result, skipped_steps, calls>>
  PROVE  IInv'
<1> USE DEF IInv
<1>1. /\ Steps' = Steps
      /\ \A t \in Steps : (At(t)' <=> At(t)) /\ (Passed(t)' <=> Passed(t))
  BY LoopStays
<1>2. OrderInv' /\ PhaseInv'
  BY DEF OrderInv, PhaseInv
<1>3. ProgressInv' /\ AtHandInv'
  BY <1>1 DEF ProgressInv, AtHandInv, Untouched
<1>4. ContextInv' /\ CallsWithinAttempts' /\ SkipsAreDecided' /\ BranchInv'
  <2>1. ContextInv' /\ CallsWithinAttempts'
    BY <1>1 DEF ContextInv, CallsWithinAttempts, Completed
  <2> QED
    BY <2>1, RowsStay DEF BranchInv
<1>5. QED BY <1>2, <1>3, <1>4

\* Every step of the orchestrator, its caller and its faults keeps the invariant.
LEMMA NextPreserves == IInv /\ [Next]_vars => IInv'
<1> SUFFICES ASSUME IInv, [Next]_vars PROVE IInv'
  OBVIOUS
<1>0. TypeOK'
  BY TypeInductive DEF IInv
<1>1. CASE start_execution
  BY <1>0, <1>1, StartPreserves
<1>2. ASSUME NEW s \in Steps, StepAction(s) PROVE IInv'
  BY <1>0, <1>2, SkipStepPreserves, BeginAttemptPreserves, RunAttemptPreserves,
     SendRequestPreserves, CompleteStepPreserves, EscapePreserves, FailurePreserves
     DEF StepAction
<1>3. CASE FinishRun
  BY <1>0, <1>3, FinishRunPreserves
<1>4. CASE Commit \/ CommitInExcept \/ Rollback \/ Fault
  <2>1. /\ phase # "idle" /\ phase' \in {"raised", "ended"}
        /\ phase' = "ended" \/ (db' = db /\ phase # "ended")
        /\ UNCHANGED <<wf, order, pos, exec_status, step_status, attempt, ctx,
                      row, result, skipped_steps, calls>>
    BY <1>4 DEF Commit, CommitInExcept, Rollback, Fault, LoseOutput,
                LoseConnection, Crash, InFlight, Returns, Raises, outcome
  <2>2. QED BY <1>0, <2>1, EndingPreserves
<1>5. CASE UNCHANGED vars
  <2> USE <1>5 DEF vars, IInv
  <2>1. /\ Steps' = Steps
        /\ \A t \in Steps : (At(t)' <=> At(t)) /\ (Passed(t)' <=> Passed(t))
    BY LoopStays
  <2>2. OrderInv' /\ PhaseInv'
    BY DEF OrderInv, PhaseInv
  <2>3. ProgressInv' /\ AtHandInv'
    <3>1. ProgressInv'
      BY <2>1 DEF ProgressInv, Untouched
    <3>2. AtHandInv'
      BY <2>1 DEF AtHandInv, Untouched
    <3>3. QED BY <3>1, <3>2
  <2>4. ContextInv' /\ CallsWithinAttempts' /\ SkipsAreDecided' /\ BranchInv'
    <3>1. Completed' = Completed /\ Unread' = Unread /\ SkipsAreDecided'
      BY RowsStay
    <3>2. ContextInv' /\ BranchInv'
      BY <3>1 DEF ContextInv, BranchInv
    <3>3. CallsWithinAttempts'
      BY <2>1 DEF CallsWithinAttempts
    <3>4. QED BY <3>1, <3>2, <3>3
  <2>5. QED BY <1>0, <2>2, <2>3, <2>4
<1>6. QED BY <1>1, <1>2, <1>3, <1>4, <1>5 DEF Next, Advance

\* Where _execute_dag stands in its loop says everything about the rows: what is
\* behind it is finished, what is ahead is as it was inserted, and the step at hand
\* is where _execute_step_with_retry has brought it.
THEOREM Invariance == Spec => []IInv
  BY InitEstablishes, NextPreserves, PTL DEF Spec
-----------------------------------------------------------------------------
(* What follows from it *)

\* _execute_dag starts or skips no step before the steps it depends on are
\* completed or skipped.
THEOREM DependenciesComeFirst == Spec => []DependenciesFirst
  BY Invariance, StartedMeansDependenciesDone, PTL

\* The input that get_step_input takes from the refreshed context holds the output
\* of every dependency that was not skipped, whatever was merged in between.
THEOREM TemplatesAlwaysResolve == Spec => []TemplatesResolve
<1>1. IInv => TemplatesResolve
  <2> SUFFICES ASSUME IInv, NEW s \in Steps, phase = "executing", At(s),
                      NEW d \in wf.reads[s], d \in Dependencies(wf, s),
                      step_status[d] # "skipped"
               PROVE  d \in ctx.outputs
    BY DEF TemplatesResolve
  <2>1. step_status[s] # "pending"
    BY DEF IInv, AtHandInv
  <2>2. d \in Done
    BY <2>1, StartedMeansDependenciesDone DEF DependenciesFirst
  <2>3. d \in Completed
    BY <2>2 DEF Done, TerminalStep, Completed
  <2>4. QED BY <2>3 DEF IInv, ContextInv
<1>2. QED BY <1>1, Invariance, PTL

\* _execute_dag has at most one step between "pending" and its end.
THEOREM RunIsSequential == Spec => []OneStepAtATime
<1>1. IInv => OneStepAtATime
  <2> SUFFICES ASSUME IInv, NEW s \in Steps, NEW t \in Steps, t # s,
                      step_status[s] \notin TerminalStep \cup {"pending"},
                      step_status[t] \notin TerminalStep \cup {"pending"}
               PROVE  FALSE
    BY DEF OneStepAtATime
  <2>1. At(s) /\ At(t)
    BY DEF IInv, ProgressInv, Untouched
  <2>2. QED BY <2>1 DEF At
<1>2. QED BY <1>1, Invariance, PTL

\* _execute_step_with_retry makes at most max_attempts attempts, and an http step
\* sends at most one request in each.
THEOREM CallsAreBounded == Spec => []CallsWithinAttempts
  BY Invariance, PTL DEF IInv

\* _resolve_condition_branches: what _execute_dag skips is what the completed
\* conditions decided against; only members of that set are skipped, and none of
\* them that stands behind its condition is run.
THEOREM SkipsFollowConditions == Spec => []SkipsAreDecided
  BY Invariance, PTL DEF IInv

\* The tables of state.py allow every status a run writes: transition_execution
\* and transition_step never refuse, and the status that _execute_dag assigns
\* itself is one they would have allowed.
THEOREM MovesAreAllowed == Spec => MovesAllowed
<1> USE DEF validate_execution_transition, validate_step_transition,
            ALLOWED_EXECUTION_TRANSITIONS, ALLOWED_STEP_TRANSITIONS
<1>1. IInv /\ [Next]_vars =>
        [/\ exec_status' # exec_status =>
               \/ validate_execution_transition(exec_status, exec_status')
         /\ \A s \in Steps : step_status'[s] # step_status[s] =>
               validate_step_transition(step_status[s], step_status'[s])]_vars
  <2> SUFFICES ASSUME IInv, Next
               PROVE  /\ exec_status' # exec_status =>
                           validate_execution_transition(exec_status, exec_status')
                      /\ \A s \in Steps : step_status'[s] # step_status[s] =>
                           validate_step_transition(step_status[s], step_status'[s])
    OBVIOUS
  <2> USE DEF IInv, TypeOK
  <2>1. ASSUME NEW s \in Steps, StepAction(s)
        PROVE  /\ exec_status' # exec_status =>
                    exec_status = "running" /\ exec_status' = "failed"
               /\ \A t \in Steps : t # s => step_status'[t] = step_status[t]
               /\ <<step_status[s], step_status'[s]>> \in
                    {<<"pending", "queued">>, <<"failed", "queued">>,
                     <<"queued", "running">>, <<"running", "running">>,
                     <<"running", "completed">>, <<"running", "failed">>,
                     <<"pending", "skipped">>}
    <3>1. CASE SkipStep(s)
      BY <3>1 DEF SkipStep, AtHandInv, Untouched
    <3>2. CASE BeginAttempt(s)
      BY <3>2 DEF BeginAttempt, AtHandInv, Untouched
    <3>3. CASE RunAttempt(s)
      BY <3>3 DEF RunAttempt, AtHandInv
    <3>4. CASE SendRequest(s)
      BY <3>4 DEF SendRequest, AtHandInv
    <3>5. CASE CompleteStep(s)
      BY <3>5 DEF CompleteStep, Returns, AtHandInv
    <3>6. CASE EscapeFromBranch(s)
      BY <3>6 DEF EscapeFromBranch, Returns, AtHandInv
    <3>7. CASE FailAttempt(s)
      BY <3>7 DEF FailAttempt, Raises, AtHandInv
    <3>8. CASE ExhaustStep(s)
      BY <3>8 DEF ExhaustStep, Raises, AtHandInv, PhaseInv
    <3>9. QED
      BY <2>1, <3>1, <3>2, <3>3, <3>4, <3>5, <3>6, <3>7, <3>8 DEF StepAction
  <2>2. CASE start_execution \/ FinishRun
    BY <2>2 DEF start_execution, FinishRun, PhaseInv
  <2>3. CASE Commit \/ CommitInExcept \/ Rollback \/ Fault
    BY <2>3 DEF Commit, CommitInExcept, Rollback, Fault, LoseOutput, LoseConnection, Crash
  <2>4. ASSUME NEW s \in Steps, StepAction(s)
        PROVE  /\ exec_status' # exec_status =>
                    validate_execution_transition(exec_status, exec_status')
               /\ \A t \in Steps : step_status'[t] # step_status[t] =>
                    validate_step_transition(step_status[t], step_status'[t])
    <3>1. exec_status' # exec_status =>
            validate_execution_transition(exec_status, exec_status')
      BY <2>1, <2>4
    <3>2. step_status'[s] # step_status[s] =>
            validate_step_transition(step_status[s], step_status'[s])
      BY <2>1, <2>4
    <3>3. QED BY <2>1, <2>4, <3>1, <3>2
  <2>5. QED BY <2>2, <2>3, <2>4 DEF Next, Advance
<1>2. QED BY <1>1, Invariance, PTL DEF Spec, MovesAllowed

\* An http step sends its request only while its row says running, after its
\* dependencies, and not when a condition has decided against it.
THEOREM CallsStayInTurn == Spec => CallsAreInTurn
<1>1. IInv /\ [Next]_vars =>
        [\A s \in Steps : calls'[s] # calls[s] =>
           /\ step_status[s] = "running" /\ exec_status = "running"
           /\ Dependencies(wf, s) \subseteq Done
           /\ s \notin skipped_steps]_vars
  <2> SUFFICES ASSUME IInv, Next, NEW s \in Steps, calls'[s] # calls[s]
               PROVE  /\ step_status[s] = "running" /\ exec_status = "running"
                      /\ Dependencies(wf, s) \subseteq Done
                      /\ s \notin skipped_steps
    OBVIOUS
  <2>1. SendRequest(s)
    BY DEF IInv, TypeOK, Next, Advance, StepAction, Fault, start_execution,
       SkipStep, BeginAttempt, RunAttempt, SendRequest, CompleteStep,
       EscapeFromBranch, FailAttempt, ExhaustStep, FinishRun, Commit,
       CommitInExcept, Rollback, LoseOutput, LoseConnection, Crash
  <2>2. step_status[s] = "running" /\ exec_status = "running"
    BY <2>1 DEF SendRequest, IInv, AtHandInv, PhaseInv
  <2>3. Dependencies(wf, s) \subseteq Done
    BY <2>2, StartedMeansDependenciesDone DEF DependenciesFirst
  <2>4. s \notin skipped_steps
    BY <2>1 DEF SendRequest, IInv, AtHandInv
  <2>5. QED BY <2>2, <2>3, <2>4
<1>2. QED BY <1>1, Invariance, PTL DEF Spec, CallsAreInTurn
-----------------------------------------------------------------------------
(* The run implements AtomicRun *)

\* The rows of a run between two steps are consistent, and its conditions are
\* the abstract ones.
LEMMA RecordIsConsistent ==
  ASSUME IInv
  PROVE  /\ Record.status = exec_status /\ Record.steps = step_status
         /\ Record.attempt = attempt /\ AtomicRun!StepsOf(wf) = Steps
         /\ AtomicRun!Finished(Record) = Done
         /\ AtomicRun!Unreadable(wf, Record) = Completed \cap Unread
         /\ AtomicRun!IsConsistent(wf, Record)
<1> USE DEF IInv
<1>1. /\ Record.status = exec_status /\ Record.steps = step_status
      /\ Record.attempt = attempt /\ Record.outputs = row.outputs
      /\ Record.result = result
  BY DEF Record
<1>2. DOMAIN step_status = Steps /\ Steps = AtomicRun!StepsOf(wf)
  BY DEF TypeOK, Steps, StepsOf, Ids, AtomicRun!StepsOf, AtomicRun!Ids
<1>3. AtomicRun!Finished(Record) = Done
  BY <1>1, <1>2 DEF AtomicRun!Finished, Done, TerminalStep
<1>4. AtomicRun!Conditions(wf, Record) = {c \in Completed : wf.type[c] = "condition"}
  BY <1>1, <1>2 DEF AtomicRun!Conditions, Completed
<1>5. AtomicRun!Unreadable(wf, Record) = Completed \cap Unread
  BY <1>1, <1>4 DEF AtomicRun!Unreadable, Unread, Completed
<1>6. AtomicRun!IsConsistent(wf, Record)
  <2>1. AtomicRun!DecidedAgainst(wf, Record) = skipped_steps
    <3>1. AtomicRun!Conditions(wf, Record) \ AtomicRun!Unreadable(wf, Record) = Deciding
      BY <1>4, <1>5 DEF Deciding
    <3> QED
      BY <1>1, <3>1 DEF AtomicRun!DecidedAgainst, SkipsAreDecided, NonTaken,
                        AtomicRun!NonTaken
  <2>2. \A s \in Steps : step_status[s] = "skipped" => s \in skipped_steps
    BY DEF SkipsAreDecided
  <2>3. row.outputs = {s \in Steps : step_status[s] = "completed"}
    BY DEF ContextInv, Completed
  <2>4. \A s \in Steps : step_status[s] # "pending" =>
           AtomicRun!Dependencies(wf, s) \subseteq Done
    BY StartedMeansDependenciesDone
       DEF DependenciesFirst, Dependencies, AtomicRun!Dependencies
  <2>5. QED BY <1>1, <1>2, <1>3, <2>1, <2>2, <2>3, <2>4
            DEF AtomicRun!IsConsistent
<1> QED
  BY <1>1, <1>2, <1>3, <1>5, <1>6

\* What a run has done when it returns is a final record.
LEMMA ReturnedRecordIsFinal ==
  ASSUME IInv, phase = "returned"
  PROVE  AtomicRun!IsConsistent(wf, Record) /\ AtomicRun!IsFinal(wf, Record)
<1> USE DEF IInv
<1>1. /\ Record.status = exec_status /\ Record.steps = step_status
      /\ Record.attempt = attempt /\ AtomicRun!StepsOf(wf) = Steps
      /\ AtomicRun!Finished(Record) = Done
      /\ AtomicRun!IsConsistent(wf, Record)
  BY RecordIsConsistent
<1>2. AtomicRun!Unreadable(wf, Record) = {}
  BY RecordIsConsistent DEF BranchInv, Phase
<1>5. Len(order) \in Nat /\ pos \in Nat \ {0} /\ IsTopological(wf, order)
  BY DEF TypeOK, OrderInv
<1>6. CASE pos > Len(order)
  <2>1. \A s \in Steps : Passed(s)
    BY <1>5, <1>6 DEF IsTopological, Passed, Steps
  <2>2. Done = Steps
    BY <2>1 DEF ProgressInv, Done
  <2>3. exec_status = "completed"
    BY <1>6 DEF PhaseInv
  <2>4. QED BY <1>1, <1>2, <2>2, <2>3 DEF AtomicRun!IsFinal, AtomicRun!Succeeded
<1>7. CASE pos <= Len(order)
  <2> DEFINE f == order[pos]
  <2>1. f \in Steps /\ At(f)
    BY <1>5, <1>7 DEF At, TypeOK
  <2>2. /\ step_status[f] = "failed" /\ attempt[f] = wf.max_attempts[f]
        /\ exec_status = "failed"
    BY <2>1 DEF AtHandInv
  <2>3. \A s \in Steps \ (Done \cup {f}) : step_status[s] = "pending"
    BY <2>1, AtHandIsNew DEF ProgressInv, Untouched, Done
  <2>4. QED BY <1>1, <1>2, <2>1, <2>2, <2>3 DEF AtomicRun!IsFinal, AtomicRun!Failed
<1>8. QED BY <1>5, <1>6, <1>7

\* What receive_webhook commits of a run that has raised at a branch.
LEMMA EscapedRecordIsAbandoned ==
  ASSUME IInv, phase = "escaped"
  PROVE  AtomicRun!IsConsistent(wf, Record) /\ AtomicRun!Abandoned(wf, Record)
<1> USE DEF IInv
<1>1. exec_status = "running" /\ Completed \cap Unread # {}
  BY DEF PhaseInv, BranchInv
<1>2. \A s \in Steps \ Done : step_status[s] = "pending"
  BY DEF ProgressInv, AtHandInv, Untouched, Done
<1> QED
  BY <1>1, <1>2, RecordIsConsistent DEF AtomicRun!Abandoned

\* The transaction that start_execution leaves to its caller makes the run atomic:
\* other sessions see its record all at once or not at all, and never changing; it
\* is final, or it is what receive_webhook committed of a run that raised at a
\* branch it could not read: left "running", with no step half done.
THEOREM RunIsAtomic == Spec => ImplementsAtomicRun
<1>1. Init => AtomicRun!Init
  BY DEF Init, AtomicRun!Init
<1>2. IInv /\ [Next]_vars => [AtomicRun!Record]_<<wf, db>>
  <2> SUFFICES ASSUME IInv, Next PROVE AtomicRun!Record \/ UNCHANGED <<wf, db>>
    BY DEF vars
  <2>1. CASE Commit \/ CommitInExcept
    <3>1. db = {} /\ db' = {Record} /\ wf' = wf
      BY <2>1 DEF Commit, CommitInExcept, IInv, PhaseInv
    <3>2. /\ AtomicRun!IsConsistent(wf, Record)
          /\ AtomicRun!IsFinal(wf, Record) \/ AtomicRun!Abandoned(wf, Record)
      BY <2>1, ReturnedRecordIsFinal, EscapedRecordIsAbandoned
         DEF Commit, CommitInExcept
    <3>3. QED BY <3>1, <3>2 DEF AtomicRun!Record
  <2>2. CASE ~(Commit \/ CommitInExcept)
    BY <2>2 DEF Next, Advance, StepAction, Fault, start_execution, SkipStep,
       BeginAttempt, RunAttempt, SendRequest, CompleteStep, EscapeFromBranch,
       FailAttempt, ExhaustStep, FinishRun, Rollback, LoseOutput, LoseConnection,
       Crash
  <2>3. QED BY <2>1, <2>2
<1>3. QED BY <1>1, <1>2, Invariance, PTL
          DEF Spec, ImplementsAtomicRun, AtomicRun!Spec
=============================================================================

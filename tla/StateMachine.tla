---------------------------- MODULE StateMachine ----------------------------
(***************************************************************************)
(* The statuses of an execution and of a step, and the tables of allowed   *)
(* transitions of src/src/engine/state.py.  transition_execution and       *)
(* transition_step refuse (409 INVALID_TRANSITION) every move that is not  *)
(* in these tables; code that writes a status column itself, without       *)
(* calling them, is not held to the tables.                                *)
(***************************************************************************)

ExecutionStatus == {"pending", "running", "completed", "failed", "cancelled"}

StepStatus == {"pending", "queued", "running", "completed", "failed", "skipped"}

ALLOWED_EXECUTION_TRANSITIONS ==
  [pending   |-> {"running", "cancelled"},
   running   |-> {"completed", "failed", "cancelled"},
   completed |-> {},
   failed    |-> {},
   cancelled |-> {}]

ALLOWED_STEP_TRANSITIONS ==
  [pending   |-> {"queued", "skipped"},
   queued    |-> {"running", "skipped"},
   running   |-> {"completed", "failed", "skipped"},
   completed |-> {},
   failed    |-> {"queued"},
   skipped   |-> {}]

\* validate_execution_transition and validate_step_transition: no exception.
validate_execution_transition(current_status, new_status) ==
  new_status \in ALLOWED_EXECUTION_TRANSITIONS[current_status]

validate_step_transition(current_status, new_status) ==
  new_status \in ALLOWED_STEP_TRANSITIONS[current_status]

\* The statuses no table row leads out of: a finished execution, and a step
\* that nothing (not even a retry) starts again.
TerminalExecution == {"completed", "failed", "cancelled"}
TerminalStep      == {"completed", "skipped"}
=============================================================================

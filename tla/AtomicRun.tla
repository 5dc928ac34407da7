----------------------------- MODULE AtomicRun ------------------------------
(***************************************************************************)
(* What one run of a workflow promises to every other session of the       *)
(* database: its record (the executions row with its step_executions rows) *)
(* appears once, whole, and then stays as it is; or it never appears at    *)
(* all.  It is in a final form, with one exception: a condition whose      *)
(* branch is no list of ids ends the run, and then the record of a webhook *)
(* says "running" for ever.  Nothing is said of the order in which the     *)
(* steps ran, of retries or of failures on the way: that is for            *)
(* Orchestrator.tla, which implements this specification.                  *)
(***************************************************************************)
EXTENDS WorkflowDefinition

VARIABLES wf,          \* the definition being run
          records      \* the committed records of the run: none, or one

Finished(r) == {s \in DOMAIN r.steps : r.steps[s] \in {"completed", "skipped"}}

Conditions(w, r) ==
  {c \in DOMAIN r.steps : w.type[c] = "condition" /\ r.steps[c] = "completed"}

\* The completed conditions of r whose branch not taken cannot be read.
Unreadable(w, r) == {c \in Conditions(w, r) : r.result[c] \in w.no_list[c]}

\* The steps some other completed condition of r decided against.
DecidedAgainst(w, r) ==
  UNION {NonTaken(w, c, r.result[c]) : c \in Conditions(w, r) \ Unreadable(w, r)}

\* Only the steps of a non-taken branch are skipped, the context holds the
\* outputs of exactly the completed steps, and no step was started before
\* all it depends on was out of the way.
IsConsistent(w, r) ==
  /\ DOMAIN r.steps = StepsOf(w)
  /\ \A s \in StepsOf(w) : r.steps[s] = "skipped" => s \in DecidedAgainst(w, r)
  /\ r.outputs = {s \in StepsOf(w) : r.steps[s] = "completed"}
  /\ \A s \in StepsOf(w) :
       r.steps[s] # "pending" => Dependencies(w, s) \subseteq Finished(r)

Succeeded(w, r) == r.status = "completed" /\ Finished(r) = StepsOf(w)

\* One step used up its attempts; what was not finished by then never began.
Failed(w, r) ==
  /\ r.status = "failed"
  /\ \E f \in StepsOf(w) :
       /\ r.steps[f] = "failed" /\ r.attempt[f] = w.max_attempts[f]
       /\ \A s \in StepsOf(w) \ (Finished(r) \cup {f}) : r.steps[s] = "pending"

IsFinal(w, r) == Unreadable(w, r) = {} /\ (Succeeded(w, r) \/ Failed(w, r))

\* The run stopped at a condition: no step is half done, none has failed, and
\* the execution was left "running".
Abandoned(w, r) ==
  /\ r.status = "running" /\ Unreadable(w, r) # {}
  /\ \A s \in StepsOf(w) \ Finished(r) : r.steps[s] = "pending"

Init == wf \in Workflows /\ records = {}

Record == /\ records = {}
          /\ \E r \in records' : /\ records' = {r} /\ IsConsistent(wf, r)
                                 /\ IsFinal(wf, r) \/ Abandoned(wf, r)
          /\ UNCHANGED wf

Spec == Init /\ [][Record]_<<wf, records>>
=============================================================================

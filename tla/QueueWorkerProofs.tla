-------------------------- MODULE QueueWorkerProofs -------------------------
(***************************************************************************)
(* Proofs of the safety properties of QueueWorker, for any number of       *)
(* steps, jobs and users who cancel, and any number of faults.             *)
(***************************************************************************)
EXTENDS QueueWorker, TLAPS

USE QueueAssumption DEF IInv, TypeOK, Exec, Row, Session, Ender, Go, Free, Flush,
                        Unfinished, Waiting

\* What transition_step writes keeps the type of the row.
LEMMA RowWritten ==
  ASSUME NEW r \in StepRow, NEW status \in StepStatus, NEW output \in BOOLEAN,
         NEW error \in Errors
  PROVE  /\ [r EXCEPT !.status = status] \in StepRow
         /\ [r EXCEPT !.status = status, !.output = output] \in StepRow
         /\ [r EXCEPT !.status = status, !.error = error] \in StepRow
  BY DEF StepRow

\* A flush of a row of the right type keeps the types of the rows.
LEMMA StepFlushed ==
  ASSUME RowsOK, NEW x \in Session, NEW s \in Step, NEW new \in StepRow,
         Flush(x, s, new), UNCHANGED db
  PROVE  RowsOK'
  BY DEF RowsOK

\* The rows are only read: the first look finds no step that another job runs.
LEMMA LookUpStepKeeps ==
  ASSUME IInv, NEW j \in Job, LookUpStep(j)
  PROVE  IInv'
<1>1. RowsOK' /\ FreshInv' /\ OutputsKept' /\ ContextInv' /\ CleanerInv' /\
     CrashLeavesQueued' /\ ContextHasOutputs' /\ EndedHasNoneWaiting'
  BY DEF RowsOK, FreshInv, OutputsKept, ContextInv, CleanerInv,
     CrashLeavesQueued, ContextHasOutputs, EndedHasNoneWaiting, LookUpStep
<1>2. PcOK'
  BY DEF PcOK, LookUpStep
<1>3. LocalsOK'
  BY DEF RowsOK, LocalsOK, StepRow, LookUpStep, rest
<1>4. LockInv' /\ WaitingInv'
  BY DEF LockInv, WaitingInv, LookUpStep, rest
<1>5. SeenInv'
  BY DEF SeenInv, LookUpStep
<1>6. EndedByInv'
  BY DEF EndedByInv, LookUpStep
<1>7. EnderInv'
  BY DEF EnderInv, LookUpStep, rest
<1> QED
  BY <1>1, <1>2, <1>3, <1>4, <1>5, <1>6, <1>7

\* The context that is kept names steps whose output is committed already.
LEMMA LookUpExecutionKeeps ==
  ASSUME IInv, NEW j \in Job, LookUpExecution(j)
  PROVE  IInv'
<1>1. RowsOK' /\ FreshInv' /\ OutputsKept' /\ ContextInv' /\ CleanerInv' /\
     CrashLeavesQueued' /\ ContextHasOutputs' /\ EndedHasNoneWaiting'
  BY DEF RowsOK, FreshInv, OutputsKept, ContextInv, CleanerInv,
     CrashLeavesQueued, ContextHasOutputs, EndedHasNoneWaiting,
     LookUpExecution
<1>2. PcOK'
  BY DEF PcOK, LookUpExecution
<1>3. LocalsOK'
  <2>1. db[Exec].context \in SUBSET Step
    BY DEF RowsOK, ExecRow
  <2> QED
    BY <2>1 DEF LocalsOK, StepStatus, LookUpExecution, rest, Nothing
<1>4. LockInv' /\ WaitingInv'
  BY DEF LockInv, PcOK, WaitingInv, LookUpExecution, rest
<1>5. SeenInv'
  <2>1. CASE seen' = [seen EXCEPT ![j].context = db[Exec].context]
    BY <2>1 DEF SeenInv, ContextHasOutputs, LocalsOK, LookUpExecution
  <2>2. CASE seen' = [seen EXCEPT ![j] = Nothing]
    BY <2>2 DEF SeenInv, LocalsOK, LookUpExecution, Nothing
  <2> QED
    BY <2>1, <2>2 DEF LookUpExecution
<1>6. EndedByInv'
  BY DEF EndedByInv, PcOK, LookUpExecution
<1>7. EnderInv'
  BY DEF EnderInv, PcOK, LookUpExecution, rest
<1> QED
  BY <1>1, <1>2, <1>3, <1>4, <1>5, <1>6, <1>7

\* The job now holds its step, which is unfinished but in its hands.
LEMMA StartKeeps ==
  ASSUME IInv, NEW j \in Job, Start(j)
  PROVE  IInv'
<1>1. RowsOK'
  <2>1. [row[step_of[j]] EXCEPT !.status = "running"] \in StepRow
    BY RowWritten DEF RowsOK, LocalsOK, StepStatus, Errors
  <2> QED
    BY <2>1, StepFlushed DEF LocalsOK, Start
<1>2. PcOK'
  BY DEF PcOK, Start
<1>3. LocalsOK'
  BY DEF LocalsOK, Start, rest
<1>4. FreshInv'
  BY DEF FreshInv, RowsOK, Start
<1>5. LockInv'
  BY DEF LockInv, RowsOK, LocalsOK, Start, rest
<1>6. WaitingInv'
  BY DEF WaitingInv, PcOK, Start, rest
<1>7. OutputsKept'
  BY DEF OutputsKept, Start
<1>8. SeenInv'
  BY DEF SeenInv, Start
<1>9. ContextInv'
  BY DEF ContextInv, Start
<1>10. EndedByInv'
  BY DEF EndedByInv, Start
<1>11. EnderInv'
  BY DEF EnderInv, Start, rest
<1>12. CleanerInv'
  BY DEF CleanerInv, Start
<1>13. CrashLeavesQueued' /\ ContextHasOutputs' /\ EndedHasNoneWaiting'
  BY DEF CrashLeavesQueued, ContextHasOutputs, EndedHasNoneWaiting, Start
<1> QED
  BY <1>1, <1>2, <1>3, <1>4, <1>5, <1>6, <1>7, <1>8, <1>9, <1>10,
     <1>11, <1>12, <1>13

\* The step is finished in the transaction, and its output is there to merge.
LEMMA ReturnKeeps ==
  ASSUME IInv, NEW j \in Job, Return(j)
  PROVE  IInv'
<1>1. RowsOK'
  <2>1. [row[step_of[j]] EXCEPT !.status = "completed", !.output = TRUE] \in StepRow
    BY RowWritten DEF RowsOK, LocalsOK, StepStatus, Errors
  <2> QED
    BY <2>1, StepFlushed DEF LocalsOK, Return
<1>2. PcOK'
  BY DEF PcOK, Return
<1>3. LocalsOK'
  BY DEF LocalsOK, Return, rest
<1>4. FreshInv'
  BY DEF FreshInv, RowsOK, Return
<1>5. LockInv'
  BY DEF LockInv, RowsOK, LocalsOK, Return, rest
<1>6. WaitingInv'
  BY DEF WaitingInv, RowsOK, Return, rest
<1>7. OutputsKept'
  BY DEF OutputsKept, Return
<1>8. SeenInv'
  BY DEF SeenInv, Return
<1>9. ContextInv'
  BY DEF ContextInv, LocalsOK, Return
<1>10. EndedByInv'
  BY DEF EndedByInv, LocalsOK, Return
<1>11. EnderInv'
  BY DEF EnderInv, Return, rest
<1>12. CleanerInv'
  BY DEF CleanerInv, Return
<1>13. CrashLeavesQueued' /\ ContextHasOutputs' /\ EndedHasNoneWaiting'
  BY DEF CrashLeavesQueued, ContextHasOutputs, EndedHasNoneWaiting, Return
<1> QED
  BY <1>1, <1>2, <1>3, <1>4, <1>5, <1>6, <1>7, <1>8, <1>9, <1>10,
     <1>11, <1>12, <1>13

\* The step is finished in the transaction; an earlier output stays.
LEMMA RaiseKeeps ==
  ASSUME IInv, NEW j \in Job, Raise(j)
  PROVE  IInv'
<1>1. RowsOK'
  <2>1. [row[step_of[j]] EXCEPT !.status = "failed", !.error = "raised"] \in StepRow
    BY RowWritten DEF RowsOK, LocalsOK, StepStatus, Errors
  <2> QED
    BY <2>1, StepFlushed DEF LocalsOK, Raise
<1>2. PcOK'
  BY DEF PcOK, Raise
<1>3. LocalsOK'
  BY DEF LocalsOK, Raise, rest
<1>4. FreshInv'
  BY DEF FreshInv, RowsOK, Raise
<1>5. LockInv'
  BY DEF LockInv, Raise, rest
<1>6. WaitingInv'
  BY DEF WaitingInv, RowsOK, Raise, rest
<1>7. OutputsKept'
  BY DEF OutputsKept, Raise
<1>8. SeenInv'
  BY DEF SeenInv, Raise
<1>9. ContextInv'
  BY DEF ContextInv, Raise
<1>10. EndedByInv'
  BY DEF EndedByInv, LocalsOK, Raise
<1>11. EnderInv'
  BY DEF EnderInv, Raise, rest
<1>12. CleanerInv'
  BY DEF CleanerInv, Raise
<1>13. CrashLeavesQueued' /\ ContextHasOutputs' /\ EndedHasNoneWaiting'
  BY DEF CrashLeavesQueued, ContextHasOutputs, EndedHasNoneWaiting, Raise
<1> QED
  BY <1>1, <1>2, <1>3, <1>4, <1>5, <1>6, <1>7, <1>8, <1>9, <1>10,
     <1>11, <1>12, <1>13

\* The context written is that of some committed state and the step just done.
LEMMA MergeKeeps ==
  ASSUME IInv, NEW j \in Job, Merge(j)
  PROVE  IInv'
<1>1. RowsOK'
  BY DEF RowsOK, LocalsOK, ExecRow, Merge
<1>2. PcOK'
  BY DEF PcOK, Merge
<1>3. LocalsOK'
  BY DEF LocalsOK, Merge, rest
<1>4. FreshInv'
  BY DEF FreshInv, RowsOK, Merge
<1>5. LockInv'
  BY DEF LockInv, RowsOK, LocalsOK, Merge, rest
<1>6. WaitingInv'
  BY DEF WaitingInv, RowsOK, Merge, rest
<1>7. OutputsKept'
  BY DEF OutputsKept, RowsOK, Merge
<1>8. SeenInv'
  BY DEF SeenInv, Merge
<1>9. ContextInv'
  BY DEF ContextInv, SeenInv, LockInv, RowsOK, LocalsOK, ExecRow, Merge
<1>10. EndedByInv'
  BY DEF EndedByInv, RowsOK, ExecRow, Merge
<1>11. EnderInv'
  BY DEF EnderInv, RowsOK, Merge, rest
<1>12. CleanerInv'
  BY DEF CleanerInv, RowsOK, Merge
<1>13. CrashLeavesQueued' /\ ContextHasOutputs' /\ EndedHasNoneWaiting'
  BY DEF CrashLeavesQueued, ContextHasOutputs, EndedHasNoneWaiting, Merge
<1> QED
  BY <1>1, <1>2, <1>3, <1>4, <1>5, <1>6, <1>7, <1>8, <1>9, <1>10,
     <1>11, <1>12, <1>13

\* The check of the execution's status changes nothing.
LEMMA LoadExecutionKeeps ==
  ASSUME IInv, NEW c \in Canceller, LoadExecution(c)
  PROVE  IInv'
<1>1. RowsOK' /\ FreshInv' /\ OutputsKept' /\ ContextInv' /\ CleanerInv' /\
     CrashLeavesQueued' /\ ContextHasOutputs' /\ EndedHasNoneWaiting'
  BY DEF RowsOK, FreshInv, OutputsKept, ContextInv, CleanerInv,
     CrashLeavesQueued, ContextHasOutputs, EndedHasNoneWaiting,
     LoadExecution
<1>2. PcOK'
  BY DEF PcOK, LoadExecution
<1>3. LocalsOK'
  BY DEF LocalsOK, LoadExecution, rest
<1>4. LockInv' /\ WaitingInv'
  BY DEF LockInv, WaitingInv, LoadExecution, rest
<1>5. SeenInv'
  BY DEF SeenInv, LoadExecution
<1>6. EndedByInv'
  BY DEF EndedByInv, LoadExecution
<1>7. EnderInv'
  BY DEF EnderInv, LoadExecution, rest
<1> QED
  BY <1>1, <1>2, <1>3, <1>4, <1>5, <1>6, <1>7

\* Every step that is committed as unfinished is on the list.
LEMMA LoadStepsKeeps ==
  ASSUME IInv, NEW x \in Ender, LoadSteps(x)
  PROVE  IInv'
<1>1. RowsOK' /\ FreshInv' /\ OutputsKept' /\ ContextInv' /\ CleanerInv' /\
     CrashLeavesQueued' /\ ContextHasOutputs' /\ EndedHasNoneWaiting'
  BY DEF RowsOK, FreshInv, OutputsKept, ContextInv, CleanerInv,
     CrashLeavesQueued, ContextHasOutputs, EndedHasNoneWaiting, LoadSteps
<1>2. PcOK'
  BY DEF PcOK, LoadSteps
<1>3. LocalsOK'
  BY DEF LocalsOK, LoadSteps
<1>4. LockInv' /\ WaitingInv'
  BY DEF LockInv, WaitingInv, LoadSteps
<1>5. SeenInv'
  BY DEF SeenInv, LoadSteps
<1>6. EndedByInv'
  BY DEF EndedByInv, LoadSteps
<1>7. EnderInv'
  BY DEF EnderInv, LocalsOK, LoadSteps
<1> QED
  BY <1>1, <1>2, <1>3, <1>4, <1>5, <1>6, <1>7

\* The status is written; the list still has every unfinished step.
LEMMA CancelExecutionKeeps ==
  ASSUME IInv, NEW c \in Canceller, CancelExecution(c)
  PROVE  IInv'
<1>1. RowsOK'
  BY DEF RowsOK, ExecRow, ExecutionStatus, CancelExecution
<1>2. PcOK'
  BY DEF PcOK, CancelExecution
<1>3. LocalsOK'
  BY DEF LocalsOK, CancelExecution, rest
<1>4. FreshInv'
  BY DEF FreshInv, RowsOK, CancelExecution
<1>5. LockInv'
  BY DEF LockInv, CancelExecution, rest
<1>6. WaitingInv'
  BY DEF WaitingInv, CancelExecution, rest
<1>7. OutputsKept'
  BY DEF OutputsKept, CancelExecution
<1>8. SeenInv'
  BY DEF SeenInv, CancelExecution
<1>9. ContextInv'
  BY DEF ContextInv, CancelExecution
<1>10. EndedByInv'
  BY DEF EndedByInv, RowsOK, PcOK, CancelExecution
<1>11. EnderInv'
  BY DEF EnderInv, CancelExecution, rest
<1>12. CleanerInv'
  BY DEF CleanerInv, CancelExecution
<1>13. CrashLeavesQueued' /\ ContextHasOutputs' /\ EndedHasNoneWaiting'
  BY DEF CrashLeavesQueued, ContextHasOutputs, EndedHasNoneWaiting,
     CancelExecution
<1> QED
  BY <1>1, <1>2, <1>3, <1>4, <1>5, <1>6, <1>7, <1>8, <1>9, <1>10,
     <1>11, <1>12, <1>13

\* A step leaves the list when its row is held.
LEMMA SkipStepKeeps ==
  ASSUME IInv, NEW c \in Canceller, SkipStep(c)
  PROVE  IInv'
<1>1. RowsOK'
  <2>1. ASSUME NEW s \in Step PROVE [row[s] EXCEPT !.status = "skipped"] \in StepRow
    BY RowWritten DEF RowsOK, StepStatus, Errors
  <2> QED
    BY <2>1, StepFlushed DEF LocalsOK, SkipStep, Turn
<1>2. PcOK'
  BY DEF PcOK, SkipStep
<1>3. LocalsOK'
  BY DEF LocalsOK, SkipStep
<1>4. FreshInv'
  BY DEF FreshInv, RowsOK, SkipStep
<1>5. LockInv'
  BY DEF LockInv, SkipStep
<1>6. WaitingInv'
  BY DEF WaitingInv, RowsOK, SkipStep
<1>7. OutputsKept'
  BY DEF OutputsKept, SkipStep
<1>8. SeenInv'
  BY DEF SeenInv, SkipStep
<1>9. ContextInv'
  BY DEF ContextInv, SkipStep
<1>10. EndedByInv'
  BY DEF EndedByInv, RowsOK, SkipStep
<1>11. EnderInv'
  BY DEF EnderInv, RowsOK, SkipStep
<1>12. CleanerInv'
  BY DEF CleanerInv, SkipStep
<1>13. CrashLeavesQueued' /\ ContextHasOutputs' /\ EndedHasNoneWaiting'
  BY DEF CrashLeavesQueued, ContextHasOutputs, EndedHasNoneWaiting, SkipStep
<1> QED
  BY <1>1, <1>2, <1>3, <1>4, <1>5, <1>6, <1>7, <1>8, <1>9, <1>10,
     <1>11, <1>12, <1>13

\* Time does not touch the rows.
LEMMA ElapseKeeps ==
  ASSUME IInv, Elapse
  PROVE  IInv'
<1>1. RowsOK' /\ FreshInv' /\ OutputsKept' /\ ContextInv' /\ CleanerInv' /\
     CrashLeavesQueued' /\ ContextHasOutputs' /\ EndedHasNoneWaiting'
  BY DEF RowsOK, FreshInv, OutputsKept, ContextInv, CleanerInv,
     CrashLeavesQueued, ContextHasOutputs, EndedHasNoneWaiting, Elapse
<1>2. PcOK'
  BY DEF PcOK, Elapse
<1>3. LocalsOK'
  BY DEF LocalsOK, Elapse
<1>4. LockInv' /\ WaitingInv'
  BY DEF LockInv, WaitingInv, Elapse
<1>5. SeenInv'
  BY DEF SeenInv, Elapse
<1>6. EndedByInv'
  BY DEF EndedByInv, Elapse
<1>7. EnderInv'
  BY DEF EnderInv, Elapse
<1> QED
  BY <1>1, <1>2, <1>3, <1>4, <1>5, <1>6, <1>7

\* Nor does the cleanup's first SELECT.
LEMMA FindStaleKeeps ==
  ASSUME IInv, FindStale
  PROVE  IInv'
<1>1. RowsOK' /\ FreshInv' /\ OutputsKept' /\ ContextInv' /\ CleanerInv' /\
     CrashLeavesQueued' /\ ContextHasOutputs' /\ EndedHasNoneWaiting'
  BY DEF RowsOK, FreshInv, OutputsKept, ContextInv, CleanerInv,
     CrashLeavesQueued, ContextHasOutputs, EndedHasNoneWaiting, FindStale
<1>2. PcOK'
  BY DEF PcOK, FindStale
<1>3. LocalsOK'
  BY DEF LocalsOK, FindStale, rest
<1>4. LockInv' /\ WaitingInv'
  BY DEF LockInv, WaitingInv, FindStale, rest
<1>5. SeenInv'
  BY DEF SeenInv, FindStale
<1>6. EndedByInv'
  BY DEF EndedByInv, FindStale
<1>7. EnderInv'
  BY DEF EnderInv, FindStale, rest
<1> QED
  BY <1>1, <1>2, <1>3, <1>4, <1>5, <1>6, <1>7

\* The status is written, and the list is yet to be made.
LEMMA FailExecutionKeeps ==
  ASSUME IInv, FailExecution
  PROVE  IInv'
<1>1. RowsOK'
  BY DEF RowsOK, ExecRow, ExecutionStatus, FailExecution
<1>2. PcOK'
  BY DEF PcOK, FailExecution
<1>3. LocalsOK'
  BY DEF LocalsOK, FailExecution, rest
<1>4. FreshInv'
  BY DEF FreshInv, RowsOK, FailExecution
<1>5. LockInv'
  BY DEF LockInv, FailExecution, rest
<1>6. WaitingInv'
  BY DEF WaitingInv, FailExecution, rest
<1>7. OutputsKept'
  BY DEF OutputsKept, FailExecution
<1>8. SeenInv'
  BY DEF SeenInv, FailExecution
<1>9. ContextInv'
  BY DEF ContextInv, FailExecution
<1>10. EndedByInv'
  BY DEF EndedByInv, RowsOK, PcOK, FailExecution
<1>11. EnderInv'
  BY DEF EnderInv, FailExecution, rest
<1>12. CleanerInv'
  BY DEF CleanerInv, FailExecution
<1>13. CrashLeavesQueued' /\ ContextHasOutputs' /\ EndedHasNoneWaiting'
  BY DEF CrashLeavesQueued, ContextHasOutputs, EndedHasNoneWaiting,
     FailExecution
<1> QED
  BY <1>1, <1>2, <1>3, <1>4, <1>5, <1>6, <1>7, <1>8, <1>9, <1>10,
     <1>11, <1>12, <1>13

\* A step leaves the list when its row is held, unwritten if it was finished.
LEMMA FailStepKeeps ==
  ASSUME IInv, FailStep
  PROVE  IInv'
<1>1. RowsOK'
  <2>1. ASSUME NEW s \in Step
        PROVE  /\ row[s] \in StepRow
               /\ [row[s] EXCEPT !.status = "failed", !.error = "stale"] \in StepRow
    BY RowWritten DEF RowsOK, StepStatus, Errors
  <2> QED
    BY <2>1, StepFlushed DEF LocalsOK, FailStep, Turn
<1>2. PcOK'
  BY DEF PcOK, FailStep
<1>3. LocalsOK'
  BY DEF LocalsOK, FailStep
<1>4. FreshInv'
  BY DEF FreshInv, RowsOK, FailStep
<1>5. LockInv'
  BY DEF LockInv, FailStep
<1>6. WaitingInv'
  BY DEF WaitingInv, RowsOK, FailStep
<1>7. OutputsKept'
  BY DEF OutputsKept, FailStep
<1>8. SeenInv'
  BY DEF SeenInv, FailStep
<1>9. ContextInv'
  BY DEF ContextInv, FailStep
<1>10. EndedByInv'
  BY DEF EndedByInv, RowsOK, FailStep
<1>11. EnderInv'
  BY DEF EnderInv, RowsOK, FailStep
<1>12. CleanerInv'
  BY DEF CleanerInv, FreshInv, FailStep
<1>13. CrashLeavesQueued' /\ ContextHasOutputs' /\ EndedHasNoneWaiting'
  BY DEF CrashLeavesQueued, ContextHasOutputs, EndedHasNoneWaiting, FailStep
<1> QED
  BY <1>1, <1>2, <1>3, <1>4, <1>5, <1>6, <1>7, <1>8, <1>9, <1>10,
     <1>11, <1>12, <1>13

\* What is published has no unfinished step, all outputs, and, from a session that
\* ends the execution, an empty list.
LEMMA CommitKeeps ==
  ASSUME IInv, NEW x \in Session, Commit(x)
  PROVE  IInv'
<1>1. RowsOK'
  BY DEF RowsOK, Commit, Publish, Release
<1>2. PcOK'
  BY DEF PcOK, Commit, After
<1>3. LocalsOK'
  BY DEF LocalsOK, StepStatus, Commit, Close, Nothing
<1>4. FreshInv'
  BY DEF FreshInv, Commit, Publish, Release, Held
<1>5. LockInv'
  BY DEF LockInv, PcOK, LocalsOK, Commit, Publish, Release, After
<1>6. WaitingInv'
  BY DEF WaitingInv, Commit, Publish, Release
<1>7. OutputsKept'
  BY DEF OutputsKept, Commit, Publish
<1>8. SeenInv'
  BY DEF SeenInv, OutputsKept, LocalsOK, Commit, Publish, Close, Nothing
<1>9. ContextInv'
  BY DEF ContextInv, OutputsKept, RowsOK, ExecRow, Commit, Publish, Release,
     Held
<1>10. EndedByInv'
  BY DEF EndedByInv, Commit, Publish, Release, Held
<1>11. EnderInv'
  BY DEF EnderInv, WaitingInv, LocalsOK, Commit, Publish, Release, Held,
     After, Close
<1>12. CleanerInv'
  BY DEF CleanerInv, Commit, Publish, Release
<1>13. CrashLeavesQueued'
  BY DEF CrashLeavesQueued, WaitingInv, Commit, Publish, Held
<1>14. ContextHasOutputs'
  BY DEF ContextHasOutputs, OutputsKept, ContextInv, RowsOK, ExecRow,
     Commit, Publish, Held
<1>15. EndedHasNoneWaiting'
  BY DEF EndedHasNoneWaiting, EndedByInv, EnderInv, WaitingInv, Commit,
     Publish, Held
<1> QED
  BY <1>1, <1>2, <1>3, <1>4, <1>5, <1>6, <1>7, <1>8, <1>9, <1>10,
     <1>11, <1>12, <1>13, <1>14, <1>15

\* The rows held go back to what is committed.
LEMMA AbortKeeps ==
  ASSUME IInv, NEW x \in Session, Abort(x), faults' \in 0..MaxFaults
  PROVE  IInv'
<1>1. RowsOK'
  BY DEF RowsOK, Abort, Undo, Release
<1>2. PcOK'
  BY DEF PcOK, Abort, After
<1>3. LocalsOK'
  BY DEF LocalsOK, StepStatus, Abort, Close, Nothing
<1>4. FreshInv'
  BY DEF FreshInv, Abort, Undo, Release
<1>5. LockInv'
  BY DEF LockInv, PcOK, LocalsOK, Abort, Undo, Release, After
<1>6. WaitingInv'
  BY DEF WaitingInv, Abort, Undo, Release
<1>7. OutputsKept'
  BY DEF OutputsKept, Abort, Undo
<1>8. SeenInv'
  BY DEF SeenInv, Abort, Undo, Close, Nothing
<1>9. ContextInv'
  BY DEF ContextInv, ContextHasOutputs, RowsOK, ExecRow, Abort, Undo,
     Release
<1>10. EndedByInv'
  BY DEF EndedByInv, Abort, Undo, Release
<1>11. EnderInv'
  BY DEF EnderInv, PcOK, LocalsOK, Abort, Undo, Release, After, Close
<1>12. CleanerInv'
  BY DEF CleanerInv, Abort, Undo, Release
<1>13. CrashLeavesQueued'
  BY DEF CrashLeavesQueued, Abort, Undo
<1>14. ContextHasOutputs'
  BY DEF ContextHasOutputs, Abort, Undo
<1>15. EndedHasNoneWaiting'
  BY DEF EndedHasNoneWaiting, Abort, Undo
<1> QED
  BY <1>1, <1>2, <1>3, <1>4, <1>5, <1>6, <1>7, <1>8, <1>9, <1>10,
     <1>11, <1>12, <1>13, <1>14, <1>15

\* A job that finds its connection lost ends.
LEMMA FindConnectionLostKeeps ==
  ASSUME IInv, NEW j \in Job, FindConnectionLost(j)
  PROVE  IInv'
<1>1. Abort(j) /\ faults' \in 0..MaxFaults
  BY DEF FindConnectionLost, LocalsOK
<1> QED
  BY <1>1, AbortKeeps

\* So do those of a job whose connection is lost in a call of its executor, and
\* the job goes on without them.
LEMMA LoseConnectionInCallKeeps ==
  ASSUME IInv, NEW j \in Job, LoseConnectionInCall(j)
  PROVE  IInv'
<1>1. RowsOK'
  BY DEF RowsOK, LoseConnectionInCall, Undo, Release
<1>2. PcOK'
  BY DEF PcOK, LoseConnectionInCall
<1>3. LocalsOK'
  BY DEF LocalsOK, LoseConnectionInCall
<1>4. FreshInv'
  BY DEF FreshInv, LoseConnectionInCall, Undo, Release
<1>5. LockInv'
  BY DEF LockInv, PcOK, LocalsOK, LoseConnectionInCall, Undo, Release
<1>6. WaitingInv'
  BY DEF WaitingInv, LoseConnectionInCall, Undo, Release
<1>7. OutputsKept'
  BY DEF OutputsKept, LoseConnectionInCall, Undo
<1>8. SeenInv'
  BY DEF SeenInv, LoseConnectionInCall, Undo
<1>9. ContextInv'
  BY DEF ContextInv, ContextHasOutputs, RowsOK, ExecRow, LoseConnectionInCall, Undo,
     Release
<1>10. EndedByInv'
  BY DEF EndedByInv, LoseConnectionInCall, Undo, Release
<1>11. EnderInv'
  BY DEF EnderInv, PcOK, LocalsOK, LoseConnectionInCall, Undo, Release
<1>12. CleanerInv'
  BY DEF CleanerInv, LoseConnectionInCall, Undo, Release
<1>13. CrashLeavesQueued' /\ ContextHasOutputs' /\ EndedHasNoneWaiting'
  BY DEF CrashLeavesQueued, ContextHasOutputs, EndedHasNoneWaiting,
     LoseConnectionInCall, Undo
<1> QED
  BY <1>1, <1>2, <1>3, <1>4, <1>5, <1>6, <1>7, <1>8, <1>9, <1>10,
     <1>11, <1>12, <1>13

\* So do those of all jobs of a worker that stops.
LEMMA CrashKeeps ==
  ASSUME IInv, NEW js \in SUBSET Job, Crash(js)
  PROVE  IInv'
<1>1. RowsOK'
  BY DEF RowsOK, Crash, Undo, Release
<1>2. PcOK'
  BY DEF PcOK, Crash
<1>3. LocalsOK'
  BY DEF LocalsOK, StepStatus, Crash, Close, Nothing
<1>4. FreshInv'
  BY DEF FreshInv, Crash, Undo, Release
<1>5. LockInv'
  BY DEF LockInv, LocalsOK, Crash, Undo, Release
<1>6. WaitingInv'
  BY DEF WaitingInv, Crash, Undo, Release
<1>7. OutputsKept'
  BY DEF OutputsKept, Crash, Undo
<1>8. SeenInv'
  BY DEF SeenInv, Crash, Undo, Close, Nothing
<1>9. ContextInv'
  BY DEF ContextInv, ContextHasOutputs, RowsOK, ExecRow, Crash, Undo,
     Release
<1>10. EndedByInv'
  BY DEF EndedByInv, Crash, Undo, Release
<1>11. EnderInv'
  BY DEF EnderInv, LocalsOK, Crash, Undo, Release, Close
<1>12. CleanerInv'
  BY DEF CleanerInv, Crash, Undo, Release
<1>13. CrashLeavesQueued'
  BY DEF CrashLeavesQueued, Crash, Undo
<1>14. ContextHasOutputs'
  BY DEF ContextHasOutputs, Crash, Undo
<1>15. EndedHasNoneWaiting'
  BY DEF EndedHasNoneWaiting, Crash, Undo
<1> QED
  BY <1>1, <1>2, <1>3, <1>4, <1>5, <1>6, <1>7, <1>8, <1>9, <1>10,
     <1>11, <1>12, <1>13, <1>14, <1>15

\* An execution committed as running, its steps queued, nothing held.
LEMMA InitIInv == Init => IInv
<1> SUFFICES ASSUME Init PROVE IInv
  OBVIOUS
<1>1. RowsOK
  BY DEF Init, RowsOK, ExecRow, StepRow, Errors, ExecutionStatus, StepStatus
<1>2. PcOK /\ LocalsOK
  <2>1. PcOK
    BY DEF Init, PcOK
  <2>2. seen \in [Job -> [status : StepStatus, context : SUBSET Step]]
    BY DEF Init, Nothing, StepStatus
  <2>3. todo \in [Ender -> SUBSET Step] /\ faults \in 0..MaxFaults
    BY DEF Init
  <2> QED
    BY <2>1, <2>2, <2>3 DEF Init, LocalsOK
<1>3. FreshInv /\ LockInv /\ WaitingInv /\ CleanerInv /\ CrashLeavesQueued
  BY DEF Init, FreshInv, LockInv, WaitingInv, CleanerInv, CrashLeavesQueued
<1>4. OutputsKept /\ SeenInv /\ ContextInv /\ ContextHasOutputs
  BY DEF Init, OutputsKept, SeenInv, ContextInv, ContextHasOutputs, Nothing
<1>5. EndedByInv /\ EnderInv /\ EndedHasNoneWaiting
  BY DEF Init, EndedByInv, EnderInv, EndedHasNoneWaiting
<1> QED
  BY <1>1, <1>2, <1>3, <1>4, <1>5

\* Every action of Next keeps the invariant.
LEMMA NextKeepsIInv == IInv /\ [Next]_vars => IInv'
<1> SUFFICES ASSUME IInv, [Next]_vars PROVE IInv'
  OBVIOUS
<1>1. ASSUME NEW x \in Session, Update(x) PROVE IInv'
  BY <1>1, StartKeeps, MergeKeeps, CancelExecutionKeeps,
     SkipStepKeeps, FailExecutionKeeps, FailStepKeeps DEF Update
<1>2. ASSUME NEW x \in Session, Proceed(x) PROVE IInv'
  BY <1>2, LookUpStepKeeps, LookUpExecutionKeeps, ReturnKeeps, RaiseKeeps,
     LoadStepsKeeps, FindStaleKeeps, CommitKeeps, FindConnectionLostKeeps DEF Proceed
<1>3. ASSUME NEW x \in Session, Deadlock(x) PROVE IInv'
  <2>1. Abort(x) /\ faults' \in 0..MaxFaults
    BY <1>3 DEF Deadlock, LocalsOK
  <2> QED
    BY <2>1, AbortKeeps
<1>4. ASSUME NEW x \in Session, LoseConnection(x) PROVE IInv'
  <2>1. Abort(x) /\ faults' \in 0..MaxFaults
    BY <1>4 DEF LoseConnection, LocalsOK
  <2> QED
    BY <2>1, AbortKeeps
<1>9. ASSUME NEW j \in Job, TimeOut(j) PROVE IInv'
  <2>1. Abort(j) /\ faults' \in 0..MaxFaults
    BY <1>9 DEF TimeOut, LocalsOK
  <2> QED
    BY <2>1, AbortKeeps
<1>10. ASSUME NEW j \in Job, LoseConnectionInCall(j) PROVE IInv'
  BY <1>10, LoseConnectionInCallKeeps
<1>5. ASSUME NEW c \in Canceller, LoadExecution(c) PROVE IInv'
  BY <1>5, LoadExecutionKeeps
<1>6. ASSUME NEW js \in SUBSET Job, Crash(js) PROVE IInv'
  BY <1>6, CrashKeeps
<1>7. CASE Elapse
  BY <1>7, ElapseKeeps
<1>8. CASE UNCHANGED vars
  <2>1. RowsOK' /\ PcOK' /\ LocalsOK'
    BY <1>8 DEF vars, RowsOK, PcOK, LocalsOK
  <2>2. FreshInv' /\ LockInv' /\ WaitingInv' /\ CleanerInv' /\ CrashLeavesQueued'
    BY <1>8 DEF vars, FreshInv, LockInv, WaitingInv, CleanerInv, CrashLeavesQueued
  <2>3. OutputsKept' /\ SeenInv' /\ ContextInv' /\ ContextHasOutputs'
    BY <1>8 DEF vars, OutputsKept, SeenInv, ContextInv, ContextHasOutputs
  <2>4. EndedByInv' /\ EnderInv' /\ EndedHasNoneWaiting'
    BY <1>8 DEF vars, EndedByInv, EnderInv, EndedHasNoneWaiting
  <2> QED
    BY <2>1, <2>2, <2>3, <2>4
<1> QED
  BY <1>1, <1>2, <1>3, <1>4, <1>5, <1>6, <1>7, <1>8, <1>9, <1>10 DEF Next

\* In every reachable state a held row belongs to a transaction at a known
\* place, and an uncommitted row is as that place says; a job that has lost its
\* connection holds none.
THEOREM Invariance == Spec => []IInv
  BY InitIInv, NextKeepsIInv, PTL DEF Spec
-----------------------------------------------------------------------------
\* Every row, every local variable of a session keeps its type.
THEOREM TypeCorrect == Spec => []TypeOK
<1>1. IInv => TypeOK
  OBVIOUS
<1> QED
  BY <1>1, Invariance, PTL

\* What execute_step has committed is never running: the transition to running is
\* published only together with the transition out of it.
THEOREM NeverCommittedRunning == Spec => []CrashLeavesQueued
<1>1. IInv => CrashLeavesQueued
  OBVIOUS
<1> QED
  BY <1>1, Invariance, PTL

\* Of two jobs that call the executor of one step together one has lost its
\* connection, and with it the step's row: both of them would hold it otherwise.
THEOREM CallsOfAStepAreSerial == Spec => []OneCallAtATime
<1>1. IInv => OneCallAtATime
  BY DEF LockInv, OneCallAtATime, Calling
<1> QED
  BY <1>1, Invariance, PTL

\* The committed context names only steps with a committed output, though
\* merge_step_output writes contexts that were read long before.
THEOREM ContextIsRecorded == Spec => []ContextHasOutputs
<1>1. IInv => ContextHasOutputs
  OBVIOUS
<1> QED
  BY <1>1, Invariance, PTL

\* Whoever ends an execution, cancel or cleanup, leaves no step waiting, and no
\* worker that was late brings one back.
THEOREM NoneIsLeftWaiting == Spec => []EndedHasNoneWaiting
<1>1. IInv => EndedHasNoneWaiting
  OBVIOUS
<1> QED
  BY <1>1, Invariance, PTL

\* The commit of the cleanup changes no step that was finished.
LEMMA CleanupStep ==
  IInv /\ [Next]_vars =>
    [pc[Cleaner] = "steps" /\ pc'[Cleaner] = "idle" =>
       \A s \in Step : ~Unfinished(db[s]) => db'[s] = db[s]]_vars
<1> SUFFICES ASSUME IInv, Next, NEW s \in Step, ~Unfinished(db[s]),
                    pc[Cleaner] = "steps", pc'[Cleaner] = "idle"
             PROVE  db'[s] = db[s]
  OBVIOUS
<1>1. ASSUME NEW x \in Session, Commit(x) PROVE db'[s] = db[s]
  BY <1>1 DEF Commit, After, Publish, Held, CleanerInv, PcOK, RowsOK
<1>2. CASE UNCHANGED db
  BY <1>2
<1>3. ASSUME NEW x \in Session, Update(x) PROVE UNCHANGED db
  BY <1>3 DEF Update, Start, Merge, CancelExecution, SkipStep, FailExecution, FailStep
<1>4. ASSUME NEW x \in Session, Proceed(x), ~Commit(x) PROVE UNCHANGED db
  BY <1>4 DEF Proceed, LookUpStep, LookUpExecution, Return, Raise, LoadSteps, FindStale,
       FindConnectionLost, Abort, Undo
<1>5. ASSUME NEW x \in Session, Abort(x) PROVE UNCHANGED db
  BY <1>5 DEF Abort, Undo
<1>6. ASSUME NEW j \in Job, LoseConnectionInCall(j) PROVE UNCHANGED db
  BY <1>6 DEF LoseConnectionInCall, Undo
<1> QED
  BY <1>1, <1>2, <1>3, <1>4, <1>5, <1>6
     DEF Next, Deadlock, LoseConnection, TimeOut, LoadExecution, Crash, Undo, Elapse

\* The cleanup overwrites no finished step.
THEOREM CleanupIsCareful == Spec => CleanupKeepsFinished
  BY Invariance, CleanupStep, PTL DEF Spec, CleanupKeepsFinished
=============================================================================

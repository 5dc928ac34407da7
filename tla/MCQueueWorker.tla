---------------------------- MODULE MCQueueWorker ---------------------------
(***************************************************************************)
(* Two steps, and two jobs for whichever of them.                          *)
(***************************************************************************)
EXTENDS QueueWorker

CONSTANTS s1, s2

TwoSteps == <<s1, s2>>
=============================================================================

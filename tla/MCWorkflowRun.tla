--------------------------- MODULE MCWorkflowRun ---------------------------
(***************************************************************************)
(* Small instances of WorkflowRun.                                         *)
(***************************************************************************)
EXTENDS WorkflowRun

CONSTANTS r1

OneRun  == {r1}
NoRun   == {}
=============================================================================

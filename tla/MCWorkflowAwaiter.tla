------------------------- MODULE MCWorkflowAwaiter -------------------------
(* Values of the constants of WorkflowAwaiter for model checking. *)
EXTENDS WorkflowAwaiter

CONSTANTS f1, f2

TwoFiles == {f1, f2}
=============================================================================

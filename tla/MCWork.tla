------------------------------- MODULE MCWork -------------------------------
(***************************************************************************)
(* Callers for the instance of the work queues.                            *)
(***************************************************************************)
EXTENDS RhinoWork, TLC

CONSTANTS c1, c2

\* One task runs and cancels works while the other deletes queues.
CallsOf == c1 :> {"run", "cancel"} @@ c2 :> {"del"}
=============================================================================

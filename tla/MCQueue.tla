------------------------------ MODULE MCQueue -------------------------------
(***************************************************************************)
(* Receivers, message sizes and queues for the instance of the queues.     *)
(***************************************************************************)
EXTENDS RhinoQueue, TLC

CONSTANTS t1, t2

Priorities == t1 :> 1 @@ t2 :> 2
Bytes(m) == 2 + (m % 2)
Queues == {[buf |-> FALSE, front |-> FALSE, all |-> FALSE], [buf |-> FALSE, front |-> TRUE, all |-> TRUE],
           [buf |-> TRUE, front |-> FALSE, all |-> FALSE]}
=============================================================================

------------------------------ MODULE MCKernel ------------------------------
(***************************************************************************)
(* Instances of the kernel for TLC: two or three application tasks and the *)
(* idle task.                                                              *)
(***************************************************************************)
EXTENDS RhinoInductive, TLC

CONSTANTS idle, high, mid, low, m1, m2

\* The mutexes are interchangeable: no definition tells them apart.
MutexSymmetry == Permutations({m1, m2})

\* priorities: high above mid above low
MCTasks == {idle, low, mid, high}
MCReady == (0 :> <<high>>) @@ (1 :> <<mid>>) @@ (2 :> <<low>>) @@ (3 :> <<idle>>)
MCPrio == (idle :> 3) @@ (low :> 2) @@ (mid :> 1) @@ (high :> 0)

\* mid and low share a priority
MCPrioShared == (idle :> 2) @@ (low :> 1) @@ (mid :> 1) @@ (high :> 0)
MCReadyShared == (0 :> <<high>>) @@ (1 :> <<low, mid>>) @@ (2 :> <<idle>>)

\* one application task below another
MCTasks3 == {idle, mid, high}
MCReady3 == (0 :> <<high>>) @@ (1 :> <<mid>>) @@ (2 :> <<>>) @@ (3 :> <<idle>>)
MCPrio3 == (idle :> 3) @@ (mid :> 1) @@ (high :> 0)
=============================================================================

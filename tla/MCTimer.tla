------------------------------ MODULE MCTimer -------------------------------
(***************************************************************************)
(* Applications for the instance of the software timers.                   *)
(***************************************************************************)
EXTENDS RhinoTimer, TLC

CONSTANTS t1, t2, t3

\* Two timers of any kind, and three of which one fires once and the others again
Two == (t1 :> Delays \X {0, 2}) @@ (t2 :> {<<1, 0>>, <<2, 2>>}) @@ (t3 :> {})
Three == (t1 :> {<<1, 0>>}) @@ (t2 :> {<<1, 1>>}) @@ (t3 :> {<<2, 2>>})

Applications ==
    {[cmds |-> {"START", "STOP"}, timers |-> Two, punctual |-> FALSE],
     [cmds |-> {"AUTO", "DEL"}, timers |-> Two, punctual |-> FALSE],
     [cmds |-> {"START", "STOP", "CHG"}, timers |-> Two, punctual |-> TRUE],
     [cmds |-> {"START"}, timers |-> Three, punctual |-> FALSE]}
=============================================================================

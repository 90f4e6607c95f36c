-------------------------------- MODULE KvMap -------------------------------
(***************************************************************************)
(* What the key-value store promises to its clients: a map from keys to    *)
(* values that survives power loss.  A call takes effect at one moment     *)
(* between its start and its return; when power fails it has taken effect  *)
(* or has not.                                                             *)
(***************************************************************************)
CONSTANTS Keys, Vals, Clients, NONE

VARIABLES kv,   \* the value of each key, NONE when it has none
          call, \* the call each client is in, and whether it has taken effect
          ret   \* what the last call of each client returned

Calls == [op : {"set"}, key : Keys, val : Vals, done : {FALSE}]
           \cup [op : {"get", "del"}, key : Keys, val : {NONE}, done : {FALSE}]

Init == /\ kv = [k \in Keys |-> NONE]
        /\ call = [c \in Clients |-> NONE] /\ ret = [c \in Clients |-> NONE]

Start(c) == /\ call[c] = NONE /\ \E r \in Calls : call' = [call EXCEPT ![c] = r]
            /\ ret' = [ret EXCEPT ![c] = NONE] /\ UNCHANGED kv

\* The value of the key changes to that of the call, NONE for a deletion.
Effect(c) == /\ call[c] # NONE /\ call[c].op # "get" /\ ~call[c].done
             /\ call' = [call EXCEPT ![c].done = TRUE] /\ UNCHANGED ret
             /\ kv' = [kv EXCEPT ![call[c].key] = call[c].val]

\* A call that has had no effect returns an error, or the map is already what
\* the call would make it; a value returned is the value of the key.
Result(c) == LET r == call[c]
                 now == kv[r.key]
             IN  IF r.done THEN {"OK"}
                 ELSE CASE r.op = "set" -> {"NO_SPACE"} \cup (IF now = r.val THEN {"OK"} ELSE {})
                        [] r.op = "del" -> IF now = NONE THEN {"NOT_FOUND"} ELSE {}
                        [] r.op = "get" -> {IF now = NONE THEN "NOT_FOUND" ELSE now}

Finish(c) == /\ call[c] # NONE /\ call' = [call EXCEPT ![c] = NONE]
             /\ \E r \in Result(c) : ret' = [ret EXCEPT ![c] = r]
             /\ UNCHANGED kv

Restart == /\ call' = [c \in Clients |-> NONE] /\ ret' = [c \in Clients |-> NONE]
           /\ UNCHANGED kv

Next == (\E c \in Clients : Start(c) \/ Effect(c) \/ Finish(c)) \/ Restart

Spec == Init /\ [][Next]_<<kv, call, ret>>
=============================================================================

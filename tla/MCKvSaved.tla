------------------------------ MODULE MCKvSaved -----------------------------
(***************************************************************************)
(* The key-value store with a history of the values that were saved.       *)
(***************************************************************************)
EXTENDS KvStore

VARIABLE saved  \* the value of a key whose last aos_kv_set or aos_kv_del has returned

Sym == Permutations(Keys) \cup Permutations(Vals)

Ended(c) == pc[c] # "idle" /\ pc'[c] = "idle" /\ ret'[c] = "OK"
SavedNext == saved' = [k \in Keys |->
    IF \E c \in Clients : pc[c] = "idle" /\ req'[c].key = k /\ req'[c].op # "get" THEN NONE
    ELSE IF \E c \in Clients : Ended(c) /\ req[c].key = k /\ req[c].op = "set"
    THEN req[CHOOSE c \in Clients : Ended(c) /\ req[c].key = k].val
    ELSE saved[k]]

SavedInit == Init /\ saved = [k \in Keys |-> NONE]
SavedSpec == SavedInit /\ [][Next /\ SavedNext]_<<vars, saved>>

\* A value for which aos_kv_set has returned 0 is in flash: aos_kv_get finds it
\* after every loss of power, until the key is set or deleted again.
SavedSurvives ==
    Up /\ kv_mutex = NONE => \A k \in Keys :
        saved[k] # NONE => KvItemGet(k) # NoPos /\ At(flash, KvItemGet(k)).val = saved[k]
=============================================================================

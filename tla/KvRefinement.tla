---------------------------- MODULE KvRefinement ----------------------------
(***************************************************************************)
(* The store on flash implements the map that survives power loss, unless  *)
(* power fails in a collection or aos_malloc does.                         *)
(***************************************************************************)
EXTENDS KvStore

\* The block that kv_init would format if power failed now
Discarded == LET clean == {b \in Blocks : flash[b].state = "CLEAN"}
             IN  IF \E b \in Blocks : Used(flash, b) = 0 THEN {}
                 ELSE {IF clean = {} THEN 0 ELSE Max(clean)}

\* The items of a key that kv_init would keep: of an item and the one it
\* replaces, the new one, and the one it meets first when each is the origin of
\* the other.
Before(p, q) == p[1] < q[1] \/ (p[1] = q[1] /\ p[2] < q[2])
Kept(k) ==
    LET D == Discarded
        V == {p \in Positions : /\ Normal(flash, p) /\ At(flash, p).key = k /\ At(flash, p).crc
                                /\ p[1] \notin D}
        Removes(q, p) == q # p /\ At(flash, q).origin = p
    IN  {p \in V : \A q \in V : Removes(q, p) => Removes(p, q) /\ Before(p, q)}

\* What the store holds for a key: what kv_item_get finds while the collector
\* copies, and otherwise what a restart would find
ValueAt(p) == IF p = NoPos THEN NONE ELSE At(flash, p).val
Value(k) == IF gc.pc = "copy" THEN ValueAt(KvItemGet(k))
            ELSE LET K == Kept(k) IN IF K = {} THEN NONE ELSE ValueAt(CHOOSE p \in K : TRUE)

\* Only these faults are promised to do no harm: for a device with others the
\* map below stays empty.
Promised == faults \subseteq {"op", "boot"}

Map == INSTANCE KvMap WITH
    kv   <- [k \in Keys |-> IF Promised THEN Value(k) ELSE NONE],
    ret  <- [c \in Clients |-> IF Promised THEN ret[c] ELSE NONE],
    call <- [c \in Clients |-> IF pc[c] = "idle" \/ ~Promised THEN NONE
                ELSE [op |-> req[c].op, key |-> req[c].key, val |-> req[c].val,
                      done |-> pc[c] = "exit" \/ (pc[c] = "del" /\ req[c].op = "set" /\ Value(req[c].key) = req[c].val)]]

\* Every step of the store on flash is a step of the map or leaves it alone: a
\* call takes effect once, a get returns the value of its key, and a loss of
\* power in a call or in aos_kv_init leaves every other key as it was, and the
\* key of an interrupted call with its old or its new value.
ImplementsMap == Map!Spec
=============================================================================

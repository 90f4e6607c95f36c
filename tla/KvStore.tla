------------------------------ MODULE KvStore -------------------------------
(***************************************************************************)
(* The key-value store of kvmgr.c on its two flash blocks: aos_kv_set,     *)
(* aos_kv_get and aos_kv_del called from several tasks, the garbage        *)
(* collector task aos_kv_gc, power loss, and the recovery that aos_kv_init *)
(* makes after it.  Every flash write is a step of its own, so that power  *)
(* can fail between any two of them.                                       *)
(*                                                                         *)
(* All items have the length ITEM_MAX_LEN, so that a position in flash is  *)
(* a pair <<block, slot>>, write_pos is the next free slot, and the space  *)
(* of a block is counted in slots.  The project is built with              *)
(* CONFIG_AOS_KV_BUFFER_SIZE=8192, which makes two blocks of BLK_SIZE and  *)
(* compiles out the search for another block in kv_item_calc_pos.  The     *)
(* flash driver does not fail, the buffer given to aos_kv_get is large     *)
(* enough, and aos_malloc fails only while the collector copies.           *)
(***************************************************************************)
EXTENDS Integers, FiniteSets, SequencesExt

CONSTANTS Keys, Vals, Clients, NONE,
          SLOTS,        \* items that fit in a block
          Faults,       \* the sets of faults to consider: power loss in an operation ("op"), in a
                        \* collection ("gc") or in a recovery ("boot"), a failing aos_malloc ("malloc")
          LEAVING_MAX,  \* collectors that have let go of the mutex and have not signalled yet
          SEM_MAX,      \* signals nobody waited for that the semaphore counts
          WAITER_MODULUS \* gc_waiter is a uint8_t: 256 in the code

Blocks == {0, 1}
BLK_NUMS == 2
KV_GC_RESERVED == 1
NoPos == <<0, 0>>
Positions == Blocks \X (1..SLOTS)

ASSUME KvAssumption ==
    /\ SLOTS \in Nat \ {0} /\ LEAVING_MAX \in Nat \ {0} /\ SEM_MAX \in Nat \ {0} /\ WAITER_MODULUS \in Nat \ {0}
    /\ Faults \subseteq SUBSET {"op", "gc", "boot", "malloc"} /\ NONE \notin Keys \cup Vals \cup Clients \cup Blocks

VARIABLES
    flash,          \* per block: the state in its header, and its items
    block_info,     \* per block: the state and the number of slots taken, in RAM
    write_pos, clean_blk_nums, gc_triggered, gc_waiter, gc_sem,
    kv_mutex,       \* the task that holds it: a client, "gc" or NONE
    pc, req, ret,   \* per client: where it is in its call, the call, and the result
    gc,             \* the collector task: where it is, the block it empties, the next item,
                    \* and how many earlier collectors have still to signal
    boot,           \* aos_kv_init: where it is, the block and the item it looks at
    faults          \* what may fail; it never changes

ram == <<block_info, write_pos, clean_blk_nums>>
sync == <<gc_triggered, gc_waiter, gc_sem>>
calls == <<pc, req, ret>>
vars == <<flash, ram, sync, kv_mutex, calls, gc, boot, faults>>

Requests == [op : {"set"}, key : Keys, val : Vals, old : {NoPos}, seen : {0}]
              \cup [op : {"get", "del"}, key : Keys, val : {NONE}, old : {NoPos}, seen : {0}]
NoReq == [op |-> "none", key |-> NONE, val |-> NONE, old |-> NoPos, seen |-> 0]
GcOff == [pc |-> "off", src |-> 0, item |-> 1, leaving |-> 0]
BootAt(p, b, i) == [pc |-> p, blk |-> b, item |-> i, mark |-> NONE]

-----------------------------------------------------------------------------
(* Flash.  A slot holds a valid item, or Invalid: a deleted item or one     *)
(* whose header is not valid, which the code skips alike.                   *)

Item(k, v, o) == [state |-> "NORMAL", key |-> k, val |-> v, crc |-> TRUE, origin |-> o]
Invalid == [state |-> "DELETE", key |-> NONE, val |-> NONE, crc |-> FALSE, origin |-> NoPos]
Erased == [state |-> "erased", items |-> <<>>]

Used(f, b) == Len(f[b].items)
At(f, p) == f[p[1]].items[p[2]]
Normal(f, p) == p[1] \in Blocks /\ p[2] \in 1..Used(f, p[1]) /\ At(f, p).state = "NORMAL"

\* kv_state_set on an item and on a block
ItemDeleted(f, p) == [f EXCEPT ![p[1]].items[p[2]] = Invalid]
BlockSet(f, b, s) == [f EXCEPT ![b].state = s]
Format(f, b) == [f EXCEPT ![b] = [state |-> "CLEAN", items |-> <<>>]]

\* raw_write of an item at write_pos
Written(f, p, x) == [f EXCEPT ![p[1]].items = [i \in 1..(IF p[2] > Len(@) THEN p[2] ELSE Len(@)) |->
    IF i = p[2] THEN x ELSE IF i <= Len(@) THEN @[i] ELSE Invalid]]

\* kv_item_get: the first valid item of the key in the blocks that are not clean
Found(f, clean, k) ==
    LET P == {p \in Positions : p[1] \notin clean /\ Normal(f, p) /\ At(f, p).key = k}
        First(p) == \A q \in P : p[1] < q[1] \/ (p[1] = q[1] /\ p[2] <= q[2])
    IN  IF P = {} THEN NoPos ELSE CHOOSE p \in P : First(p)

CleanBlocks == {b \in Blocks : block_info[b].state = "CLEAN"}
KvItemGet(k) == Found(flash, CleanBlocks, k)

\* kv_item_traverse looks at the items up to the one it returns, and marks a
\* used block dirty when it meets an item that is not valid.
Looked(b, p) == IF b \in CleanBlocks \/ (p # NoPos /\ b > p[1]) THEN 0
                ELSE IF p # NoPos /\ b = p[1] THEN p[2] ELSE Used(flash, b)
Spoiled(p) == {b \in Blocks : block_info[b].state = "USED" /\ \E i \in 1..Looked(b, p) :
                                  flash[b].items[i].state # "NORMAL"}
Traverse(p) ==
    /\ flash' = [b \in Blocks |-> IF b \in Spoiled(p) THEN [flash[b] EXCEPT !.state = "DIRTY"] ELSE flash[b]]
    /\ block_info' = [b \in Blocks |->
           [state |-> IF b \in Spoiled(p) THEN "DIRTY" ELSE block_info[b].state,
            used  |-> IF b \in CleanBlocks \/ (p # NoPos /\ b >= p[1]) THEN block_info[b].used ELSE Used(flash, b)]]

\* mutant: the manager does not learn that the block is dirty
MarkDirtyInFlash(b) ==
    /\ flash' = IF block_info[b].state = "USED" THEN BlockSet(flash, b, "DIRTY") ELSE flash
    /\ UNCHANGED block_info

\* The second half of kv_item_del: the block of a deleted item becomes dirty.
MarkDirty(b) ==
    IF block_info[b].state = "USED"
    THEN flash' = BlockSet(flash, b, "DIRTY") /\ block_info' = [block_info EXCEPT ![b].state = "DIRTY"]
    ELSE UNCHANGED <<flash, block_info>>

\* trigger_gc: start the collector unless it runs
TriggerGc(needed) ==
    IF needed /\ ~gc_triggered
    THEN gc_triggered' = TRUE /\ gc_waiter' = 0 /\ gc' = [gc EXCEPT !.pc = "lock"]
    ELSE UNCHANGED <<gc_triggered, gc_waiter, gc>>

-----------------------------------------------------------------------------
(* The calls of a client.                                                   *)

Up == boot.pc = "up"
Goto(c, p) == pc' = [pc EXCEPT ![c] = p]
Return(c, r) == /\ Goto(c, "idle") /\ ret' = [ret EXCEPT ![c] = r]
                /\ req' = [req EXCEPT ![c] = NoReq] /\ kv_mutex' = NONE
Proceed(c, p, r) == Goto(c, p) /\ req' = [req EXCEPT ![c] = r] /\ UNCHANGED <<ret, kv_mutex>>

\* aos_kv_set looks at gc_triggered before it takes the mutex.
KvCall(c) ==
    /\ Up /\ pc[c] = "idle"
    /\ \E r \in Requests :
          req' = [req EXCEPT ![c] = r] /\ Goto(c, IF r.op = "set" /\ gc_triggered THEN "load" ELSE "lock")
    /\ ret' = [ret EXCEPT ![c] = NONE]
    /\ UNCHANGED <<flash, ram, sync, kv_mutex, gc, boot>>

\* gc_waiter++ is a load and a store, and no lock is held.
WaiterLoad(c) ==
    /\ pc[c] = "load" /\ Goto(c, "store")
    /\ req' = [req EXCEPT ![c].seen = gc_waiter]
    /\ UNCHANGED <<flash, ram, sync, kv_mutex, ret, gc, boot>>

WaiterStore(c) ==
    /\ pc[c] = "store" /\ Goto(c, "wait")
    /\ gc_waiter' = (req[c].seen + 1) % WAITER_MODULUS /\ req' = [req EXCEPT ![c].seen = 0]
    /\ UNCHANGED <<flash, ram, gc_triggered, gc_sem, kv_mutex, ret, gc, boot>>

\* mutant: the count of the semaphore is not tested
SemWaitUntested(c) ==
    /\ pc[c] = "wait" /\ Goto(c, "lock") /\ gc_sem' = gc_sem - 1
    /\ UNCHANGED <<flash, ram, gc_triggered, gc_waiter, kv_mutex, req, ret, gc, boot>>

\* aos_sem_wait on gc_sem, without a timeout
SemWait(c) ==
    /\ pc[c] = "wait" /\ Goto(c, IF gc_sem > 0 THEN "lock" ELSE "blocked")
    /\ gc_sem' = IF gc_sem > 0 THEN gc_sem - 1 ELSE 0
    /\ UNCHANGED <<flash, ram, gc_triggered, gc_waiter, kv_mutex, req, ret, gc, boot>>

Lock(c) ==
    /\ pc[c] = "lock" /\ kv_mutex = NONE /\ kv_mutex' = c /\ Goto(c, "find")
    /\ UNCHANGED <<flash, ram, sync, req, ret, gc, boot>>

\* aos_kv_get: the value of the item found
KvGet(c) ==
    LET p == KvItemGet(req[c].key)
    IN
    /\ pc[c] = "find" /\ req[c].op = "get" /\ Traverse(p)
    /\ Return(c, IF p = NoPos THEN "NOT_FOUND" ELSE At(flash, p).val)
    /\ UNCHANGED <<write_pos, clean_blk_nums, sync, gc, boot>>

\* aos_kv_del up to the first write to flash
KvDel(c) ==
    LET p == KvItemGet(req[c].key)
    IN
    /\ pc[c] = "find" /\ req[c].op = "del" /\ Traverse(p)
    /\ IF p = NoPos THEN Return(c, "NOT_FOUND") ELSE Proceed(c, "del", [req[c] EXCEPT !.old = p])
    /\ UNCHANGED <<write_pos, clean_blk_nums, sync, gc, boot>>

\* kv_item_update: a value that is already stored is not written again
SameValue(p, v) == p # NoPos /\ At(flash, p).val = v

\* kv_item_calc_pos: the collector starts when the block is full, or when this
\* item fills it
Free(b) == SLOTS - block_info[b].used
CalcPosCollects(b) == Free(b) < 1 \/ (Free(b) - 1 < 1 /\ clean_blk_nums <= KV_GC_RESERVED)

\* aos_kv_set up to the first write to flash
KvSet(c) ==
    LET p == KvItemGet(req[c].key)
        b == write_pos[1]
    IN
    /\ pc[c] = "find" /\ req[c].op = "set" /\ Traverse(p)
    /\ IF SameValue(p, req[c].val) THEN Return(c, "OK") /\ UNCHANGED <<sync, gc>>
       ELSE /\ IF Free(b) < 1 THEN Return(c, "NO_SPACE") ELSE Proceed(c, "write", [req[c] EXCEPT !.old = p])
            /\ TriggerGc(CalcPosCollects(b)) /\ gc_sem' = gc_sem
    /\ UNCHANGED <<write_pos, clean_blk_nums, boot>>

\* kv_item_store: raw_write, then write_pos and the space of its block
Store(c) ==
    LET r == req[c]
    IN
    /\ pc[c] = "write" /\ Goto(c, IF r.old = NoPos THEN "exit" ELSE "del")
    /\ flash' = Written(flash, write_pos, Item(r.key, r.val, r.old))
    /\ write_pos' = <<write_pos[1], write_pos[2] + 1>>
    /\ block_info' = [block_info EXCEPT ![write_pos[1]].used = @ + 1]
    /\ UNCHANGED <<clean_blk_nums, sync, kv_mutex, req, ret, gc, boot>>

\* kv_item_del of the item that kv_item_get found
ItemDel(c) ==
    /\ pc[c] = "del" /\ Goto(c, "exit")
    /\ flash' = ItemDeleted(flash, req[c].old)
    /\ UNCHANGED <<ram, sync, kv_mutex, req, ret, gc, boot>>

Exit(c) ==
    /\ pc[c] = "exit" /\ Return(c, "OK")
    /\ IF req[c].old = NoPos THEN UNCHANGED <<flash, block_info>> ELSE MarkDirty(req[c].old[1])
    /\ UNCHANGED <<write_pos, clean_blk_nums, sync, gc, boot>>

ClientStep(c) == \/ WaiterLoad(c) \/ WaiterStore(c) \/ SemWait(c) \/ Lock(c) \/ KvGet(c) \/ KvDel(c) \/ KvSet(c)
                 \/ Store(c) \/ ItemDel(c) \/ Exit(c)

-----------------------------------------------------------------------------
(* The collector task.                                                      *)

GcGoto(p) == gc' = [gc EXCEPT !.pc = p]

\* The end of aos_kv_gc: the flag, the mutex, and then the waiters
GcExit == /\ gc.leaving < LEAVING_MAX
          /\ gc_triggered' = FALSE /\ kv_mutex' = NONE /\ UNCHANGED <<gc_waiter, gc_sem>>
          /\ gc' = [GcOff EXCEPT !.leaving = gc.leaving + 1]

\* Take the mutex, then the first clean block to write to and the first dirty
\* block after that of write_pos to empty.
GcStart ==
    LET o == write_pos[1]
        src == {b \in Blocks : block_info[b].state = "DIRTY"}
    IN
    /\ gc.pc = "lock" /\ kv_mutex = NONE
    /\ \/ /\ clean_blk_nums > 0 /\ CleanBlocks # {} /\ src # {}
          /\ write_pos' = <<Min(CleanBlocks), 1>>
          /\ gc' = [gc EXCEPT !.pc = "copy", !.item = 1, !.src = IF (o + 1) % BLK_NUMS \in src THEN (o + 1) % BLK_NUMS ELSE o]
          /\ kv_mutex' = "gc" /\ UNCHANGED sync
       \/ /\ clean_blk_nums = 0 \/ CleanBlocks = {} \/ src = {}
          /\ GcExit /\ UNCHANGED write_pos
    /\ UNCHANGED <<flash, block_info, clean_blk_nums, calls, boot>>

\* __item_gc_cb on the next item of the dirty block; a failing aos_malloc ends
\* the traversal.
GcCopy ==
    /\ gc.pc = "copy" /\ gc.item <= Used(flash, gc.src)
    /\ \/ /\ Normal(flash, <<gc.src, gc.item>>)
          /\ flash' = Written(flash, write_pos, At(flash, <<gc.src, gc.item>>))
          /\ write_pos' = <<write_pos[1], write_pos[2] + 1>>
          /\ block_info' = [block_info EXCEPT ![write_pos[1]].used = @ + 1]
          /\ gc' = [gc EXCEPT !.item = @ + 1]
       \/ /\ ~Normal(flash, <<gc.src, gc.item>>) /\ gc' = [gc EXCEPT !.item = @ + 1]
          /\ UNCHANGED <<flash, write_pos, block_info>>
       \/ /\ "malloc" \in faults /\ GcGoto("erase") /\ UNCHANGED <<flash, write_pos, block_info>>
    /\ UNCHANGED <<clean_blk_nums, sync, kv_mutex, calls, boot>>

GcCopied ==
    /\ gc.pc = "copy" /\ gc.item > Used(flash, gc.src) /\ GcGoto("erase")
    /\ block_info' = [block_info EXCEPT ![gc.src].used = Used(flash, gc.src)]
    /\ UNCHANGED <<flash, write_pos, clean_blk_nums, sync, kv_mutex, calls, boot>>

\* kv_block_format of the emptied block: raw_erase, then the new header
GcErase ==
    /\ gc.pc = "erase" /\ GcGoto("format") /\ flash' = [flash EXCEPT ![gc.src] = Erased]
    /\ UNCHANGED <<ram, sync, kv_mutex, calls, boot>>

GcFormat ==
    /\ gc.pc = "format" /\ GcGoto("used") /\ flash' = Format(flash, gc.src)
    /\ block_info' = [block_info EXCEPT ![gc.src] = [state |-> "CLEAN", used |-> 0]]
    /\ clean_blk_nums' = clean_blk_nums + 1
    /\ UNCHANGED <<write_pos, sync, kv_mutex, calls, boot>>

\* The block written to counts from now on.
GcUsed ==
    /\ gc.pc = "used" /\ GcExit
    /\ flash' = BlockSet(flash, write_pos[1], "USED")
    /\ block_info' = [block_info EXCEPT ![write_pos[1]].state = "USED"]
    /\ clean_blk_nums' = clean_blk_nums - 1
    /\ UNCHANGED <<write_pos, calls, boot>>

\* aos_sem_signal_all when gc_waiter is not 0: the semaphore counts the signal
\* when no client waits.
GcSignal ==
    LET blocked == {c \in Clients : pc[c] = "blocked"}
    IN
    /\ gc.leaving > 0 /\ gc' = [gc EXCEPT !.leaving = @ - 1]
    /\ pc' = IF gc_waiter > 0 THEN [c \in Clients |-> IF c \in blocked THEN "lock" ELSE pc[c]] ELSE pc
    /\ gc_sem' = IF gc_waiter > 0 /\ blocked = {} /\ gc_sem < SEM_MAX THEN gc_sem + 1 ELSE gc_sem
    /\ UNCHANGED <<flash, ram, gc_triggered, gc_waiter, kv_mutex, req, ret, boot>>

GcStep == GcStart \/ GcCopy \/ GcCopied \/ GcErase \/ GcFormat \/ GcUsed \/ GcSignal

-----------------------------------------------------------------------------
(* Power loss, and the recovery of aos_kv_init.                             *)

\* A block marked clean that holds items is what an interrupted collection
\* leaves: its items count when the emptied block has been formatted, and it
\* is formatted when not.  Block 0 is formatted when no block is clean.
Unclean == {b \in CleanBlocks : block_info[b].used > 0}
BootFormats(b) == clean_blk_nums < KV_GC_RESERVED /\ b = IF Unclean = {} THEN 0 ELSE Max(Unclean)

\* The items that are being written
Writing == {Item(req[c].key, req[c].val, req[c].old) : c \in {d \in Clients : pc[d] = "write"}}
             \cup {At(flash, p) : p \in {q \in {<<gc.src, gc.item>>} : gc.pc = "copy" /\ Normal(flash, q)}}

\* An item whose write is interrupted is absent, has a wrong crc, or has a
\* header that is not valid; an interrupted kv_block_format leaves the block
\* erased.
Interrupted ==
    {flash} \cup {Written(flash, write_pos, x) : x \in UNION {{Invalid, [y EXCEPT !.crc = FALSE]} : y \in Writing}}
            \cup {[flash EXCEPT ![b] = Erased] : b \in {c \in Blocks : boot.pc = "unclean" /\ BootFormats(c)}}

PowerLoss ==
    /\ \/ "op" \in faults /\ Up /\ gc.pc \in {"off", "lock"}
       \/ "gc" \in faults /\ Up /\ gc.pc \notin {"off", "lock"}
       \/ "boot" \in faults /\ ~Up
    /\ flash' \in Interrupted
    /\ block_info' = [b \in Blocks |-> [state |-> "none", used |-> 0]] /\ write_pos' = NoPos /\ clean_blk_nums' = 0
    /\ gc_triggered' = FALSE /\ gc_waiter' = 0 /\ gc_sem' = 0 /\ kv_mutex' = NONE /\ gc' = GcOff
    /\ pc' = [c \in Clients |-> "idle"] /\ req' = [c \in Clients |-> NoReq] /\ ret' = [c \in Clients |-> NONE]
    /\ boot' = BootAt("scan", 0, 1)

\* mutants: the item replaced is not deleted; the crc is not tested
RecoveryKeepsOrigin(f, p) == IF ~At(f, p).crc THEN p ELSE NoPos
RecoveryKeepsTorn(f, p) ==
    LET x == At(f, p)
    IN  IF x.origin # p /\ Normal(f, x.origin) /\ At(f, x.origin).key = x.key THEN x.origin ELSE NoPos

\* The item that __item_recovery_cb deletes when it meets the valid item at p:
\* the item itself when its crc is wrong, and otherwise the valid item of the
\* same key at its origin_off.
RecoveryDeletes(f, p) ==
    LET x == At(f, p)
    IN  IF ~x.crc THEN p
        ELSE IF x.origin # p /\ Normal(f, x.origin) /\ At(f, x.origin).key = x.key THEN x.origin ELSE NoPos

NextBlock == IF boot.blk + 1 = BLK_NUMS THEN BootAt("unclean", 0, 1) ELSE BootAt("scan", boot.blk + 1, 1)
InBoot(p) == boot.pc = p /\ UNCHANGED <<kv_mutex, calls>>

\* A block without a valid header is formatted.
BootFormat ==
    /\ InBoot("scan") /\ flash[boot.blk].state = "erased"
    /\ flash' = Format(flash, boot.blk)
    /\ block_info' = [block_info EXCEPT ![boot.blk] = [state |-> "CLEAN", used |-> 0]]
    /\ clean_blk_nums' = clean_blk_nums + 1 /\ boot' = NextBlock
    /\ UNCHANGED <<write_pos, sync, gc>>

\* kv_item_traverse with __item_recovery_cb, one item at a time
BootItem ==
    LET b == boot.blk
        p == <<b, boot.item>>
        info == IF boot.item = 1 THEN [block_info EXCEPT ![b].state = flash[b].state] ELSE block_info
        d == IF Normal(flash, p) THEN RecoveryDeletes(flash, p) ELSE NoPos
        spoiled == ~Normal(flash, p) /\ info[b].state = "USED"
    IN
    /\ InBoot("scan") /\ flash[b].state # "erased" /\ boot.mark = NONE /\ boot.item <= Used(flash, b)
    /\ flash' = IF d # NoPos THEN ItemDeleted(flash, d) ELSE IF spoiled THEN BlockSet(flash, b, "DIRTY") ELSE flash
    /\ block_info' = IF spoiled THEN [info EXCEPT ![b].state = "DIRTY"] ELSE info
    /\ boot' = [boot EXCEPT !.item = @ + 1, !.mark = IF d # NoPos THEN d[1] ELSE NONE]
    /\ UNCHANGED <<write_pos, clean_blk_nums, sync, gc>>

\* The second half of kv_item_del in the recovery
BootMark ==
    /\ InBoot("scan") /\ boot.mark # NONE /\ MarkDirty(boot.mark) /\ boot' = [boot EXCEPT !.mark = NONE]
    /\ UNCHANGED <<write_pos, clean_blk_nums, sync, gc>>

BootScanned ==
    LET b == boot.blk
    IN
    /\ InBoot("scan") /\ flash[b].state # "erased" /\ boot.mark = NONE /\ boot.item > Used(flash, b)
    /\ block_info' = [block_info EXCEPT ![b] =
           [state |-> IF boot.item = 1 THEN flash[b].state ELSE @.state, used |-> Used(flash, b)]]
    /\ clean_blk_nums' = clean_blk_nums + IF flash[b].state = "CLEAN" /\ Used(flash, b) = 0 THEN 1 ELSE 0
    /\ boot' = NextBlock
    /\ UNCHANGED <<flash, write_pos, sync, gc>>

\* The blocks that need work, the last one first
BootClean ==
    LET b == IF Unclean = {} THEN 0 ELSE Max(Unclean)
    IN
    /\ InBoot("unclean") /\ (Unclean # {} \/ clean_blk_nums = 0)
    /\ flash' = IF BootFormats(b) THEN Format(flash, b) ELSE BlockSet(flash, b, "DIRTY")
    /\ block_info' = [block_info EXCEPT ![b] =
           IF BootFormats(b) THEN [state |-> "CLEAN", used |-> 0] ELSE [@ EXCEPT !.state = "DIRTY"]]
    /\ clean_blk_nums' = clean_blk_nums + IF BootFormats(b) THEN 1 ELSE 0
    /\ UNCHANGED <<write_pos, sync, gc, boot>>

\* write_pos, and the collection that aos_kv_init starts when the block is full
BootDone ==
    LET full == {b \in Blocks : block_info[b].state \in {"USED", "DIRTY"}
                                /\ block_info[(b + 1) % BLK_NUMS].state = "CLEAN"}
        b == IF full = {} THEN 0 ELSE Min(full)
    IN
    /\ InBoot("unclean") /\ Unclean = {} /\ clean_blk_nums > 0
    /\ IF clean_blk_nums = BLK_NUMS
       THEN /\ flash' = BlockSet(flash, 0, "USED") /\ block_info' = [block_info EXCEPT ![0].state = "USED"]
            /\ clean_blk_nums' = clean_blk_nums - 1 /\ write_pos' = <<0, 1>>
       ELSE UNCHANGED <<flash, block_info, clean_blk_nums>>
            /\ write_pos' = IF full = {} THEN NoPos ELSE <<b, block_info[b].used + 1>>
    /\ TriggerGc(SLOTS - block_info'[write_pos'[1]].used < 1 /\ clean_blk_nums' < KV_GC_RESERVED + 1)
    /\ gc_sem' = gc_sem /\ boot' = BootAt("up", 0, 1)

BootStep == BootFormat \/ BootItem \/ BootMark \/ BootScanned \/ BootClean \/ BootDone

\* A device whose flash has never been written
Init ==
    /\ flash = [b \in Blocks |-> Erased]
    /\ block_info = [b \in Blocks |-> [state |-> "none", used |-> 0]] /\ write_pos = NoPos /\ clean_blk_nums = 0
    /\ gc_triggered = FALSE /\ gc_waiter = 0 /\ gc_sem = 0 /\ kv_mutex = NONE /\ gc = GcOff
    /\ pc = [c \in Clients |-> "idle"] /\ req = [c \in Clients |-> NoReq] /\ ret = [c \in Clients |-> NONE]
    /\ boot = BootAt("scan", 0, 1) /\ faults \in Faults

Next == /\ (\E c \in Clients : KvCall(c) \/ ClientStep(c)) \/ GcStep \/ BootStep \/ PowerLoss
        /\ UNCHANGED faults

Spec == Init /\ [][Next]_vars

-----------------------------------------------------------------------------
\* The type invariant of the store: an item carries a key and a value, and the
\* marks that kv_init and kv_block_format set are the only ones.
TypeOK ==
    /\ \A b \in Blocks :
          /\ flash[b].state \in {"erased", "CLEAN", "USED", "DIRTY"} /\ Used(flash, b) <= SLOTS
          /\ \A i \in 1..Used(flash, b) : LET x == flash[b].items[i] IN
                x = Invalid \/ (x.state = "NORMAL" /\ x.key \in Keys /\ x.val \in Vals /\ x.origin \in Positions \cup {NoPos})
          /\ block_info[b].state \in {"none", "CLEAN", "USED", "DIRTY"} /\ block_info[b].used \in 0..SLOTS
    /\ kv_mutex \in Clients \cup {"gc", NONE} /\ gc_waiter \in 0..(WAITER_MODULUS - 1) /\ gc_sem \in 0..SEM_MAX

\* The manager in RAM agrees with the flash after every restart and through
\* every collection: items are written where the free space of the block
\* begins, the space and the state recorded for a block are those in flash, and
\* clean_blk_nums counts the clean blocks, of which one is left for the
\* collector.
Bookkeeping ==
    Up /\ kv_mutex # "gc" =>
        /\ write_pos[2] = Used(flash, write_pos[1]) + 1
        /\ \A b \in Blocks : block_info[b] = [state |-> flash[b].state, used |-> Used(flash, b)]
        /\ clean_blk_nums = Cardinality(CleanBlocks) /\ clean_blk_nums = KV_GC_RESERVED
        /\ write_pos[1] \notin CleanBlocks

\* kv_item_get returns the first item of a key that it meets: no task can find
\* two, whatever was interrupted, because __item_recovery_cb deletes one of them.
OneItemPerKey ==
    Up /\ kv_mutex = NONE => \A p, q \in Positions :
        Normal(flash, p) /\ Normal(flash, q) /\ At(flash, p).key = At(flash, q).key => p = q
=============================================================================

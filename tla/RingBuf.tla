------------------------------ MODULE RingBuf -------------------------------
(***************************************************************************)
(* The ring buffer of k_ringbuf.c, under the queues and buffer queues.     *)
(* The memory is modelled cell by cell, since what can go wrong is where a *)
(* message is split; a cell holds a byte of a message or one of the bytes  *)
(* of its compressed length.  Callers hold the kernel's critical section.  *)
(***************************************************************************)
EXTENDS Integers, Sequences

CONSTANTS
    SIZE,      \* bytes of the buffer
    Msgs,      \* for each type of buffer the messages, which are sequences of bytes: "FIX" for
               \* blocks of one size, "DYN" for messages with a length before them
    FRONT,     \* the types of buffer to whose front messages are also put
    MAX1,      \* RINGBUF_LEN_1BYTE_MAXVALUE: the longest message whose length fits a byte
    MAX2,      \* RINGBUF_LEN_2BYTES_MAXVALUE
    NONE

ASSUME RingAssumption ==
    /\ SIZE \in Nat \ {0} /\ MAX1 \in Nat /\ MAX2 \in Nat /\ FRONT \subseteq {"FIX", "DYN"}
    /\ DOMAIN Msgs = {"FIX", "DYN"} /\ \A m \in Msgs["FIX"] \cup Msgs["DYN"] : Len(m) > 0
    /\ \A m, n \in Msgs["FIX"] : Len(m) = Len(n) /\ SIZE % Len(m) = 0

VARIABLES
    ring,  \* type, buf, head, tail, freesize, and whether every copy so far stayed inside buf
    call   \* the last call that succeeded, with the message it put or returned

vars == <<ring, call>>

-----------------------------------------------------------------------------
(* Memory.                                                                  *)

\* memcpy of bytes to an offset of buf
CopyTo(r, at, bytes) ==
    [r EXCEPT !.ok = @ /\ at >= 0 /\ at + Len(bytes) <= SIZE,
              !.buf = [i \in DOMAIN @ |-> IF i \in at .. at + Len(bytes) - 1 THEN bytes[i - at + 1] ELSE @[i]]]
CopyFrom(r, at, n) == [i \in 1..n |-> r.buf[at + i - 1]]
First(s, n) == SubSeq(s, 1, n)
Rest(s, n) == SubSeq(s, n + 1, Len(s))

\* ringbuf_headlen_compress and decompress: the first byte tells how many there are
COMPRESS_LEN(n) == IF n <= MAX1 THEN 1 ELSE IF n <= MAX2 THEN 2 ELSE 3
Headlen(n) == [i \in 1..COMPRESS_LEN(n) |-> [len |-> n, byte |-> i]]
LenBytes(cell) == COMPRESS_LEN(cell.len)

-----------------------------------------------------------------------------
(* The ends of the buffer.                                                  *)

\* A block of a buffer of blocks, which is never split, at the tail and at the
\* head
BlkAtTail(r, m) ==
    LET tail == IF r.tail = SIZE THEN 0 ELSE r.tail
    IN  [CopyTo(r, tail, m) EXCEPT !.tail = tail + Len(m), !.freesize = @ - Len(m)]
BlkAtHead(r, m) ==
    LET head == (IF r.head = 0 THEN SIZE ELSE r.head) - Len(m)
    IN  [CopyTo(r, head, m) EXCEPT !.head = head, !.freesize = @ - Len(m)]

\* Bytes at the tail, split where the buffer ends: so are the length and the data
\* of ringbuf_push put there.
\* The mutants restart the bytes after the split, and forget those before it.
PutAtTailAgain(r, bytes, tail, split) ==
    LET from == IF split > 0 THEN 0 ELSE tail
        left == CopyTo(r, tail, First(bytes, split))
    IN  [CopyTo(left, from, First(bytes, Len(bytes) - split)) EXCEPT !.tail = from + Len(bytes) - split, !.freesize = @ - Len(bytes)]
PutAtTail(r, bytes, tail, split) ==
    LET from == IF split > 0 THEN 0 ELSE tail
        left == CopyTo(r, tail, First(bytes, split))
    IN  [CopyTo(left, from, Rest(bytes, split)) EXCEPT !.tail = from + Len(bytes) - split, !.freesize = @ - Len(bytes)]
TailSplit(r, tail, n) == IF tail >= r.head /\ SIZE - tail < n THEN SIZE - tail ELSE 0
AtTailForgets(r, bytes) ==
    LET tail == IF r.tail = SIZE THEN 0 ELSE r.tail
        split == TailSplit(r, tail, Len(bytes))
    IN  [PutAtTail(r, bytes, tail, split) EXCEPT !.freesize = @ + split]
AtTail(r, bytes) ==
    LET tail == IF r.tail = SIZE THEN 0 ELSE r.tail
    IN  PutAtTail(r, bytes, tail, TailSplit(r, tail, Len(bytes)))

\* Bytes at the head: low, HeadSplit of them, go to the beginning of the buffer
\* when it is split, and the others, high, to its end.
HeadSplit(r, n) ==
    LET head == IF r.head = 0 THEN SIZE ELSE r.head
    IN  IF head <= r.tail /\ head < n /\ head > 0 THEN head ELSE 0
PutAtHead(r, low, high) ==
    LET head == IF r.head = 0 \/ Len(low) > 0 THEN SIZE ELSE r.head
        from == head - Len(high)
        left == CopyTo(r, 0, low)
    IN  [CopyTo(left, from, high) EXCEPT !.head = from, !.freesize = @ - Len(low) - Len(high)]

\* ringbuf_head_push puts the first bytes of the data at the beginning of the
\* buffer, but the last bytes of the length.
DataAtHead(r, m) ==
    LET split == HeadSplit(r, Len(m)) IN PutAtHead(r, First(m, split), Rest(m, split))
LenAtHead(r, h) ==
    LET rest == Len(h) - HeadSplit(r, Len(h)) IN PutAtHead(r, Rest(h, rest), First(h, rest))

\* n bytes from the head, split where the buffer ends if it wraps: what is read,
\* and the ring after it
HeadOf(r) == IF r.head = SIZE THEN 0 ELSE r.head
FromHead(r, n, wraps) ==
    LET head == HeadOf(r)
        split == IF wraps /\ SIZE - head < n THEN SIZE - head ELSE 0
        from == IF split > 0 THEN 0 ELSE head
    IN  [bytes |-> CopyFrom(r, head, split) \o CopyFrom(r, from, n - split),
         ring |-> [r EXCEPT !.head = from + n - split, !.freesize = @ + n,
                            !.ok = @ /\ from + n - split <= SIZE]]

-----------------------------------------------------------------------------
(* The operations.                                                          *)

\* ringbuf_is_full and the room for length and data
Fits(m) ==
    IF ring.type = "FIX" THEN ring.freesize >= Len(m)
    ELSE ring.freesize >= 2 /\ ring.freesize >= Len(Headlen(Len(m))) + Len(m)

Push(m) ==
    /\ Fits(m) /\ call' = <<"push", m>>
    /\ \/ ring.type = "FIX" /\ ring' = BlkAtTail(ring, m)
       \/ ring.type = "DYN" /\ ring' = AtTail(AtTail(ring, Headlen(Len(m))), m)

HeadPush(m) ==
    /\ ring.type \in FRONT /\ Fits(m) /\ call' = <<"head_push", m>>
    /\ \/ ring.type = "FIX" /\ ring' = BlkAtHead(ring, m)
       \/ ring.type = "DYN" /\ ring' = LenAtHead(DataAtHead(ring, m), Headlen(Len(m)))

BlkSize == Len(CHOOSE m \in Msgs["FIX"] : TRUE)
Pop ==
    LET blk == FromHead(ring, BlkSize, FALSE)
        length == FromHead(ring, LenBytes(ring.buf[HeadOf(ring)]), TRUE)
        data == FromHead(length.ring, length.bytes[1].len, HeadOf(length.ring) > ring.tail)
    IN
    /\ ring.freesize # SIZE
    /\ \/ ring.type = "FIX" /\ call' = <<"pop", blk.bytes>> /\ ring' = blk.ring
       \/ ring.type = "DYN" /\ call' = <<"pop", data.bytes>> /\ ring' = data.ring

\* ringbuf_reset leaves what is in the memory
Empty(type) == [type |-> type, buf |-> [i \in 0 .. SIZE - 1 |-> NONE], head |-> 0, tail |-> 0, freesize |-> SIZE, ok |-> TRUE]
Reset == ring' = [Empty(ring.type) EXCEPT !.buf = ring.buf, !.ok = ring.ok] /\ call' = <<"reset">>

Init == ring \in {Empty("FIX"), Empty("DYN")} /\ call = <<"reset">>
Next == Pop \/ Reset \/ \E m \in Msgs[ring.type] : Push(m) \/ HeadPush(m)
Spec == Init /\ [][Next]_vars

-----------------------------------------------------------------------------
(* The messages in the buffer, read off its memory from the head on.        *)

Cell(i) == ring.buf[(ring.head + i) % SIZE]
RECURSIVE MessagesFrom(_)
MessagesFrom(i) ==
    IF i >= SIZE - ring.freesize THEN <<>>
    ELSE LET lead == IF ring.type = "FIX" THEN 0 ELSE LenBytes(Cell(i))
             len == IF ring.type = "FIX" THEN BlkSize ELSE Cell(i).len
         IN  <<[k \in 1..len |-> Cell(i + lead + k - 1)]>> \o MessagesFrom(i + lead + len)

\* No copy leaves the buffer, and freesize is the distance from tail to head,
\* wherever messages were split and both ends have wrapped.
FreeSpaceCounted ==
    /\ ring.ok /\ ring.head \in 0..SIZE /\ ring.tail \in 0..SIZE /\ ring.freesize \in 0..SIZE
    /\ (ring.tail - ring.head) % SIZE = (SIZE - ring.freesize) % SIZE

\* The buffer is a sequence of messages: they are popped in their order, whole and
\* unchanged, wherever they or their lengths were split.  Only a message that is put to
\* the front of a dynamic buffer may have its two parts exchanged, since
\* ringbuf_head_push puts the first part of a message that it splits after the second.
AllMsgs == Msgs["FIX"] \cup Msgs["DYN"]
Exchanged(m) == {Rest(m, n) \o First(m, n) : n \in 0 .. Len(m) - 1}
Sequence == INSTANCE MsgSeq WITH
                Msgs <- AllMsgs, msgs <- MessagesFrom(0),
                AtFront <- [m \in AllMsgs |-> IF m \in Msgs["FIX"] THEN {m} ELSE Exchanged(m)]
ImplementsSequence == Sequence!Spec
=============================================================================

----------------------------- MODULE RecvBuffer -----------------------------
(***************************************************************************)
(* tls_rbuf_t of tls/tlslib.c: decrypted bytes waiting for tls_recv, kept  *)
(* in one array between two cursors.  It is no ring: when a chunk would    *)
(* run past the end of the array, the bytes still unread are moved to the  *)
(* front first.                                                            *)
(***************************************************************************)
EXTENDS Integers, Sequences

CONSTANTS Byte,     \* the values a byte can have
          BufSize,  \* TLS_PLAIN_BUF_SIZE
          MaxLen    \* bound: longest chunk pushed, largest read asked for

ASSUME ByteAssumption == 0 \in Byte
ASSUME BufSizeAssumption == BufSize \in Nat \ {0}
ASSUME MaxLenAssumption == MaxLen \in Nat \ {0}

VARIABLES data,  \* the array
          head,  \* next byte to read
          tail,  \* next byte to write
          out,   \* what the last rbuf_pop copied to its caller
          ret    \* what the last call returned

vars == <<data, head, tail, out, ret>>

Index == 0..BufSize - 1
Chunk == UNION {[1..n -> Byte] : n \in 1..MaxLen}

rbuf_avail == tail - head

\* The unread bytes, oldest first.
Unread == [i \in 1..rbuf_avail |-> data[head + i - 1]]

\* memmove of the unread bytes from position `from` to position `to`, then
\* memcpy of src behind them.
Store(from, to, src) ==
    LET used == rbuf_avail IN
    [j \in Index |->
        IF j \in to..to + used - 1 THEN data[from + (j - to)]
        ELSE IF j \in to + used..to + used + Len(src) - 1
             THEN src[j - (to + used) + 1]
             ELSE data[j]]

\* g_rbuf is static: all bytes zero, both cursors zero.
Init == /\ data = [j \in Index |-> 0]
        /\ head = 0 /\ tail = 0
        /\ out = <<>> /\ ret = 0

rbuf_reset ==
    /\ head' = 0 /\ tail' = 0
    /\ out' = <<>> /\ ret' = 0
    /\ UNCHANGED data

\* Faulty variant: the bound is off by one.
PushInPlace_offByOne(src) ==
    /\ tail + Len(src) <= BufSize + 1
    /\ data' = Store(head, head, src)
    /\ tail' = tail + Len(src)
    /\ out' = <<>> /\ ret' = 0
    /\ UNCHANGED head

\* The chunk fits behind the tail.
PushInPlace(src) ==
    /\ tail + Len(src) <= BufSize
    /\ data' = Store(head, head, src)
    /\ tail' = tail + Len(src)
    /\ out' = <<>> /\ ret' = 0
    /\ UNCHANGED head

\* Faulty variant: the cursors move, the unread bytes do not.
PushCompacting_noMove(src) ==
    /\ tail + Len(src) > BufSize
    /\ rbuf_avail + Len(src) <= BufSize
    /\ data' = Store(0, 0, src)
    /\ head' = 0
    /\ tail' = rbuf_avail + Len(src)
    /\ out' = <<>> /\ ret' = 0

\* It fits once the unread bytes have moved to the front.
PushCompacting(src) ==
    /\ tail + Len(src) > BufSize
    /\ rbuf_avail + Len(src) <= BufSize
    /\ data' = Store(head, 0, src)
    /\ head' = 0
    /\ tail' = rbuf_avail + Len(src)
    /\ out' = <<>> /\ ret' = 0

\* It does not fit at all.
PushRefused(src) ==
    /\ tail + Len(src) > BufSize
    /\ rbuf_avail + Len(src) > BufSize
    /\ out' = <<>> /\ ret' = -1
    /\ UNCHANGED <<data, head, tail>>

rbuf_push(src) == PushInPlace(src) \/ PushCompacting(src) \/ PushRefused(src)

rbuf_pop(want) ==
    LET take == IF rbuf_avail < want THEN rbuf_avail ELSE want IN
    /\ out' = [i \in 1..take |-> data[head + i - 1]]
    /\ head' = head + take
    /\ ret' = take
    /\ UNCHANGED <<data, tail>>

Next == \/ rbuf_reset
        \/ \E src \in Chunk : rbuf_push(src)
        \/ \E want \in 1..MaxLen : rbuf_pop(want)

Spec == Init /\ [][Next]_vars

-----------------------------------------------------------------------------

\* The cursors stay ordered and inside the array, and every cell holds a byte.
TypeOK ==
    /\ data \in [Index -> Byte]
    /\ head \in 0..BufSize /\ tail \in 0..BufSize /\ head <= tail
    /\ out \in Seq(Byte)
    /\ ret \in -1..BufSize

\* The array with its cursors implements the FIFO of ByteFifo: the memmove of
\* rbuf_push neither loses, reorders nor overwrites a byte not yet read, and a
\* push is refused only when the bytes really do not fit.
Fifo == INSTANCE ByteFifo WITH q <- Unread, Capacity <- BufSize

ImplementsFifo == Fifo!Spec
=============================================================================

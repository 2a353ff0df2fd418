------------------------------ MODULE ByteFifo ------------------------------
(***************************************************************************)
(* What the received-plaintext buffer of tls/tlslib.c (tls_rbuf_t)         *)
(* promises to tls_recv: a bounded FIFO of bytes.  A chunk is taken whole  *)
(* or refused whole, bytes come out in the order they went in, and a       *)
(* reset forgets everything.                                               *)
(***************************************************************************)
EXTENDS Integers, Sequences

CONSTANTS Byte,      \* the values a byte can have
          Capacity,  \* how many bytes fit (TLS_PLAIN_BUF_SIZE)
          MaxLen     \* bound: longest chunk of one call

VARIABLES q,    \* the bytes held, oldest first
          out,  \* the bytes the last call handed out
          ret   \* what the last call returned

vars == <<q, out, ret>>

Chunk == UNION {[1..n -> Byte] : n \in 1..MaxLen}

Min2(a, b) == IF a < b THEN a ELSE b

Init == q = <<>> /\ out = <<>> /\ ret = 0

\* A chunk that fits is appended.
Put(src) ==
    /\ Len(q) + Len(src) <= Capacity
    /\ q' = q \o src
    /\ out' = <<>>
    /\ ret' = 0

\* A chunk that does not fit is refused and nothing changes.
Refuse(src) ==
    /\ Len(q) + Len(src) > Capacity
    /\ q' = q
    /\ out' = <<>>
    /\ ret' = -1

\* At most want of the oldest bytes leave.
Take(want) ==
    LET n == Min2(Len(q), want) IN
    /\ out' = SubSeq(q, 1, n)
    /\ q' = SubSeq(q, n + 1, Len(q))
    /\ ret' = n

Clear == q' = <<>> /\ out' = <<>> /\ ret' = 0

Next == \/ \E src \in Chunk : Put(src) \/ Refuse(src)
        \/ \E want \in 1..MaxLen : Take(want)
        \/ Clear

Spec == Init /\ [][Next]_vars
=============================================================================

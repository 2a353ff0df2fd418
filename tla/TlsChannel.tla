------------------------------ MODULE TlsChannel ------------------------------
(***************************************************************************)
(* What tlslib.h promises the MQTT layer: after tls_connect a byte stream  *)
(* from the peer, of which the caller receives a growing prefix, until     *)
(* either side gives up.  Nothing of one connection shows up on another.   *)
(***************************************************************************)
EXTENDS Integers, Sequences

VARIABLES open,    \* tls_connect has returned 0 and tls_close was not called
          stream,  \* the bytes the peer has sent on this connection
          taken    \* the bytes handed to the caller on this connection

vars == <<open, stream, taken>>

IsPrefix(s, t) == Len(s) <= Len(t) /\ s = SubSeq(t, 1, Len(s))

Init == open = FALSE /\ stream = <<>> /\ taken = <<>>

Open == ~open /\ open' /\ stream' = <<>> /\ taken' = <<>>

PeerSends == /\ open /\ IsPrefix(stream, stream') /\ stream # stream'
             /\ UNCHANGED <<open, taken>>

Deliver == /\ open /\ IsPrefix(taken, taken') /\ IsPrefix(taken', stream)
           /\ UNCHANGED <<open, stream>>

Close == open /\ ~open' /\ stream' = <<>> /\ taken' = <<>>

Next == Open \/ PeerSends \/ Deliver \/ Close

Spec == Init /\ [][Next]_vars
=============================================================================

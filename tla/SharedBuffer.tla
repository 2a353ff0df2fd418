---------------------------- MODULE SharedBuffer ----------------------------
(***************************************************************************)
(* g_rbuf is one static buffer for every tls_session_t of the process: the *)
(* comment above it says that simultaneous sessions need one each.  Here   *)
(* several sessions use it through tls_connect, tls_recv and tls_close,    *)
(* and `mixed` remembers whether two of them ever got in each other's way. *)
(* TCP and picotls are reduced to the record that a read yields.           *)
(***************************************************************************)
EXTENDS RecvBuffer

CONSTANTS Session,   \* the tls_session_t of the process
          MaxStream  \* bound: bytes decrypted on a connection

\* One record fits into TLS_PLAIN_BUF_SIZE.
ASSUME RecordAssumption == MaxLen <= BufSize
ASSUME MaxStreamAssumption == MaxStream \in Nat

VARIABLES user,    \* "sessions", or "any": other callers of the rbuf_ functions
          up,      \* sessions with a picotls handle and a socket
          owner,   \* history: the session that last put bytes into the buffer
          stream,  \* history: the bytes decrypted on each session's connection
          got,     \* history: those that tls_recv has handed to its caller
          mixed    \* history: a session acted while another had bytes waiting

sharedVars == <<user, up, owner, stream, got, mixed>>

SharedInit ==
    /\ Init
    /\ user \in {"sessions", "any"}
    /\ up = {} /\ owner \in Session
    /\ stream = [s \in Session |-> <<>>] /\ got = [s \in Session |-> <<>>]
    /\ mixed = FALSE

\* Session s acts.  Nothing is said of what follows once it has done so while
\* another session's bytes were waiting: the model ends there.
Acts(s) ==
    /\ user = "sessions" /\ UNCHANGED user
    /\ ~mixed /\ mixed' = (rbuf_avail > 0 /\ owner # s)

NewConnection(s) ==
    /\ stream' = [stream EXCEPT ![s] = <<>>]
    /\ got' = [got EXCEPT ![s] = <<>>]

\* Faulty variant: the buffer keeps what the last connection left in it.
Connect_keeps(s) ==
    /\ Acts(s)
    /\ NewConnection(s)
    /\ up' \in {up \cup {s}, up \ {s}}
    /\ UNCHANGED <<vars, owner>>

\* tls_connect, also on a session that is still connected: it empties the
\* buffer, whether or not the handshake succeeds later on.
Connect(s) ==
    /\ Acts(s)
    /\ rbuf_reset
    /\ NewConnection(s)
    /\ up' \in {up \cup {s}, up \ {s}}
    /\ UNCHANGED owner

\* tls_connect fails before it comes to the buffer: no picotls handle, or no
\* SNI.  A session that was connected has lost its handle.
ConnectFails(s) ==
    /\ user = "sessions" /\ ~mixed
    /\ up' = up \ {s}
    /\ UNCHANGED <<vars, user, owner, stream, got, mixed>>

\* tls_close, also on a session that is closed.
Close(s) ==
    /\ Acts(s)
    /\ rbuf_reset
    /\ up' = up \ {s}
    /\ UNCHANGED <<owner, stream, got>>

\* tls_recv finds bytes in the buffer: whose they are it does not ask.
ReceiveBuffered(s, want) ==
    /\ Acts(s)
    /\ s \in up /\ rbuf_avail > 0
    /\ rbuf_pop(want)
    /\ got' = [got EXCEPT ![s] = @ \o out']
    /\ UNCHANGED <<up, owner, stream>>

\* tls_recv reads a record: the caller gets what it asked for, the buffer the
\* rest.
ReceiveRecord(s, want, plain) ==
    LET take == IF Len(plain) < want THEN Len(plain) ELSE want
        rest == [i \in 1..Len(plain) - take |-> plain[take + i]] IN
    /\ Acts(s)
    /\ s \in up /\ rbuf_avail = 0 /\ Len(stream[s]) + Len(plain) <= MaxStream
    /\ stream' = [stream EXCEPT ![s] = @ \o plain]
    /\ got' = [got EXCEPT ![s] = @ \o [i \in 1..take |-> plain[i]]]
    /\ IF Len(plain) > take THEN rbuf_push(rest) /\ owner' = s
       ELSE UNCHANGED <<vars, owner>>
    /\ UNCHANGED up

\* The functions of the buffer in any order, as RecvBuffer has them.
AnyUse ==
    /\ user = "any"
    /\ Next
    /\ UNCHANGED sharedVars

SharedNext ==
    \/ \E s \in Session : Connect(s) \/ ConnectFails(s) \/ Close(s)
    \/ \E s \in Session, want \in 1..MaxLen : ReceiveBuffered(s, want)
    \/ \E s \in Session, want \in 1..MaxLen, plain \in Chunk : ReceiveRecord(s, want, plain)
    \/ AnyUse

SharedSpec == SharedInit /\ [][SharedNext]_<<vars, sharedVars>>

-----------------------------------------------------------------------------

\* As long as no session acts while another has bytes waiting, each caller gets
\* exactly the bytes decrypted on its own connection, in order: what it has been
\* given and what waits for it in g_rbuf is all there was.  Connections may
\* overlap, as long as a session reads to the end before the next one acts.
OwnBytes ==
    ~mixed => \A s \in up :
        stream[s] = got[s] \o (IF owner = s THEN Unread ELSE <<>>)
=============================================================================

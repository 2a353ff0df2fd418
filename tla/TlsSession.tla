----------------------------- MODULE TlsSession -----------------------------
(***************************************************************************)
(* tls/tlslib.c: one tls_session_t, the static receive buffer g_rbuf, the  *)
(* caller that uses them one call at a time, the TCP connection and the    *)
(* TLS server behind it.  The client is one thread: a step of it runs to   *)
(* the next place where it blocks (tcp_recv_some) or to the next iteration *)
(* of a picotls loop.  The network and the server move in between.         *)
(*                                                                         *)
(* g_rbuf appears as the bytes it holds; RecvBuffer shows that its array   *)
(* and cursors implement exactly that.                                     *)
(***************************************************************************)
EXTENDS Picotls, FiniteSets

CONSTANTS
    Flights,       \* what the server may answer a ClientHello with
    PlainCapacity, \* TLS_PLAIN_BUF_SIZE, in application bytes
    RawCapacity,   \* TLS_RAW_BUF_SIZE, in units
    AllocFails,    \* BOOLEAN if pen_malloc may fail, {FALSE} if not
    TicketRecords, \* the numbers of records a ticket may take: 1, 2 or both
    EarlyTicket,   \* the server sends tickets before the client's Finished
    MaxConn,       \* bound: connections made
    MaxBytes,      \* bound: application bytes the server sends, per connection
    MaxRecord,     \* bound: application bytes in a record
    MaxRetry,      \* bound: HelloRetryRequests, per connection
    MaxControl,    \* bound: tickets and key updates, per connection
    MaxSend        \* bound: tls_send calls that succeed, per connection

\* What a record can carry besides application bytes: handshake messages, the
\* parts of those that are cut in two, what an alert says, and anything else.
Contents == {"HRR", "SH", "EE", "CR", "CERT", "CV", "FIN", "NST", "KU", "KU_REQUEST",
             "SH-", "-SH", "CERT-", "-CERT", "NST-", "-NST",
             "fatal", "close_notify", "unknown"}

ASSUME SizesAssumption ==
    /\ PlainCapacity \in Nat \ {0} /\ RawCapacity \in Nat \ {0}
    /\ MaxConn \in Nat /\ MaxBytes \in Nat /\ MaxRecord \in Nat /\ MaxRetry \in Nat
    /\ MaxControl \in Nat /\ MaxSend \in Nat
ASSUME FitsAssumption == MaxRecord <= PlainCapacity
ASSUME BooleansAssumption == AllocFails \subseteq BOOLEAN /\ EarlyTicket \in BOOLEAN
ASSUME FlightsAssumption ==
    Flights \subseteq Seq([ct : {"ccs", "alert", "hs", "app"}, enc : BOOLEAN,
                           body : Seq(Contents)])
ASSUME TicketAssumption == TicketRecords \subseteq {1, 2}

VARIABLES
    pc,    \* where the caller's thread is: "idle" between calls
    args,  \* of tls_recv / tls_recv_exact: [want, have, exact, timed]
    ret,   \* what the last call returned
    sock,  \* session->sock: "INVALID" or "OPEN"
    rbuf,  \* g_rbuf: decrypted bytes not handed out yet
    fds,   \* descriptors this process holds open
    heap,  \* what is allocated: the buffers of the calls and the picotls handle
    net,   \* the TCP connection: "none", "up", "fin" (peer closed), "rst"
    wire,  \* units sent by the server and not received by the client
    c2s,   \* the messages of the client that the server got and can read
    srv,   \* the server: [phase, hellos, ep, sq, bytes, control, honest]
    got,   \* history: bytes handed to the caller on this connection
    conn,  \* history: connections made so far
    gap,   \* history: the client sealed records that the server never got, and
           \* can read none that follow: their numbers, or their key, are ahead
    due    \* history: the client has handled a KeyUpdate that asks for one, and
           \* none of its own has reached the server since

clientVars == <<pc, args, ret, sock, rbuf, fds, heap, got, conn, gap, due>>
vars == <<ptlsVars, clientVars, net, wire, c2s, srv>>

NoArgs == [want |-> 0, have |-> 0, exact |-> FALSE, timed |-> FALSE]
NoServer == [phase |-> "none", hellos |-> 0, ep |-> 0, sq |-> 0, bytes |-> 0, control |-> 0,
             honest |-> TRUE]

\* Byte k of what the server sends on connection c, different from every byte
\* of another connection.
StreamByte(c, k) == c * (MaxBytes + 1) + k

\* Everything the server's application has sent on this connection.
Stream == [k \in 1..srv.bytes |-> StreamByte(conn, k)]

\* tls_is_connected
tls_is_connected == sock = "OPEN" /\ tls.st # "NULL"

Count(m) == Cardinality({i \in DOMAIN c2s : c2s[i] = m})

Init ==
    /\ pc = "idle" /\ args = NoArgs /\ ret = 0
    /\ sock = "INVALID" /\ tls = NoTls
    /\ raw = <<>> /\ res = "OK" /\ plain = <<>> /\ sendbuf = <<>> /\ seen = <<>>
    /\ rbuf = <<>> /\ fds = 0 /\ heap = {}
    /\ net = "none" /\ wire = <<>> /\ c2s = <<>> /\ srv = NoServer
    /\ got = <<>> /\ conn = 0 /\ gap = FALSE /\ due = FALSE

-----------------------------------------------------------------------------
(* The server and the network.  Modelled from what picotls expects of it.  *)

\* What may follow a message, or a part of one, in the same record; and from one
\* record to the next, where keys change and messages may be cut.
InRecord == {<<"EE", "CR">>, <<"EE", "CERT">>, <<"EE", "CERT-">>, <<"CR", "CERT">>,
             <<"CR", "CERT-">>, <<"CERT", "CV">>, <<"-CERT", "CV">>, <<"CV", "FIN">>}
OverRecords == InRecord \cup
    {<<"SH", "EE">>, <<"-SH", "EE">>, <<"SH-", "-SH">>, <<"CERT-", "-CERT">>}

\* A record with part of the first flight: ServerHello is in clear, and all that
\* follows it is not.
FlightPart(r) ==
    /\ r.ct = "hs" /\ r.body # <<>>
    /\ r.enc <=> r.body[1] \notin {"SH", "SH-", "-SH"}
    /\ \A i \in 1..Len(r.body) - 1 : <<r.body[i], r.body[i + 1]>> \in InRecord

IsCcs(r) == r.ct = "ccs" /\ ~r.enc /\ r.body = <<>>

\* The last message, or part of one, in a record.
LastIn(r) == r.body[Len(r.body)]

\* ServerHello to Finished, in any number of records, with change_cipher_spec
\* records anywhere between them.
WholeFlight(f) ==
    LET hs == {i \in DOMAIN f : ~IsCcs(f[i])} IN
    /\ \A i \in hs : FlightPart(f[i])
    /\ Len(f) \in hs /\ LastIn(f[Len(f)]) = "FIN"
    /\ \A j \in hs :
          \/ \E i \in hs : i < j /\ (i + 1..j - 1) \cap hs = {}
                           /\ <<LastIn(f[i]), f[j].body[1]>> \in OverRecords
          \/ (1..j - 1) \cap hs = {} /\ f[j].body[1] \in {"SH", "SH-"}

IsRetry(f) ==
    /\ f # <<>> /\ f[1].ct = "hs" /\ ~f[1].enc /\ f[1].body = <<"HRR">>
    /\ \A i \in 2..Len(f) : IsCcs(f[i])

\* The flights that keep to the protocol.
Honest == {f \in Flights : WholeFlight(f) \/ IsRetry(f)}

\* The records of fs on the wire, each a header and a fragment.
Units(fs) == [i \in 1..2 * Len(fs) |->
                [rec |-> fs[(i + 1) \div 2], part |-> IF i % 2 = 1 THEN 1 ELSE 2]]

\* Flight f with the protected records numbered.
Numbered(f) == [i \in DOMAIN f |->
    [ct |-> f[i].ct, body |-> f[i].body,
     ep |-> IF f[i].enc THEN 2 ELSE 0,
     sq |-> IF f[i].enc THEN Cardinality({j \in 1..i - 1 : f[j].enc}) ELSE 0]]

\* A record under the server's current key.
Sealed(ct, body) == [ct |-> ct, ep |-> srv.ep, sq |-> srv.sq, body |-> body]

ServerSends(r) == wire' = wire \o Units(<<r>>)

ServerKeeps == UNCHANGED <<ptlsVars, clientVars, c2s>>

\* The answer to a ClientHello: a HelloRetryRequest, also a second time, or the
\* whole first flight.
ServerFlight(f) ==
    LET retry == f[1].body = <<"HRR">> IN
    /\ net = "up" /\ srv.phase = "wait_hello"
    /\ Count("CLIENT_HELLO") = srv.hellos + 1
    /\ retry => srv.hellos < MaxRetry
    /\ wire' = wire \o Units(Numbered(f))
    /\ srv' = [srv EXCEPT !.hellos = @ + 1, !.honest = @ /\ f \in Honest,
                          !.phase = IF retry THEN @ ELSE "wait_finished",
                          !.ep = IF retry THEN @ ELSE 3]
    /\ ServerKeeps /\ UNCHANGED net

ServerEstablished ==
    /\ net = "up" /\ srv.phase = "wait_finished" /\ Count("FINISHED") = 1
    /\ srv' = [srv EXCEPT !.phase = "up"]
    /\ ServerKeeps /\ UNCHANGED <<net, wire>>

ServerApp(n) ==
    /\ net = "up" /\ srv.phase = "up" /\ srv.bytes + n <= MaxBytes
    /\ ServerSends(Sealed("app", [k \in 1..n |-> StreamByte(conn, srv.bytes + k)]))
    /\ srv' = [srv EXCEPT !.sq = @ + 1, !.bytes = @ + n]
    /\ ServerKeeps /\ UNCHANGED net

\* A ticket, in one record or cut in two.
ServerTicket(n) ==
    /\ net = "up" /\ srv.control < MaxControl
    /\ srv.phase = "up" \/ (EarlyTicket /\ srv.phase = "wait_finished")
    /\ wire' = wire \o
         Units(IF n = 1 THEN <<Sealed("hs", <<"NST">>)>>
               ELSE <<Sealed("hs", <<"NST-">>),
                      [Sealed("hs", <<"-NST">>) EXCEPT !.sq = @ + 1]>>)
    /\ srv' = [srv EXCEPT !.sq = @ + n, !.control = @ + 1]
    /\ ServerKeeps /\ UNCHANGED net

ServerKeyUpdate(m) ==
    /\ net = "up" /\ srv.phase = "up" /\ srv.control < MaxControl
    /\ ServerSends(Sealed("hs", <<m>>))
    /\ srv' = [srv EXCEPT !.ep = @ + 1, !.sq = 0, !.control = @ + 1]
    /\ ServerKeeps /\ UNCHANGED net

\* close_notify, then FIN.
ServerCloses ==
    /\ net = "up" /\ srv.phase = "up"
    /\ ServerSends(Sealed("alert", <<"close_notify">>))
    /\ srv' = [srv EXCEPT !.sq = @ + 1]
    /\ net' = "fin"
    /\ ServerKeeps

\* The server goes away without a word of TLS.
NetFin == net = "up" /\ net' = "fin" /\ ServerKeeps /\ UNCHANGED <<wire, srv>>

\* A reset: what is in flight is lost, poll reports POLLERR from now on.
NetReset ==
    /\ net \in {"up", "fin"}
    /\ net' = "rst" /\ wire' = <<>>
    /\ ServerKeeps /\ UNCHANGED srv

Environment ==
    \/ \E f \in Flights : ServerFlight(f)
    \/ ServerEstablished \/ ServerCloses \/ NetFin \/ NetReset
    \/ \E n \in TicketRecords : ServerTicket(n)
    \/ \E n \in 1..MaxRecord : ServerApp(n)
    \/ \E m \in {"KU", "KU_REQUEST"} : ServerKeyUpdate(m)

-----------------------------------------------------------------------------
(* Building blocks of the client.                                          *)

Return(r) == pc' = "idle" /\ args' = NoArgs /\ ret' = r

\* tcp_send_all: on a connection that is not up the send fails now or later.
SendOutcomes == IF net = "up" THEN {TRUE} ELSE IF net = "fin" THEN BOOLEAN ELSE {FALSE}

\* What is left of the TCP connection once sock_close was called.
Hangup == fds' = fds - 1 /\ net' = "none" /\ wire' = <<>> /\ srv' = NoServer

\* A picotls handle that is new or freed holds nothing of an earlier one.
FreshTls(t, r) ==
    /\ tls' = t /\ res' = r
    /\ raw' = <<>> /\ plain' = <<>> /\ sendbuf' = <<>> /\ seen' = <<>>

\* Faulty variant: the close_notify goes out before the messages of the step.
tls_close_first(ms, held) ==
    /\ \E sent \in SendOutcomes :
          c2s' = c2s \o (IF tls_is_connected /\ sent /\ ~gap
                        THEN <<"CLOSE_NOTIFY">> ELSE <<>>) \o ms
    /\ gap' = FALSE /\ due' = FALSE
    /\ FreshTls(NoTls, "OK") /\ heap' = held \ {"ptls"}
    /\ Hangup /\ sock' = "INVALID"
    /\ rbuf' = <<>> /\ got' = <<>>
    /\ UNCHANGED conn

\* tls_close after the messages ms were sent, by a caller that holds `held`: the
\* alert goes out if it can (its result is ignored), the handle is freed, the
\* socket closed, the buffer reset.
tls_close(ms, held) ==
    /\ \E sent \in SendOutcomes :
          c2s' = c2s \o ms \o (IF tls_is_connected /\ sent /\ ~gap
                               THEN <<"CLOSE_NOTIFY">> ELSE <<>>)
    /\ gap' = FALSE /\ due' = FALSE
    /\ FreshTls(NoTls, "OK") /\ heap' = held \ {"ptls"}
    /\ Hangup /\ sock' = "INVALID"
    /\ rbuf' = <<>> /\ got' = <<>>
    /\ UNCHANGED conn

\* A TCP read of the first n units that have arrived.
ReadSome(n) ==
    /\ net # "rst" /\ n <= Len(wire) /\ n <= RawCapacity
    /\ raw' = SubSeq(wire, 1, n)
    /\ wire' = SubSeq(wire, n + 1, Len(wire))
    /\ tls' = [tls EXCEPT !.slow = tls.rec # <<>>]

\* tcp_recv_some fails: a reset, or the end of the stream.
ReadFails == net = "rst" \/ (net = "fin" /\ wire = <<>>)

\* poll expires: nothing has arrived and nobody has closed.
ReadTimesOut == net = "up" /\ wire = <<>>

-----------------------------------------------------------------------------
(* tls_connect                                                             *)

\* tcp_connect fails: the session is left as it was.  (tls_send and tls_recv on a
\* session that is not connected do the same.)
ConnectRefused ==
    /\ pc = "idle" /\ ~tls_is_connected
    /\ Return(-1)
    /\ UNCHANGED <<ptlsVars, sock, rbuf, fds, heap, got, conn, gap, due, net, wire, c2s, srv>>

\* tcp_connect returns a socket, in a local variable as yet.
Connect ==
    /\ pc = "idle" /\ ~tls_is_connected /\ conn < MaxConn
    /\ pc' = "connect_new" /\ conn' = conn + 1
    /\ fds' = fds + 1 /\ net' = "up" /\ wire' = <<>> /\ c2s' = <<>>
    /\ srv' = [NoServer EXCEPT !.phase = "wait_hello"]
    /\ got' = <<>> /\ gap' = FALSE /\ due' = FALSE
    /\ UNCHANGED <<ptlsVars, args, ret, sock, rbuf, heap>>

\* ptls_client_new; without memory the socket is closed.
ConnectNew ==
    /\ pc = "connect_new"
    /\ \/ /\ FreshTls(NewClient, "OK") /\ heap' = heap \cup {"ptls"}
          /\ pc' = "connect_name"
          /\ UNCHANGED <<args, ret, fds, net, wire, srv>>
       \/ /\ TRUE \in AllocFails
          /\ Hangup /\ Return(-1)
          /\ UNCHANGED <<ptlsVars, heap>>
    /\ UNCHANGED <<sock, rbuf, got, conn, gap, due, c2s>>

\* Faulty variant: the handle is not freed on this return.
ConnectName_leak ==
    /\ pc = "connect_name"
    /\ \/ /\ pc' = "connect_buf" /\ sock' = "OPEN" /\ rbuf' = <<>>
          /\ UNCHANGED <<ptlsVars, args, ret, fds, heap, net, wire, srv>>
       \/ /\ TRUE \in AllocFails
          /\ FreshTls(NoTls, "OK") /\ heap' = heap
          /\ Hangup /\ Return(-1)
          /\ UNCHANGED <<sock, rbuf>>
    /\ UNCHANGED <<got, conn, gap, due, c2s>>

\* ptls_set_server_name; then the session gets its socket and g_rbuf is reset.
\* Without memory for the name the handle is freed and the socket closed.
ConnectName ==
    /\ pc = "connect_name"
    /\ \/ /\ pc' = "connect_buf" /\ sock' = "OPEN" /\ rbuf' = <<>>
          /\ UNCHANGED <<ptlsVars, args, ret, fds, heap, net, wire, srv>>
       \/ /\ TRUE \in AllocFails
          /\ FreshTls(NoTls, "OK") /\ heap' = heap \ {"ptls"}
          /\ Hangup /\ Return(-1)
          /\ UNCHANGED <<sock, rbuf>>
    /\ UNCHANGED <<got, conn, gap, due, c2s>>

\* raw_in is allocated, or tls_close ends the session.
ConnectBuffer ==
    /\ pc = "connect_buf"
    /\ \/ /\ heap' = heap \cup {"raw_in"} /\ pc' = "hs_start"
          /\ UNCHANGED <<ptlsVars, args, ret, sock, rbuf, fds, got, conn, gap, due,
                         net, wire, c2s, srv>>
       \/ TRUE \in AllocFails /\ tls_close(<<>>, heap) /\ Return(-1)

\* The first tls_handshake_step, without input (its hs_buf comes and goes within
\* it): the ClientHello goes out, or there is no memory for hs_buf or no
\* connection any more, and tls_connect gives up.
HandshakeStarts ==
    /\ pc = "hs_start"
    /\ \/ /\ TRUE \in SendOutcomes
          /\ c2s' = Append(c2s, "CLIENT_HELLO")
          /\ tls' = [tls EXCEPT !.st = "EXPECT_SERVER_HELLO"] /\ res' = "IN_PROGRESS"
          /\ pc' = "hs_recv"
          /\ UNCHANGED <<raw, plain, sendbuf, seen, args, ret, sock, rbuf, fds, heap,
                         got, conn, gap, due, net, wire, srv>>
       \/ /\ TRUE \in AllocFails \/ FALSE \in SendOutcomes
          /\ tls_close(<<>>, heap \ {"raw_in"}) /\ Return(-1)

\* Bytes arrive and tls_handshake_step starts on them.
HandshakeRead(n) ==
    /\ pc = "hs_recv"
    /\ ReadSome(n)
    /\ pc' = "hs_input" /\ res' = "IN_PROGRESS"
    /\ heap' = heap \cup {"hs_buf"}
    /\ UNCHANGED <<plain, sendbuf, seen, args, ret, sock, rbuf, fds, got, conn, gap,
                   due, net, c2s, srv>>

\* One iteration of the loop in ptls_handshake.
HandshakeInput ==
    /\ pc = "hs_input" /\ HandshakeGoesOn
    /\ handle_input
    /\ UNCHANGED <<clientVars, net, wire, c2s, srv>>

\* The read is used up and more is needed: the answer, if any, is sent and the
\* handshake waits for the next read.
HandshakeContinues ==
    /\ pc = "hs_input" /\ ~HandshakeGoesOn /\ res = "IN_PROGRESS"
    /\ sendbuf = <<>> \/ TRUE \in SendOutcomes
    /\ c2s' = c2s \o Flight /\ sendbuf' = <<>>
    /\ pc' = "hs_recv" /\ heap' = heap \ {"hs_buf"}
    /\ UNCHANGED <<tls, raw, res, plain, seen, args, ret, sock, rbuf, fds, got,
                   conn, gap, due, net, wire, srv>>

\* The server's Finished has been handled and the client's own is sent.  The
\* rest of the read is dropped: `consumed` is never looked at.
HandshakeCompletes ==
    /\ pc = "hs_input" /\ ~HandshakeGoesOn /\ res = "OK"
    /\ TRUE \in SendOutcomes
    /\ c2s' = c2s \o Flight /\ sendbuf' = <<>> /\ raw' = <<>>
    /\ heap' = heap \ {"hs_buf", "raw_in"}
    /\ Return(0)
    /\ UNCHANGED <<tls, res, plain, seen, sock, rbuf, fds, got, conn, gap, due, net,
                   wire, srv>>

\* Faulty variant: the error return forgets to close the session.
HandshakeFails_open ==
    /\ pc = "hs_input" /\ ~HandshakeGoesOn /\ res \in {"SELF_ALERT", "PEER_ALERT"}
    /\ c2s' = c2s \o Flight /\ sendbuf' = <<>> /\ raw' = <<>>
    /\ heap' = heap \ {"hs_buf", "raw_in"}
    /\ Return(-1)
    /\ UNCHANGED <<tls, res, plain, seen, sock, rbuf, fds, got, conn, gap, due, net,
                   wire, srv>>

\* A handshake error, after its alert; or the answer could not be sent.
HandshakeFails ==
    LET left == heap \ {"hs_buf", "raw_in"} IN
    /\ pc = "hs_input" /\ ~HandshakeGoesOn
    /\ \/ res \in {"SELF_ALERT", "PEER_ALERT"}
          /\ \E sent \in SendOutcomes : tls_close(IF sent THEN Flight ELSE <<>>, left)
       \/ res \in {"OK", "IN_PROGRESS"} /\ Flight # <<>> /\ FALSE \in SendOutcomes
          /\ tls_close(<<>>, left)
    /\ Return(-1)

\* The read times out or fails, or there is no memory for the next step.
HandshakeAborts ==
    /\ pc = "hs_recv"
    /\ ReadTimesOut \/ ReadFails \/ (wire # <<>> /\ TRUE \in AllocFails)
    /\ tls_close(<<>>, heap \ {"raw_in"})
    /\ Return(-1)

-----------------------------------------------------------------------------
(* tls_send and tls_close as calls of the user                             *)

\* What ptls_send puts in front of the data.
PendingUpdate == IF tls.wantKU THEN <<"KEY_UPDATE">> ELSE <<>>

\* The messages ms of a tls_send reach the server.
Says(ms) ==
    /\ c2s' = IF gap THEN c2s ELSE c2s \o ms
    /\ due' = (due /\ (gap \/ ms = <<>> \/ Head(ms) # "KEY_UPDATE"))

SendKeeps ==
    UNCHANGED <<raw, res, plain, sendbuf, seen, sock, rbuf, fds, heap, got, conn, net,
                wire, srv>>

\* A pending key update goes out first.  (enc_buf comes and goes within the call.)
Send ==
    /\ pc = "idle" /\ tls_is_connected /\ Count("DATA") < MaxSend
    /\ TRUE \in SendOutcomes
    /\ Says(PendingUpdate \o <<"DATA">>) /\ gap' = gap
    /\ tls' = [tls EXCEPT !.wantKU = FALSE]
    /\ Return(0)
    /\ SendKeeps

\* Faulty variant: needs_key_update is cleared before it is known that there is
\* memory to send anything.
SendFails_clears ==
    /\ pc = "idle" /\ tls_is_connected
    /\ \/ TRUE \in AllocFails /\ Says(<<>>) /\ gap' = gap
       \/ /\ TRUE \in AllocFails \/ FALSE \in SendOutcomes
          /\ Says(<<>>) /\ gap' = TRUE
       \/ FALSE \in SendOutcomes /\ Says(PendingUpdate) /\ gap' = TRUE
    /\ tls' = [tls EXCEPT !.wantKU = FALSE]
    /\ Return(-1)
    /\ SendKeeps

\* There is no memory for enc_buf, or none for the first record, and nothing has
\* changed.  Or ptls_send runs out of memory behind a record that it has sealed,
\* or TCP refuses what it sealed, all of it or what follows the key update: then
\* needs_key_update is cleared and the server can read nothing from here on.
SendFails ==
    /\ pc = "idle" /\ tls_is_connected
    /\ \/ TRUE \in AllocFails /\ Says(<<>>) /\ gap' = gap /\ tls' = tls
       \/ /\ TRUE \in AllocFails \/ FALSE \in SendOutcomes
          /\ Says(<<>>) /\ gap' = TRUE /\ tls' = [tls EXCEPT !.wantKU = FALSE]
       \/ /\ FALSE \in SendOutcomes
          /\ Says(PendingUpdate) /\ gap' = TRUE /\ tls' = [tls EXCEPT !.wantKU = FALSE]
    /\ Return(-1)
    /\ SendKeeps

Close ==
    /\ pc = "idle" /\ tls_is_connected
    /\ tls_close(<<>>, heap)
    /\ Return(ret)

-----------------------------------------------------------------------------
(* tls_recv and tls_recv_exact                                             *)

ReceiveKeeps == UNCHANGED <<sock, fds, conn, gap, due, net, c2s, srv>>

\* n more bytes: tls_recv returns with them, tls_recv_exact calls it again for
\* what it still wants.
Delivered(n) ==
    LET have == args.have + n IN
    IF args.exact /\ have < args.want
    THEN pc' = "recv_call" /\ args' = [args EXCEPT !.have = have] /\ ret' = ret
    ELSE Return(0)

\* tls_recv or tls_recv_exact is called.
ReceiveCall(a) ==
    /\ pc = "idle" /\ tls_is_connected
    /\ pc' = "recv_call" /\ args' = a
    /\ ReceiveKeeps /\ UNCHANGED <<ptlsVars, wire, rbuf, got, ret, heap>>

\* The bytes of q that the caller has room for.
Taken(q) == LET room == args.want - args.have IN IF Len(q) < room THEN Len(q) ELSE room

\* Faulty variant: head is not advanced.
ReceiveBuffered_noAdvance ==
    /\ pc = "recv_call" /\ rbuf # <<>>
    /\ Len(got) < MaxBytes
    /\ got' = got \o SubSeq(rbuf, 1, Taken(rbuf))
    /\ Delivered(Taken(rbuf))
    /\ ReceiveKeeps /\ UNCHANGED <<ptlsVars, wire, heap, rbuf>>

\* tls_recv finds bytes in the buffer and hands them out without a read.
ReceiveBuffered ==
    /\ pc = "recv_call" /\ rbuf # <<>>
    /\ got' = got \o SubSeq(rbuf, 1, Taken(rbuf))
    /\ rbuf' = SubSeq(rbuf, Taken(rbuf) + 1, Len(rbuf))
    /\ Delivered(Taken(rbuf))
    /\ ReceiveKeeps /\ UNCHANGED <<ptlsVars, wire, heap>>

RecvBuffers == {"raw", "plain_heap"}

\* The buffer is empty and tls_recv has to read: it allocates its two buffers.
\* If it does not get both, it frees the one it got.
ReceiveAllocates ==
    /\ pc = "recv_call" /\ rbuf = <<>>
    /\ \/ /\ heap' = heap \cup RecvBuffers
          /\ pc' = "recv" /\ UNCHANGED <<args, ret>>
       \/ /\ TRUE \in AllocFails
          /\ \E b \in SUBSET RecvBuffers \ {RecvBuffers} :
                heap' = (heap \cup b) \ RecvBuffers
          /\ Return(-1)
    /\ ReceiveKeeps /\ UNCHANGED <<ptlsVars, wire, rbuf, got>>

\* The label cleanup: tls_recv frees its buffers on every way out.
Cleanup == heap' = heap \ RecvBuffers

ReceiveRead(n) ==
    /\ pc = "recv"
    /\ ReadSome(n)
    /\ pc' = "recv_input" /\ res' = "OK" /\ plain' = <<>>
    /\ ReceiveKeeps
    /\ UNCHANGED <<sendbuf, seen, args, ret, rbuf, heap, got>>

\* One iteration of the loop in ptls_receive.
ReceiveInput ==
    /\ pc = "recv_input" /\ ReceiveGoesOn
    /\ handle_input
    /\ due' = (due \/ (tls.mess # <<>> /\ Head(tls.mess) = "KU_REQUEST"))
    /\ UNCHANGED <<pc, args, ret, sock, rbuf, fds, heap, got, conn, gap, net, wire, c2s, srv>>

\* Application bytes: the caller gets what it has room for and the rest goes to
\* the buffer if it fits (rbuf_push's refusal is ignored).  What is left of the
\* read is dropped: `consumed` is never looked at.
ReceiveDelivers ==
    /\ pc = "recv_input" /\ ~ReceiveGoesOn /\ res = "OK" /\ plain # <<>>
    /\ got' = got \o SubSeq(plain, 1, Taken(plain))
    /\ LET rest == SubSeq(plain, Taken(plain) + 1, Len(plain)) IN
        rbuf' = IF Len(rbuf) + Len(rest) <= PlainCapacity THEN rbuf \o rest ELSE rbuf
    /\ Cleanup /\ Delivered(Taken(plain))
    /\ raw' = <<>> /\ plain' = <<>>
    /\ ReceiveKeeps /\ UNCHANGED <<tls, res, sendbuf, seen, wire>>

\* Control records, or part of a record: the call reads again.
ReceiveReadsOn ==
    /\ pc = "recv_input" /\ ~ReceiveGoesOn
    /\ res \in {"OK", "IN_PROGRESS"} /\ plain = <<>>
    /\ pc' = "recv" /\ raw' = <<>>
    /\ ReceiveKeeps
    /\ UNCHANGED <<tls, res, plain, sendbuf, seen, args, ret, rbuf, heap, got, wire>>

\* A record error or an alert: the call fails, the session stays open.
ReceiveFails ==
    /\ pc = "recv_input" /\ ~ReceiveGoesOn /\ res \in {"SELF_ALERT", "PEER_ALERT"}
    /\ Cleanup /\ Return(-1) /\ raw' = <<>>
    /\ ReceiveKeeps /\ UNCHANGED <<tls, res, plain, sendbuf, seen, rbuf, got, wire>>

ReceiveDisconnected ==
    /\ pc = "recv" /\ ReadFails
    /\ Cleanup /\ Return(-1)
    /\ ReceiveKeeps /\ UNCHANGED <<ptlsVars, wire, rbuf, got>>

\* Faulty variant: the call waits once more instead of returning.
ReceiveTimesOut_retries ==
    /\ pc = "recv" /\ args.timed /\ ReadTimesOut
    /\ UNCHANGED vars

ReceiveTimesOut ==
    /\ pc = "recv" /\ args.timed /\ ReadTimesOut
    /\ Cleanup /\ Return(1)
    /\ ReceiveKeeps /\ UNCHANGED <<ptlsVars, wire, rbuf, got>>

-----------------------------------------------------------------------------

\* What a caller asks for.  (For one byte the two functions do the same.)
Args == {a \in [want : 1..MaxRecord, have : {0}, exact : BOOLEAN, timed : BOOLEAN] :
            a.exact => a.want > 1}

\* Steps the caller chooses to start.
Calls ==
    \/ ConnectRefused \/ Connect
    \/ Send \/ SendFails \/ Close
    \/ \E a \in Args : ReceiveCall(a)

\* Steps of a call in progress.
Running ==
    \/ ConnectNew \/ ConnectName \/ ConnectBuffer \/ HandshakeStarts
    \/ \E n \in 1..RawCapacity : HandshakeRead(n) \/ ReceiveRead(n)
    \/ HandshakeInput \/ HandshakeContinues \/ HandshakeCompletes
    \/ HandshakeFails \/ HandshakeAborts
    \/ ReceiveBuffered \/ ReceiveAllocates
    \/ ReceiveInput \/ ReceiveDelivers \/ ReceiveReadsOn \/ ReceiveFails
    \/ ReceiveDisconnected \/ ReceiveTimesOut

Next == Environment \/ Calls \/ Running

Spec == Init /\ [][Next]_vars

\* The thread of a call in progress is scheduled, and poll does expire.
FairSpec == Spec /\ WF_vars(Running)
-----------------------------------------------------------------------------
(* Properties                                                              *)

Locations == {"idle", "connect_new", "connect_name", "connect_buf", "hs_start", "hs_recv",
              "hs_input", "recv_call", "recv", "recv_input"}

TypeOK ==
    /\ pc \in Locations /\ ret \in {-1, 0, 1}
    /\ args.want \in 0..MaxRecord /\ args.have \in 0..args.want
    /\ tls.st \in HandshakeStates \cup {"HANDSHAKE_START", "POST_HANDSHAKE", "NULL"}
    /\ Len(tls.rec) <= 2 /\ (Len(tls.rec) = 2 => tls.slow)
    /\ tls.part = <<>> \/ \E c \in Cuts : tls.part = <<c[1]>>
    /\ tls.dec.ep \in Nat /\ tls.dec.sq \in Nat
    /\ res \in Results
    /\ sock \in {"INVALID", "OPEN"} /\ fds \in Nat
    /\ heap \subseteq {"ptls", "raw_in", "hs_buf", "raw", "plain_heap"}
    /\ net \in {"none", "up", "fin", "rst"}
    /\ Len(rbuf) <= PlainCapacity
    /\ conn \in 0..MaxConn

\* The bytes handed to the caller, then those waiting in g_rbuf, are a prefix of
\* what the server sent on this connection: whatever way TCP cuts the records,
\* whatever part of a read is dropped, after an error and after reconnecting,
\* no byte is skipped, repeated, reordered or left over from another connection
\* (tls_recv, rbuf_reset in tls_connect and tls_close).
InOrder ==
    tls.st = "POST_HANDSHAKE" =>
        /\ Len(got \o rbuf) <= srv.bytes
        /\ got \o rbuf = SubSeq(Stream, 1, Len(got \o rbuf))

\* Between calls a session that is not connected holds nothing, and one that is
\* holds its picotls handle and its socket and nothing else; every round of
\* tls_recv_exact starts without the buffers of the last one, and there is never a
\* second descriptor: whatever allocation fails, whatever TCP and the server do,
\* each return of tls_connect (tlslib.c:434-519), tls_recv (592-647) and tls_close
\* gives back what was acquired up to there.
NothingLeaks ==
    /\ pc \in {"idle", "recv_call"} =>
          /\ heap = IF tls.st = "NULL" THEN {} ELSE {"ptls"}
          /\ sock = "OPEN" <=> tls.st # "NULL"
          /\ fds = IF sock = "OPEN" THEN 1 ELSE 0
    /\ fds <= 1

Retries(n) == [i \in 1..n |-> "HRR"]

\* tls_connect returns a session only after a whole handshake: ServerHello,
\* EncryptedExtensions, Certificate, CertificateVerify and Finished, in this
\* order, with CertificateRequest at most once and in its place, and behind any
\* number of HelloRetryRequests: picotls does not refuse a second one.
WholeHandshake ==
    tls.st = "POST_HANDSHAKE" =>
        \E n \in 0..Len(seen) :
            seen \in {Retries(n) \o <<"SH", "EE", "CERT", "CV", "FIN">>,
                      Retries(n) \o <<"SH", "EE", "CR", "CERT", "CV", "FIN">>}

\* The client never refuses a handshake in which the server keeps to the
\* protocol: whatever way TCP cuts its records and its records cut the messages
\* (parse_record, recvbuf.mess), behind HelloRetryRequests and with
\* change_cipher_spec in between.
HonestNotRefused == pc = "hs_input" /\ srv.honest => res # "SELF_ALERT"

\* The assertions of picotls at the entries of ptls_handshake, ptls_receive and
\* ptls_send: the handshake runs only before its end, records are received and
\* sent only after it, also when a call follows one that failed.
PicotlsAsserts ==
    /\ pc = "hs_start" => tls.st = "HANDSHAKE_START"
    /\ pc = "hs_recv" => tls.st \in HandshakeStates
    /\ pc \in {"recv_call", "recv", "recv_input"} => tls.st = "POST_HANDSHAKE"
    /\ pc = "idle" /\ tls_is_connected => tls.st = "POST_HANDSHAKE"

\* What the server reads from this client is a TLS conversation: application
\* data and key updates only after the client's Finished, nothing after a
\* close_notify, and after a fatal alert nothing but the close_notify.
ClientMessagesInOrder ==
    \A i, j \in DOMAIN c2s : i < j =>
        /\ c2s[i] # "CLOSE_NOTIFY"
        /\ c2s[i] = "ALERT" => c2s[j] = "CLOSE_NOTIFY"
        /\ c2s[i] \in {"DATA", "KEY_UPDATE"} =>
              \E k \in 1..i - 1 : c2s[k] = "FINISHED"

\* Once the client has handled a KeyUpdate that asks for one, the next message of
\* it that the server can read is its own KeyUpdate, or the close_notify: over any
\* calls in between, tls_send that fails before, while or after picotls seals the
\* update included (tlslib.c:530-554, needs_key_update in ptls_send).
KeyUpdateAnswered ==
    [][due /\ Len(c2s') > Len(c2s) =>
        c2s'[Len(c2s) + 1] \in {"KEY_UPDATE", "CLOSE_NOTIFY"}]_vars

\* Every call comes back once the server has nothing more to say: tls_connect
\* always (its reads have a time-out), tls_recv and tls_recv_exact when given
\* one.  The time-out is that of one read: it starts anew with every record.
CallsReturn == (pc # "idle" /\ (pc \in {"recv_call", "recv", "recv_input"} => args.timed))
                  ~> (pc = "idle")

\* tls_session_t implements the byte stream of TlsChannel.
Channel == INSTANCE TlsChannel WITH
    open   <- tls.st = "POST_HANDSHAKE" /\ pc # "hs_input",
    stream <- IF tls.st = "POST_HANDSHAKE" /\ pc # "hs_input" THEN Stream ELSE <<>>,
    taken  <- IF tls.st = "POST_HANDSHAKE" /\ pc # "hs_input" THEN got ELSE <<>>

ImplementsChannel == Channel!Spec

\* tlslib.h: tls_recv and tls_recv_exact return -1 on "error or disconnection".
\* As long as the connection is up and the server keeps to the protocol there
\* is neither.
ReceiveFailsOnlyWhenBroken ==
    [][(pc \in {"recv", "recv_input"} /\ pc' = "idle" /\ ret' = -1)
          => net # "up"]_vars
=============================================================================

--------------------------- MODULE PtlsConnection ----------------------------
(***************************************************************************)
(* Two ends of picotls.c over a reliable stream in each direction, and the *)
(* applications that drive them: ptls_handshake until it returns 0, then   *)
(* ptls_receive and ptls_send; early data, key updates, a stateless retry, *)
(* an asynchronous signature, and further connections that resume with the *)
(* tickets of earlier ones.  One step is one record read and everything    *)
(* that handle_input, the handler and the end of ptls_handshake do with    *)
(* it, or one call of the application.                                     *)
(***************************************************************************)
EXTENDS PtlsServer

CONSTANTS Plans,    \* sequences of connections: [c, s, wait, lag]
          MaxSkip,  \* PTLS_MAX_EARLY_DATA_SKIP_SIZE, in records
          MaxSeq    \* records after which ptls_send changes its key

ASSUME LimitsAssumption == MaxSkip \in Nat /\ MaxSeq \in Nat \ {0}

\* ptls_context_t and ptls_handshake_properties_t, as far as the two ends use them.
PskSettings == [id : STRING, secret : STRING, hash : {"sha256", "sha384"}]

ClientSettings ==
    [ciphers : Seq(STRING), groups : Seq(STRING), negotiateFirst : BOOLEAN,
     psk : Seq(PskSettings), ticket : {<<>>}, resume : BOOLEAN, early : BOOLEAN,
     earlyRecords : Nat, save : BOOLEAN, tickets : Nat \X Nat, dheOnly : BOOLEAN,
     ech : STRING, sni : STRING, alpn : Seq(STRING), ccs : BOOLEAN, cert : BOOLEAN,
     trusts : BOOLEAN, omitEoed : BOOLEAN, records : Nat, rekeys : BOOLEAN]

ServerSettings ==
    [ciphers : Seq(STRING), preference : BOOLEAN, chacha : BOOLEAN, groups : Seq(STRING),
     psk : Seq(PskSettings), ticketKey : STRING, lifetime : Nat, maxEarly : Nat,
     retry : BOOLEAN, cookie : BOOLEAN, clientAuth : BOOLEAN, certRequired : BOOLEAN,
     dheOnly : BOOLEAN, opener : STRING, saveName : BOOLEAN, alpn : STRING,
     signs : SUBSET {"ok", "fails", "later"}, omitEoed : BOOLEAN, maxTickets : Nat,
     ageAdd : Nat, ccs : BOOLEAN, records : Nat]

Connections == [c : ClientSettings, s : ServerSettings, wait : Nat, lag : Nat]

ASSUME PlansAssumption == Plans \subseteq Seq(Connections) \ {<<>>}

VARIABLES plan,   \* the connections to be made, one of Plans
          conn,   \* which of them this is
          now,    \* get_time of the client
          store,  \* the last ticket that save_ticket was given before, if any
          cli,    \* the client's ptls_t
          srv,    \* the server's ptls_t
          toSrv,  \* records on their way to the server
          toCli   \* records on their way to the client

vars == <<plan, conn, now, store, cli, srv, toSrv, toCli>>

ClientConfig(p, n, ticket) ==
    [p[n].c EXCEPT !.ticket = IF p[n].c.resume THEN ticket ELSE <<>>]

C == ClientConfig(plan, conn, store)
S == plan[conn].s

\* The server's clock: its CH arrives `lag` later than it was sent.
ServerNow == now + plan[conn].lag

Init == /\ plan \in Plans
        /\ conn = 1 /\ now = 0 /\ store = <<>>
        /\ cli = NewClient(plan[1].c)
        /\ srv = NewServer(plan[1].s)
        /\ toSrv = <<>> /\ toCli = <<>>

Open(e) == e.ret \in {"IN_PROGRESS", "OK", "ASYNC_OPERATION"}

Sent(e) == [e EXCEPT !.out = <<>>]

-----------------------------------------------------------------------------
(* handle_input: one record                                                *)

Opened(e) == [e EXCEPT !.dec.seq = @ + 1]

Skip(s) == LET n == s.skipped[1] + 1
           IN  IF n > MaxSkip THEN Fail([s EXCEPT !.skipped = <<n>>], "HANDSHAKE_FAILURE")
               ELSE [s EXCEPT !.skipped = <<n>>]

\* Faulty variant: early data is not skipped once a key is installed.
Skipping_noKey(e, server) == server /\ e.skipped # <<>> /\ e.dec.aead = <<>>

Skipping(e, server) == server /\ e.skipped # <<>>

\* Faulty variant: early data is read and forgotten.
Deliver_late(e, m) ==
    IF e.st = "POST_HANDSHAKE" THEN [e EXCEPT !.got = Append(@, m), !.ret = "OK"]
    ELSE IF e.st = "EXPECT_END_OF_EARLY_DATA" THEN e ELSE Fail(e, "UNEXPECTED_MESSAGE")

\* Application data is delivered after the handshake, and by the server while
\* it reads early data.
Deliver(e, m) ==
    IF e.st \in {"POST_HANDSHAKE", "EXPECT_END_OF_EARLY_DATA"}
    THEN [e EXCEPT !.got = Append(@, m), !.ret = "OK"]
    ELSE Fail(e, "UNEXPECTED_MESSAGE")

\* signs is what a signature of the server comes to, if one is asked for.
Content(e, server, m, signs) ==
    CASE m.mt = "ALERT" -> Fail(e, "PEER_ALERT")
      [] m.mt = "DATA"  -> Deliver(e, m)
      [] OTHER -> IF server THEN ServerHandle(S, e, m, signs, ServerNow)
                  ELSE ClientHandle(C, e, m, now)

Input(e, server, r, signs) ==
    LET keyed == e.dec.aead # <<>>
        plain == r.key = <<>>
    IN  CASE r.msg.mt = "CCS" ->
               IF e.st = "POST_HANDSHAKE" THEN Fail(e, "HANDSHAKE_FAILURE") ELSE e
          [] plain /\ r.msg.mt = "ALERT" -> Fail(e, "PEER_ALERT")
          [] keyed /\ plain /\ r.msg.mt \notin {"CCS", "ALERT"} -> Fail(e, "HANDSHAKE_FAILURE")
          [] keyed /\ r.key = e.dec.aead /\ r.seq = e.dec.seq -> Content(Opened(e), server, r.msg, signs)
          [] ~plain /\ Skipping(e, server)
               /\ ~(keyed /\ r.key = e.dec.aead /\ r.seq = e.dec.seq) -> Skip(e)
          [] ~keyed /\ plain /\ r.msg.mt \notin {"CCS", "ALERT"} -> Content(e, server, r.msg, signs)
          [] OTHER -> Fail(e, IF keyed THEN "BAD_RECORD_MAC" ELSE "UNEXPECTED_MESSAGE")

\* ptls_send_alert: in clear as long as the client has its handshake to do.
SendAlert(e, server) ==
    LET m == [mt |-> "ALERT", desc |-> e.ret]
    IN  [e EXCEPT !.out = Append(@, IF server \/ e.st = "POST_HANDSHAKE"
                                    THEN Sealed(e.enc, m) ELSE Record(m))]

\* The end of ptls_handshake: on an error what was written is dropped, except
\* with ECH_REQUIRED, and an alert is sent; ptls_receive, in use once
\* ptls_handshake has returned 0, sends none.
Finish(before, e, server) ==
    LET goesOn  == e.ret \in {"IN_PROGRESS", "OK", "ASYNC_OPERATION", "STATELESS_RETRY"}
        dropped == [e EXCEPT !.out = IF e.ret = "ECH_REQUIRED" THEN @ ELSE <<>>]
    IN  CASE goesOn -> e
          [] ~goesOn /\ (e.ret = "PEER_ALERT" \/ before.ret = "OK") -> [e EXCEPT !.out = <<>>]
          [] OTHER -> SendAlert(dropped, server)

-----------------------------------------------------------------------------
(* Actions of the client                                                   *)

ClientGoes(e) == cli' = Sent(e) /\ toSrv' = toSrv \o e.out

ClientStart ==
    /\ Open(cli) /\ cli.st = "HANDSHAKE_START"
    /\ ClientGoes(SendClientHello(C, cli, now, FALSE, <<>>))
    /\ UNCHANGED <<plan, conn, now, store, srv, toCli>>

ClientReceive ==
    /\ Open(cli) /\ cli.st # "HANDSHAKE_START" /\ toCli # <<>>
    /\ ClientGoes(Finish(cli, Input(cli, FALSE, Head(toCli), "none"), FALSE))
    /\ toCli' = Tail(toCli)
    /\ UNCHANGED <<plan, conn, now, store, srv>>

Data(early, n) == [mt |-> "DATA", early |-> early, n |-> n]

\* ptls_send, which changes the key first if that was asked for or is due.
PtlsSend(e, m) ==
    LET due     == e.needsKU \/ e.enc.seq >= MaxSeq
        told    == Emit(e, [mt |-> "KU", request |-> e.reqKU])
        changed == IF ~due THEN e
                   ELSE [told EXCEPT !.enc = UpdateKey(@), !.needsKU = FALSE,
                                     !.reqKU = FALSE]
    IN  [Emit(changed, m) EXCEPT !.sent = Append(@, m)]

ClientSendEarly ==
    /\ Open(cli) /\ cli.usingEarly /\ Len(cli.sent) < plan[conn].c.earlyRecords
    /\ ClientGoes(PtlsSend(cli, Data(TRUE, Len(cli.sent) + 1)))
    /\ UNCHANGED <<plan, conn, now, store, srv, toCli>>

AppSent(e) == SelectSeq(e.sent, LAMBDA m : ~m.early)

ClientSend ==
    /\ cli.ret = "OK" /\ Len(AppSent(cli)) < plan[conn].c.records
    /\ ClientGoes(PtlsSend(cli, Data(FALSE, Len(AppSent(cli)) + 1)))
    /\ UNCHANGED <<plan, conn, now, store, srv, toCli>>

\* ptls_update_key by the client's application, between two of its records.
ClientUpdateKey ==
    /\ plan[conn].c.rekeys /\ cli.ret = "OK" /\ ~cli.needsKU /\ Len(AppSent(cli)) = 1
    /\ cli' = [cli EXCEPT !.needsKU = TRUE, !.reqKU = TRUE]
    /\ UNCHANGED <<plan, conn, now, store, srv, toSrv, toCli>>

\* The server has closed: what it sent is read first.
ClientEof ==
    /\ Open(cli) /\ ~Open(srv) /\ toCli = <<>>
    /\ cli' = [cli EXCEPT !.ret = "EOF"]
    /\ UNCHANGED <<plan, conn, now, store, srv, toSrv, toCli>>

-----------------------------------------------------------------------------
(* Actions of the server                                                   *)

\* After a stateless retry the second ClientHello meets a new ptls_t.
Renewed(e) == IF e.ret = "STATELESS_RETRY"
              THEN [NewServer(S) EXCEPT !.asserts = e.asserts] ELSE Sent(e)

ServerGoes(e) == srv' = Renewed(e) /\ toCli' = toCli \o e.out

ServerReceive ==
    /\ Open(srv) /\ srv.ret # "ASYNC_OPERATION" /\ toSrv # <<>>
    /\ \E signs \in S.signs :
         ServerGoes(Finish(srv, Input(srv, TRUE, Head(toSrv), signs), TRUE))
    /\ toSrv' = Tail(toSrv)
    /\ UNCHANGED <<plan, conn, now, store, cli>>

\* The record of a CertificateVerify that was begun and neither finished nor sealed.
Unfinished == Record([mt |-> "CV"])

\* server_finish_handshake is the last thing that ptls_handshake does then, so if
\* the signature fails no alert goes out, and what was begun stays in the output,
\* for the application to send or not.
Resumed(e, signs, rest) == IF signs = "fails" THEN [e EXCEPT !.out = rest] ELSE e

\* ptls_handshake called again, once the asynchronous signature is there.
ServerResume ==
    /\ srv.ret = "ASYNC_OPERATION"
    /\ \E signs \in S.signs \ {"later"}, rest \in {<<>>, <<Unfinished>>} :
         ServerGoes(Resumed(SignAndFinish(S, srv, signs, ServerNow), signs, rest))
    /\ UNCHANGED <<plan, conn, now, store, cli, toSrv>>

\* "ptls_send can be called if the state is below here": also before the
\* client's Finished has come.
ServerSend ==
    /\ srv.ret = "OK" /\ Len(srv.sent) < S.records
    /\ ServerGoes(PtlsSend(srv, Data(FALSE, Len(srv.sent) + 1)))
    /\ UNCHANGED <<plan, conn, now, store, cli, toSrv>>

-----------------------------------------------------------------------------
Complete(e) == e.st = "POST_HANDSHAKE" /\ e.ret = "OK"

Quiet == /\ Complete(cli) /\ Complete(srv) /\ toSrv = <<>> /\ toCli = <<>>
         /\ Len(AppSent(cli)) = plan[conn].c.records /\ Len(srv.sent) = S.records

\* The next connection of the plan, `wait` later.
Reconnect ==
    /\ Quiet /\ conn < Len(plan)
    /\ conn' = conn + 1
    /\ now' = now + plan[conn + 1].wait
    /\ cli' = NewClient(plan[conn + 1].c)
    /\ srv' = NewServer(plan[conn + 1].s)
    /\ store' = IF cli.saved = <<>> THEN store ELSE <<cli.saved[Len(cli.saved)]>>
    /\ UNCHANGED <<plan, toSrv, toCli>>

Client == ClientStart \/ ClientReceive \/ ClientSendEarly \/ ClientSend
          \/ ClientUpdateKey \/ ClientEof

Server == ServerReceive \/ ServerResume \/ ServerSend

Next == Client \/ Server \/ Reconnect

Spec == Init /\ [][Next]_vars

\* Weak fairness of what an application does that waits for its peer: it calls
\* ptls_handshake or ptls_receive with the next record, or sees that the stream
\* has ended.  Told by its definition: not for ever able to without doing it.
ClientCan  == cli.st = "HANDSHAKE_START" \/ (Open(cli) /\ (toCli # <<>> \/ ~Open(srv)))
ClientDoes == Len(toCli') < Len(toCli) \/ cli' # cli

ServerCan  == Open(srv) /\ (toSrv # <<>> \/ srv.ret = "ASYNC_OPERATION")
ServerDoes == Len(toSrv') < Len(toSrv) \/ srv' # srv

Fairness == /\ []<>~ClientCan \/ []<><<ClientDoes>>_vars
            /\ []<>~ServerCan \/ []<><<ServerDoes>>_vars

FairSpec == Spec /\ Fairness
-----------------------------------------------------------------------------
(* What the two configurations promise, told without the handlers          *)

EchOn       == C.ech # "off" /\ C.sni # "none"
EchAccepted == EchOn /\ C.ech = S.opener

\* The server sees the PSK: it is not behind an ECH it cannot open.
PskVisible == EchOn => EchAccepted

Common(c, s) == ToSet(c) \intersect ToSet(s)

TicketUsable == C.ticket # <<>> /\ C.groups # <<>> /\ C.psk = <<>>
                /\ plan[conn].wait < SevenDays
                /\ store[1].kx \in ToSet(C.groups) /\ store[1].cs \in ToSet(C.ciphers)

FirstShare == IF TicketUsable THEN {store[1].kx}
              ELSE IF C.groups = <<>> \/ C.negotiateFirst THEN {} ELSE {C.groups[1]}

Retried == S.groups # <<>> /\ (S.retry \/ FirstShare \intersect ToSet(S.groups) = {})

Protocol(p) == IF p.s.alpn \in ToSet(p.c.alpn) THEN p.s.alpn ELSE "none"

\* The ticket of the connection before is one both ends would take up.
Resumable ==
    /\ TicketUsable /\ PskVisible /\ ~Retried /\ S.psk = <<>> /\ ~S.clientAuth
    /\ S.ticketKey = plan[conn - 1].s.ticketKey
    /\ plan[conn].wait + plan[conn].lag - plan[conn - 1].lag \in 0..S.lifetime
    /\ <<store[1].cs>> = ChooseCipher(S, C.ciphers)
    /\ S.saveName = plan[conn - 1].s.saveName
    /\ S.saveName => C.sni = plan[conn - 1].c.sni
    /\ Protocol(plan[conn - 1]) \in {"none", Protocol(plan[conn])}

EarlyOffered == C.early /\ (C.psk # <<>> \/ (TicketUsable /\ store[1].maxEarly # 0))

EarlyAccepted ==
    /\ EarlyOffered /\ S.maxEarly # 0 /\ ~Retried
    /\ IF C.psk # <<>> THEN PskVisible
       ELSE Resumable /\ Abs(plan[conn].lag - plan[conn - 1].lag) <= EarlyDataMaxDelay

\* What a stateless retry can do: there is no early data to skip, and the
\* group that the cookie is signed for is the one of the second key share.
CookieWorks ==
    S.cookie /\ Retried /\ ~EchAccepted =>
        /\ ~EarlyOffered
        /\ \A g \in FirstShare \intersect ToSet(S.groups) :
              <<g>> = FirstOf(C.groups, ToSet(S.groups))

\* Two ends that should come to an agreement.
Compatible ==
    /\ \E cs \in Common(C.ciphers, S.ciphers) : S.psk = <<>> \/ HashOf(cs) = S.psk[1].hash
    /\ Common(C.groups, S.groups) # {} \/ (S.groups = <<>> /\ S.psk # <<>> /\ ~S.dheOnly /\ ~C.dheOnly)
    /\ C.psk = S.psk /\ (S.psk # <<>> => ~S.clientAuth)
    /\ EchOn => C.ech \in {"grease", S.opener}
    /\ C.trusts \/ C.psk # <<>> \/ Resumable
    /\ S.clientAuth /\ S.certRequired => C.cert
    /\ "fails" \notin S.signs \/ Resumable
    /\ C.omitEoed = S.omitEoed
    /\ EarlyOffered /\ ~EarlyAccepted => C.earlyRecords <= MaxSkip
    /\ CookieWorks

-----------------------------------------------------------------------------
(* Properties                                                              *)

Ends == {cli, srv}

TypeOK ==
    /\ cli.st \in {"HANDSHAKE_START", "EXPECT_SERVER_HELLO", "EXPECT_SECOND_SERVER_HELLO",
                   "EXPECT_ENCRYPTED_EXTENSIONS", "EXPECT_CERTIFICATE_REQUEST_OR_CERTIFICATE",
                   "EXPECT_CERTIFICATE", "EXPECT_CERTIFICATE_VERIFY", "EXPECT_FINISHED",
                   "POST_HANDSHAKE"}
    /\ srv.st \in {"EXPECT_CLIENT_HELLO", "EXPECT_SECOND_CLIENT_HELLO",
                   "GENERATING_CERTIFICATE_VERIFY", "EXPECT_CERTIFICATE",
                   "EXPECT_CERTIFICATE_VERIFY", "EXPECT_END_OF_EARLY_DATA",
                   "EXPECT_FINISHED", "POST_HANDSHAKE"}
    /\ \A e \in Ends : e.out = <<>> /\ e.enc.seq \in Nat /\ e.dec.seq \in Nat
                      /\ e.enc.epoch \in 0..3 /\ e.dec.epoch \in 0..3
    /\ Len(store) <= 1 /\ conn \in 1..Len(plan)

\* No pen_assert of the handshake or of the key schedule fails.
PtlsAsserts == \A e \in Ends : e.asserts /\ (e.sched # <<>> => e.sched.ok)

\* Ends that should agree never fail: whatever the order in which the records
\* of the two applications, the early data and the key updates cross.
HonestSucceeds == Compatible => \A e \in Ends : Open(e)

\* A connection resumes exactly if the ticket is one both ends would take up.
\* Its early data is accepted exactly if it is fresh and the server takes any.
ResumesWhenPossible ==
    cli.st = "POST_HANDSHAKE" =>
        /\ C.psk = <<>> => (cli.isPsk <=> Resumable)
        /\ EarlyOffered =>
             (cli.acceptance = IF EarlyAccepted THEN "ACCEPTED" ELSE "REJECTED")

\* What follows the early data: it is what an end sends first.
NotEarly(seq) == LET n == Cardinality({i \in DOMAIN seq : seq[i].early})
                 IN  SubSeq(seq, n + 1, Len(seq))

Early(seq) == {m \in ToSet(seq) : m.early}

\* The server's application never sees early data that the server has not
\* accepted.  By the end of the server's handshake it has been given all of it or
\* nothing, and the client's application has been told which.
EarlyDataAllOrNothing ==
    /\ srv.expEarly = <<>> => Early(srv.got) = {}
    /\ srv.st = "POST_HANDSHAKE" =>
         Early(srv.got) = IF cli.acceptance = "ACCEPTED" THEN Early(cli.sent) ELSE {}

\* What an application reads is what the other one sent, in that order, and
\* in the end all of it.
DeliveredInOrder ==
    LET due == IF srv.expEarly # <<>> THEN cli.sent ELSE NotEarly(cli.sent)
    IN  /\ IsPrefix(srv.got, due) /\ IsPrefix(cli.got, srv.sent)
        /\ Quiet => srv.got = due /\ cli.got = srv.sent

\* A key never protects two different records under one sequence number.
NonceUnique ==
    LET sealed == {r \in ToSet(toSrv) \union ToSet(toCli) : r.key # <<>>}
    IN  \A r1, r2 \in sealed : r1.key = r2.key /\ r1.seq = r2.seq => r1 = r2

\* When all is read, the secrets of the tickets are the ones the server put
\* into them.  It works them out before the client's flight has come, and
\* forgets the client's Certificate and CertificateVerify.
TicketsAgree ==
    Quiet /\ C.save /\ ~S.clientAuth =>
        [i \in DOMAIN cli.saved |-> cli.saved[i].secret] = srv.issued

\* An end is never stopped by a record it cannot make sense of, but in three
\* cases: a signature that fails (the flight is dropped and the alert goes out
\* under the flight's key), a certificate asked of a client whose ECH was
\* rejected, and early data that meets the new server of a stateless retry.
NeverGarbled ==
    "fails" \notin S.signs /\ ~(S.clientAuth /\ EchOn /\ ~EchAccepted) /\ CookieWorks
        => \A e \in Ends : e.ret \notin {"BAD_RECORD_MAC", "UNEXPECTED_MESSAGE"}

Outcome(e, early) ==
    <<"done", [exp |-> e.exp, cs |-> e.cs, psk |-> e.isPsk, alpn |-> e.alpn,
               ech |-> e.ech.accepted, early |-> early]>>

View(e, early) == IF e.st = "POST_HANDSHAKE" THEN Outcome(e, early)
                  ELSE IF Open(e) THEN <<"running">> ELSE <<"failed">>

Agreement == INSTANCE PtlsAgreement WITH
    client <- View(cli, IF cli.acceptance = "ACCEPTED" THEN cli.expEarly ELSE <<>>),
    server <- View(srv, srv.expEarly)

\* Both ends come to the same outcome, the client first, or to none.
ImplementsAgreement == Agreement!Spec

\* A connection that was begun ends with both ends connected or both closed.  That
\* holds also when a deferred signature fails, of which no alert tells the client
\* (picotls.c:6058): it closes at the unfinished record or at the end of the stream,
\* so it rests on an application that closes what has failed, as tls_connect does.
Settles == cli.st # "HANDSHAKE_START" ~>
              \/ Complete(cli) /\ Complete(srv)
              \/ ~Open(cli) /\ ~Open(srv)
=============================================================================

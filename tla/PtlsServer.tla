----------------------------- MODULE PtlsServer ------------------------------
(***************************************************************************)
(* The server's handlers of handshake messages in picotls.c, as PtlsClient *)
(* has the client's.  Of its own the server has                            *)
(*   name      server_name, which the on_client_hello callback saves       *)
(*   pendApp   server.pending_traffic_secret                               *)
(*   skipped   early_data_skipped_bytes, in records: <<>> for UINT32_MAX   *)
(*   tickets   num_tickets_to_send                                         *)
(*   issued    history: the resumption secrets put into tickets            *)
(***************************************************************************)
EXTENDS PtlsClient

NewServer(S) ==
    [st |-> "EXPECT_CLIENT_HELLO", sched |-> <<>>, enc |-> NoTraffic,
     dec |-> NoTraffic, pend |-> <<>>, pendApp |-> <<>>, share |-> <<>>,
     cs |-> <<>>, isPsk |-> FALSE, ech |-> NoEch, name |-> "none",
     alpn |-> "none", exp |-> <<>>, expEarly |-> <<>>, ccs |-> FALSE,
     needsKU |-> FALSE, reqKU |-> FALSE, skipped |-> <<>>, tickets |-> 0,
     issued |-> <<>>, ret |-> "IN_PROGRESS", out |-> <<>>, got |-> <<>>,
     sent |-> <<>>, asserts |-> TRUE]

ServerHelloMessage(s, retry, share, psk, cookie, ch) ==
    [mt |-> "SH", retry |-> retry, cs |-> s.cs[1], share |-> share, psk |-> psk,
     cookie |-> cookie, confirm |-> <<>>, sid |-> ch.sid]

\* The confirmation that ECH was accepted, computed over the message itself.
Confirmed(s, m, label) ==
    IF s.ech.accepted THEN [m EXCEPT !.confirm = <<Confirmation(s.sched, m, label)>>]
    ELSE m

ExternalIkm(S) == IF S.psk = <<>> THEN Zero ELSE Psk(S.psk[1].secret)

-----------------------------------------------------------------------------
(* ClientHello: what is read of it                                         *)

\* Only the inner hello counts when the server can open it.
Opens(S, ch) == /\ ch.ech # <<>> /\ ch.ech[1].typ = "outer"
                /\ S.opener # "none" /\ ch.ech[1].key = S.opener

EchAlert(S, s, ch, second) == FirstAlert(<<
    <<second /\ s.ech.on /\ ch.ech = <<>>, "MISSING_EXTENSION">>,
    <<ch.ech # <<>> /\ ch.ech[1].typ # "outer", "ILLEGAL_PARAMETER">>,
    <<second /\ s.ech.on /\ ~(Opens(S, ch) /\ ch.ech[1].second), "DECRYPT_ERROR">>,
    <<ch.ech = <<>> /\ s.ech.offered, "ILLEGAL_PARAMETER">> >>)

\* An opener is created in the first flight only.
OpenEch(S, s, ch, second) ==
    LET open == Opens(S, ch) /\ (second => s.ech.on)
    IN  [NoEch EXCEPT !.offered = s.ech.offered \/ (~second /\ ch.ech # <<>>),
                      !.on = open, !.accepted = open]

\* The on_client_hello callback: the application may save the name and pick a
\* protocol.
OnClientHello(S, s, ch) ==
    [s EXCEPT !.name = IF S.saveName THEN ch.sni ELSE "none",
              !.alpn = IF S.alpn \in ToSet(ch.alpn) THEN S.alpn ELSE "none",
              !.ccs  = @ \/ S.ccs \/ ch.sid]

HelloAlert(S, s, ch, cs, second) == FirstAlert(<<
    <<ch.psk = <<>> /\ ch.early, "ILLEGAL_PARAMETER">>,
    <<second /\ ch.early, "DECODE_ERROR">>,
    <<second /\ s.name # "none" /\ ch.sni # s.name, "HANDSHAKE_FAILURE">>,
    <<cs = <<>>, "HANDSHAKE_FAILURE">>,
    <<second /\ cs # s.cs, "HANDSHAKE_FAILURE">> >>)

-----------------------------------------------------------------------------
(* HelloRetryRequest                                                       *)

RetryRequest(s, ks, group, cookie, ch) ==
    ServerHelloMessage(s, TRUE, IF ks = <<>> THEN group ELSE <<>>, FALSE, cookie, ch)

\* Without a cookie the state machine waits for the second ClientHello; with
\* one the server keeps nothing of the first.
SendRetry(S, s, ch, ks) ==
    LET group  == FirstOf(ch.groups, ToSet(S.groups))
        hashed == Update(s.sched, ch)
        s1     == [s EXCEPT !.sched = Extract(TransformPostCh1(hashed), ExternalIkm(S))]
        kept   == Push(s1, Confirmed(s1, RetryRequest(s, ks, group, <<>>, ch), "hrr"))
        cookie == Cookie(s, group, s.sched.algos[1], ch, ks = <<>>)
        alert  == FirstAlert(<<<<ch.groups = <<>>, "MISSING_EXTENSION">>,
                               <<group = <<>>, "HANDSHAKE_FAILURE">>>>)
    IN  CASE alert # "none" -> Fail(s, alert)
          [] alert = "none" /\ S.cookie /\ ~s.ech.accepted ->
               [PushCCS(Emit(s, RetryRequest(s, ks, group, cookie, ch)))
                  EXCEPT !.ret = "STATELESS_RETRY"]
          [] OTHER -> [kept EXCEPT !.st = "EXPECT_SECOND_CLIENT_HELLO",
                                   !.skipped = IF ch.early THEN <<0>> ELSE @]

CookieValid(s, ch, ks) ==
    ch.cookie[1].sig = CookieSig(s, ks, ch.cookie[1].tbs)

\* The transcript as it was when the cookie was made.
RestoreFromCookie(S, s, ch, ks) ==
    LET hrr == ServerHelloMessage(s, TRUE, IF ch.cookie[1].tbs.sent THEN ks ELSE <<>>,
                                  FALSE, ch.cookie, ch)
    IN  [s EXCEPT !.sched = Update(Extract([@ EXCEPT !.ctx = <<ch.cookie[1].tbs.ch1>>],
                                           ExternalIkm(S)), hrr)]

-----------------------------------------------------------------------------
(* The server's flight                                                     *)

\* Faulty variant: EndOfEarlyData is forgotten.
ResumptionAhead_noEoed(S, s) ==
    DeriveResumption(Update(s.sched, [mt |-> "FIN", mac |-> <<>>]))

\* send_session_ticket: the client's remaining messages are hashed in advance.
\* The secret assumes that they are EndOfEarlyData, if due, and Finished.
ResumptionAhead(S, s) ==
    LET ended == IF s.pend # <<>> /\ ~S.omitEoed THEN Update(s.sched, [mt |-> "EOED"])
                 ELSE s.sched
    IN  DeriveResumption(Update(ended, [mt |-> "FIN", mac |-> <<>>]))

SessionTicket(S, s, secret, now) ==
    LET id == IF s.share = <<>> THEN <<>>
              ELSE <<[issued |-> now, secret |-> secret, kx |-> s.share[1], cs |-> s.cs[1],
                      ageAdd |-> S.ageAdd, name |-> s.name, alpn |-> s.alpn]>>
    IN  [mt |-> "NST", ageAdd |-> S.ageAdd, maxEarly |-> S.maxEarly,
         box |-> [key |-> S.ticketKey, id |-> id]]

\* server_finish_handshake, after CertificateVerify and Finished.
ApplicationKeys(s) ==
    LET k == Extract(s.sched, Zero)
    IN  [s EXCEPT !.sched = k, !.enc = SetupTraffic(s.cs[1], Derive(k, "s_ap_traffic"), 3),
                  !.pendApp = <<Derive(k, "c_ap_traffic")>>, !.exp = Derive(k, "exp_master"),
                  !.asserts = @ /\ s.sched.gen = 2]

AwaitClient(S, s) ==
    CASE s.pend # <<>> /\ S.omitEoed ->
           [s EXCEPT !.dec = SetupTraffic(s.cs[1], s.pend[1], 2),
                     !.pend = <<>>, !.st = "EXPECT_FINISHED"]
      [] s.pend # <<>> /\ ~S.omitEoed -> [s EXCEPT !.st = "EXPECT_END_OF_EARLY_DATA"]
      [] s.pend = <<>> /\ S.clientAuth -> [s EXCEPT !.st = "EXPECT_CERTIFICATE"]
      [] OTHER -> [s EXCEPT !.st = "EXPECT_FINISHED"]

\* Each ticket is made from the same digest: it is restored after each.
SendTickets(S, s, now) ==
    LET secret == ResumptionAhead(S, s)
        due    == s.pend # <<>> /\ ~S.omitEoed
    IN  [EmitCopies(s, SessionTicket(S, s, secret, now), s.tickets) EXCEPT
           !.issued  = @ \o [i \in 1..s.tickets |-> secret],
           !.asserts = @ /\ (s.tickets # 0 => S.lifetime # 0 /\ S.ticketKey # "none")
                         /\ (s.tickets # 0 /\ due => s.st = "EXPECT_END_OF_EARLY_DATA"),
           !.ret = IF S.clientAuth THEN "IN_PROGRESS" ELSE "OK"]

FinishFlight(S, s, now) ==
    SendTickets(S, AwaitClient(S, ApplicationKeys(SendFinished(s))), now)

\* Faulty variant: the caller is not told to come back.
SignAndFinish_inProgress(S, s, signs, now) ==
    CASE signs = "fails" -> Fail(s, "INTERNAL_ERROR")
      [] signs = "later" -> [s EXCEPT !.st = "GENERATING_CERTIFICATE_VERIFY"]
      [] OTHER -> FinishFlight(S, Push(s, [mt |-> "CV", mac |-> SignData(s.sched, "server")]), now)

\* send_certificate_verify: the callback may fail, or answer later.
SignAndFinish(S, s, signs, now) ==
    CASE signs = "fails" -> Fail(s, "INTERNAL_ERROR")
      [] signs = "later" -> [s EXCEPT !.st = "GENERATING_CERTIFICATE_VERIFY",
                                      !.ret = "ASYNC_OPERATION"]
      [] OTHER -> FinishFlight(S, Push(s, [mt |-> "CV", mac |-> SignData(s.sched, "server")]), now)

SendServerFlight(S, s, ch, signs, now) ==
    LET ee == [mt |-> "EE", name |-> s.name # "none", alpn |-> s.alpn,
               early |-> s.pend # <<>>,
               retryConfigs |-> s.ech.offered /\ ~s.ech.accepted /\ S.opener # "none"]
        s1 == Push(s, ee)
        s2 == IF S.clientAuth THEN Push(s1, [mt |-> "CR"]) ELSE s1
    IN  IF s.isPsk THEN FinishFlight(S, s1, now)
        ELSE SignAndFinish(S, Push(s2, [mt |-> "CERT", has |-> TRUE]), signs, now)

\* The keys of the handshake; the client's waits for the end of early data.
HandshakeKeys(s, ch, ks) ==
    LET k     == Extract(s.sched, IF ks = <<>> THEN Zero ELSE Dhe(ks[1]))
        peer  == Derive(k, "c_hs_traffic")
        early == s.pend # <<>>
    IN  [s EXCEPT !.sched = k, !.enc = SetupTraffic(s.cs[1], Derive(k, "s_hs_traffic"), 2),
                  !.asserts = @ /\ s.sched.gen = 1, !.ech.on = FALSE,
                  !.pend = IF early THEN <<peer>> ELSE <<>>,
                  !.dec  = IF early THEN @ ELSE SetupTraffic(s.cs[1], peer, 2),
                  !.skipped = IF ch.early /\ ~early THEN <<0>> ELSE @]

SendHello(S, s, ch, ks, signs, now) ==
    LET hello == Confirmed(s, ServerHelloMessage(s, FALSE, ks, s.isPsk, <<>>, ch), "sh")
    IN  SendServerFlight(S, HandshakeKeys(PushCCS(Push(s, hello)), ch, ks), ch, signs, now)

BinderAlert(S, s, ch, psk) ==
    IF psk.found /\ ch.psk[1].binder
                    # Binder(s.sched, ch, IF S.psk # <<>> THEN "ext_binder" ELSE "res_binder")
    THEN "DECRYPT_ERROR" ELSE "none"

\* resumed says that this is the second flight, whose early secret exists.
TriedPsk(S, s, ch, modes, resumed, now) ==
    IF /\ ch.psk # <<>> /\ modes # {} /\ ~S.clientAuth
       /\ (~resumed /\ S.ticketKey # "none") \/ S.psk # <<>>
    THEN ServerPsk(S, s, ch, now) ELSE NoPsk

AcceptAlert(S, s, ch, ks, psk, dhe) == FirstAlert(<<
    <<BinderAlert(S, s, ch, psk) # "none", "DECRYPT_ERROR">>,
    <<S.psk # <<>> /\ ~psk.found, "UNKNOWN_PSK_IDENTITY">>,
    <<dhe /\ ks = <<>>, "HANDSHAKE_FAILURE">> >>)

\* The key to read early data with.
OpenEarly(S, s, psk) ==
    IF ~(psk.early /\ S.maxEarly # 0) THEN s
    ELSE [s EXCEPT !.pend = <<<<>>>>, !.expEarly = Derive(s.sched, "e_exp_master"),
                   !.dec = SetupTraffic(s.cs[1], Derive(s.sched, "c_e_traffic"), 1)]

AcceptWith(S, s, ch, ks, psk, modes, dhe, signs, now) ==
    IF AcceptAlert(S, s, ch, ks, psk, dhe) # "none"
    THEN Fail(s, AcceptAlert(S, s, ch, ks, psk, dhe))
    ELSE SendHello(S,
           OpenEarly(S, [s EXCEPT !.sched = Update(@, ch), !.isPsk = psk.found,
                                  !.share = IF dhe THEN ks ELSE psk.kx,
                                  !.tickets = TicketCount(S, ch, psk.found, modes)], psk),
           ch, IF dhe THEN ks ELSE <<>>, signs, now)

\* The PSK, the key exchange mode and early data.
Accept(S, s, ch, ks, resumed, signs, now) ==
    LET modes == ch.modes \ (IF S.dheOnly THEN {"psk"} ELSE {})
        psk   == TriedPsk(S, s, ch, modes, resumed, now)
        ikm   == IF psk.found THEN Psk(psk.secret) ELSE Zero
    IN  AcceptWith(S, IF resumed THEN s ELSE [s EXCEPT !.sched = Extract(@, ikm)],
                   ch, ks, psk, modes, ~psk.found \/ "psk" \notin modes, signs, now)

\* What the hello leads to: a cookie is verified, a retry asked for, or the
\* handshake goes on.
AnswerHello(S, s, ch, ks, second, signs, now) ==
    LET cookie == ~second /\ ch.cookie # <<>> /\ ks # <<>>
    IN  CASE cookie ->
               IF ~CookieValid(s, ch, ks) THEN Fail(s, "HANDSHAKE_FAILURE")
               ELSE Accept(S, RestoreFromCookie(S, s, ch, ks), ch, ks, TRUE, signs, now)
          [] ~cookie /\ ~second /\ S.groups # <<>> /\ (ks = <<>> \/ S.retry) ->
               SendRetry(S, s, ch, ks)
          [] OTHER -> Accept(S, s, ch, ks, second, signs, now)

ReadHello(S, s, ch, cs, second, signs, now) ==
    LET alert == HelloAlert(S, s, ch, cs, second)
    IN  IF alert # "none" THEN Fail(s, alert)
        ELSE AnswerHello(S, IF second THEN s
                            ELSE [s EXCEPT !.cs = cs, !.sched = NewSchedule(cs, <<>>, FALSE)],
                         ch, FirstOf(ch.share, ToSet(S.groups)), second, signs, now)

\* server_handle_hello
HandleClientHello(S, s, m, signs, now) ==
    LET second == s.st = "EXPECT_SECOND_CLIENT_HELLO"
        ech    == OpenEch(S, s, m, second)
        ch     == IF ech.accepted THEN m.ech[1].inner[1] ELSE m
        opened == [s EXCEPT !.ech = ech]
        alert  == EchAlert(S, s, m, second)
    IN  IF alert # "none" THEN Fail(opened, alert)
        ELSE ReadHello(S, IF second THEN opened ELSE OnClientHello(S, opened, ch),
                       ch, ChooseCipher(S, ch.ciphers), second, signs, now)

-----------------------------------------------------------------------------
(* The client's second flight                                              *)

HandleEndOfEarlyData(s, m) ==
    Absorb([s EXCEPT !.dec = SetupTraffic(s.cs[1], s.pend[1], 2), !.pend = <<>>],
           m, "EXPECT_FINISHED")

HandleClientCertificate(S, s, m) ==
    IF ~m.has /\ S.certRequired THEN Fail(s, "CERTIFICATE_REQUIRED")
    ELSE Absorb(s, m, IF m.has THEN "EXPECT_CERTIFICATE_VERIFY" ELSE "EXPECT_FINISHED")

HandleClientCertificateVerify(s, m) ==
    IF m.mac # SignData(s.sched, "client") THEN Fail(s, "DECRYPT_ERROR")
    ELSE Absorb(s, m, "EXPECT_FINISHED")

HandleClientFinished(s, m) ==
    IF m.mac # VerifyData(s.sched, s.dec.secret) THEN Fail(s, "HANDSHAKE_FAILURE")
    ELSE [Absorb(s, m, "POST_HANDSHAKE") EXCEPT
            !.dec = SetupTraffic(s.cs[1], s.pendApp[1], 3), !.pendApp = <<>>, !.ret = "OK"]

\* handle_server_handshake_message
ServerHandle(S, s, m, signs, now) ==
    CASE s.st \in {"EXPECT_CLIENT_HELLO", "EXPECT_SECOND_CLIENT_HELLO"} ->
           IF m.mt = "CH" THEN HandleClientHello(S, s, m, signs, now)
           ELSE Fail(s, "HANDSHAKE_FAILURE")
      [] s.st = "EXPECT_END_OF_EARLY_DATA" /\ m.mt = "EOED" -> HandleEndOfEarlyData(s, m)
      [] s.st = "EXPECT_CERTIFICATE" /\ m.mt = "CERT" -> HandleClientCertificate(S, s, m)
      [] s.st = "EXPECT_CERTIFICATE_VERIFY" /\ m.mt = "CV" -> HandleClientCertificateVerify(s, m)
      [] s.st = "EXPECT_FINISHED" ->
           IF m.mt = "FIN" THEN HandleClientFinished(s, m) ELSE Fail(s, "HANDSHAKE_FAILURE")
      [] s.st = "POST_HANDSHAKE" /\ m.mt = "KU" -> HandleKeyUpdate(s, m)
      [] OTHER -> Fail(s, "UNEXPECTED_MESSAGE")
=============================================================================

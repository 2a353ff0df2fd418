----------------------------- MODULE PtlsClient ------------------------------
(***************************************************************************)
(* The client's handlers of handshake messages in picotls.c.  A handler    *)
(* takes the client's ptls_t and a message and returns the next ptls_t:    *)
(*   st          the state, without its PTLS_STATE_CLIENT_                 *)
(*   sched       the key schedule                                          *)
(*   enc, dec    traffic protection;  pend  pending_handshake_secret       *)
(*   share, cs   key_share, cipher_suite;  isPsk  is_psk_handshake         *)
(*   ech         offered, offered_grease, aead != NULL, accepted and the   *)
(*               first ECH extension                                       *)
(*   usingEarly  client.using_early_data;  acceptance  what the            *)
(*               application is told of its early data                     *)
(*   ret         what the handler returned, an alert ends the connection   *)
(*   out         records to send;  saved  tickets given to save_ticket     *)
(*   asserts     no pen_assert has failed                                  *)
(***************************************************************************)
EXTENDS PtlsHello

NewClient(C) ==
    [st |-> "HANDSHAKE_START", sched |-> <<>>, enc |-> NoTraffic,
     dec |-> NoTraffic, pend |-> <<>>, share |-> <<>>, cs |-> <<>>,
     isPsk |-> FALSE, ech |-> NoEch, alpn |-> "none", exp |-> <<>>,
     expEarly |-> <<>>, ccs |-> C.ccs, needsKU |-> FALSE, reqKU |-> FALSE,
     offeredPsk |-> FALSE, usingEarly |-> FALSE, acceptance |-> "UNKNOWN",
     certReq |-> FALSE, saved |-> <<>>, ret |-> "IN_PROGRESS",
     out |-> <<>>, got |-> <<>>, sent |-> <<>>, asserts |-> TRUE]

Fail(e, alert) == [e EXCEPT !.ret = alert]

Absorb(e, m, state) == [e EXCEPT !.sched = Update(@, m), !.st = state]

-----------------------------------------------------------------------------
(* ServerHello and HelloRetryRequest                                       *)

\* decode_server_hello
ServerHelloAlert(C, cl, m) ==
    FirstAlert(<<
      <<m.cs \notin ToSet(C.ciphers), "ILLEGAL_PARAMETER">>,
      <<m.share # <<>> /\ C.groups = <<>>, "HANDSHAKE_FAILURE">>,
      <<~m.retry /\ m.share # <<>> /\ m.share # cl.share, "ILLEGAL_PARAMETER">>,
      <<m.retry /\ m.confirm # <<>> /\ ~cl.ech.offered /\ ~cl.ech.grease,
        "UNSUPPORTED_EXTENSION">>,
      <<~m.retry /\ m.psk /\ ~cl.offeredPsk, "ILLEGAL_PARAMETER">>,
      <<~m.retry /\ m.share = <<>> /\ ~m.psk, "ILLEGAL_PARAMETER">>,
      <<m.sid # C.ccs, "ILLEGAL_PARAMETER">> >>)

\* client_ech_select_hello: accepted if the confirmation is the expected one;
\* otherwise ClientHelloOuter is what counts from here on.
EchSelectHello(cl, m, label) ==
    IF cl.ech.offered /\ m.confirm = <<Confirmation(cl.sched, m, label)>>
    THEN [cl EXCEPT !.ech.accepted = TRUE]
    ELSE [cl EXCEPT !.ech.accepted = FALSE, !.ech.on = FALSE,
                    !.sched = SelectOuter(@)]

\* Faulty variant: only the key is dropped.
EndRejected_keepsFlag(cl) == [cl EXCEPT !.enc.aead = <<>>]

\* The second ClientHello goes out in clear and without early data.
EndRejected(cl) == [cl EXCEPT !.usingEarly = FALSE, !.enc.aead = <<>>]

\* handle_hello_retry_request
HandleRetry(C, cl, m, now) ==
    LET ikm   == IF C.psk = <<>> THEN Zero ELSE Psk(C.psk[1].secret)
        cl1   == [cl EXCEPT !.cs = <<m.cs>>,
                   !.sched = TransformPostCh1(SelectCipher(@, m.cs, FALSE, ikm))]
        cl2   == IF cl.ech.on THEN EchSelectHello(cl1, m, "hrr") ELSE cl1
        share == IF m.share # <<>> THEN FirstOf(C.groups, ToSet(m.share)) ELSE cl.share
        cl3   == EndRejected([cl2 EXCEPT !.sched = Update(@, m), !.share = share])
    IN  IF share = <<>> THEN Fail(cl3, "ILLEGAL_PARAMETER")
        ELSE SendClientHello(C, cl3, now, TRUE, m.cookie)

\* Faulty variant: the early secret of a PSK the server did not take is kept.
ResetOf_never(cl, m) == FALSE

ResetOf(cl, m) == cl.offeredPsk /\ ~m.psk

HandleServerHello(C, cl, m) ==
    LET cl1 == [cl EXCEPT !.cs = <<m.cs>>, !.isPsk = m.psk,
                  !.sched = SelectCipher(@, m.cs, ResetOf(cl, m), Zero)]
        cl2 == IF cl.ech.on THEN EchSelectHello(cl1, m, "sh") ELSE cl1
        s   == Extract(Update([cl2.sched EXCEPT !.outer = <<>>], m),
                       IF m.share = <<>> THEN Zero ELSE Dhe(m.share[1]))
        own == Derive(s, "c_hs_traffic")
    IN  IF C.psk # <<>> /\ ~m.psk THEN Fail(cl2, "HANDSHAKE_FAILURE")
        ELSE [cl2 EXCEPT
                !.sched = s, !.ech.on = FALSE, !.ech.first = <<>>,
                !.dec  = SetupTraffic(m.cs, Derive(s, "s_hs_traffic"), 2),
                !.pend = IF cl.usingEarly THEN <<own>> ELSE <<>>,
                !.enc  = IF cl.usingEarly THEN @ ELSE SetupTraffic(m.cs, own, 2),
                !.st   = "EXPECT_ENCRYPTED_EXTENSIONS"]

HandleHello(C, cl, m, now) ==
    LET alert == ServerHelloAlert(C, cl, m)
    IN  CASE alert # "none"            -> Fail(cl, alert)
          [] alert = "none" /\ m.retry -> HandleRetry(C, cl, m, now)
          [] OTHER                     -> HandleServerHello(C, cl, m)

-----------------------------------------------------------------------------
(* The rest of the server's flight                                         *)

\* Faulty variant: early data that was sent counts as accepted.
Acceptance_sent(cl, m) == IF cl.usingEarly THEN "ACCEPTED" ELSE cl.acceptance

Acceptance(cl, m) == IF ~cl.usingEarly THEN cl.acceptance
                     ELSE IF m.early THEN "ACCEPTED" ELSE "REJECTED"

HandleEncryptedExtensions(C, cl, m) ==
    LET rejectable == (cl.ech.offered \/ cl.ech.grease) /\ ~cl.ech.accepted
        alert == FirstAlert(<<
          <<m.name /\ C.sni = "none", "ILLEGAL_PARAMETER">>,
          <<m.early /\ ~cl.usingEarly, "ILLEGAL_PARAMETER">>,
          <<m.retryConfigs /\ ~rejectable, "UNSUPPORTED_EXTENSION">> >>)
        heard == Absorb(cl, m, IF cl.isPsk THEN "EXPECT_FINISHED"
                               ELSE "EXPECT_CERTIFICATE_REQUEST_OR_CERTIFICATE")
    IN  IF alert # "none" THEN Fail(cl, alert)
        ELSE [heard EXCEPT
                !.alpn = m.alpn, !.usingEarly = @ /\ m.early,
                !.acceptance = Acceptance(cl, m)]

HandleCertificateRequest(cl, m) ==
    Absorb([cl EXCEPT !.certReq = TRUE], m, "EXPECT_CERTIFICATE")

HandleServerCertificate(C, cl, m) ==
    CASE ~C.trusts -> Fail(cl, "BAD_CERTIFICATE")
      [] C.trusts /\ ~m.has -> Fail(cl, "ILLEGAL_PARAMETER")
      [] OTHER -> Absorb(cl, m, "EXPECT_CERTIFICATE_VERIFY")

HandleServerCertificateVerify(cl, m) ==
    IF m.mac # SignData(cl.sched, "server") THEN Fail(cl, "DECRYPT_ERROR")
    ELSE Absorb(cl, m, "EXPECT_FINISHED")

\* The end of the early data, under its key, and then the handshake key.
EndEarlyData(C, cl) ==
    LET told == IF cl.usingEarly /\ ~C.omitEoed THEN Push(cl, [mt |-> "EOED"]) ELSE cl
    IN  IF cl.pend = <<>> THEN cl
        ELSE [told EXCEPT !.usingEarly = FALSE, !.pend = <<>>,
                          !.asserts = @ /\ cl.enc.aead # <<>>,
                          !.enc = SetupTraffic(cl.cs[1], cl.pend[1], 2)]

\* send_certificate and send_certificate_verify; without a key to sign with
\* the certificate is an empty one.
SendClientCertificate(C, cl) ==
    LET sent == Push(cl, [mt |-> "CERT", has |-> C.cert])
    IN  IF C.cert THEN Push(sent, [mt |-> "CV", mac |-> SignData(sent.sched, "client")])
        ELSE sent

SendFinished(e) == Push(e, [mt |-> "FIN", mac |-> VerifyData(e.sched, e.enc.secret)])

\* client_handle_finished: the application keys come from the messages up to
\* the server's Finished, the client's flight is still sent under the handshake
\* key.  A rejected ECH ends the connection here.
HandleServerFinished(C, cl, m) ==
    LET rejected == cl.ech.offered /\ ~cl.ech.accepted
        s    == Extract(Update(cl.sched, m), Zero)
        mine == Derive(s, "c_ap_traffic")
        cl1  == PushCCS(EndEarlyData(C, [cl EXCEPT
                  !.sched = s, !.exp = Derive(s, "exp_master"),
                  !.dec = SetupTraffic(cl.cs[1], Derive(s, "s_ap_traffic"), 3)]))
        cl2  == IF ~rejected /\ cl.certReq THEN SendClientCertificate(C, cl1) ELSE cl1
    IN  IF m.mac # VerifyData(cl.sched, cl.dec.secret) THEN Fail(cl, "HANDSHAKE_FAILURE")
        ELSE [SendFinished(cl2) EXCEPT
                !.enc = SetupTraffic(cl.cs[1], mine, 3), !.st = "POST_HANDSHAKE",
                !.ret = IF rejected THEN "ECH_REQUIRED" ELSE "OK"]

-----------------------------------------------------------------------------
(* After the handshake                                                     *)

\* client_handle_new_session_ticket; it reads key_share, which must be there.
HandleNewSessionTicket(C, cl, m, now) ==
    LET kept == [obtained |-> now, kx |-> cl.share[1], cs |-> cl.cs[1],
                 ageAdd |-> m.ageAdd, box |-> m.box, maxEarly |-> m.maxEarly,
                 secret |-> DeriveResumption(cl.sched)]
    IN  CASE ~C.save -> [cl EXCEPT !.ret = "OK"]
          [] C.save /\ cl.share = <<>> -> [cl EXCEPT !.asserts = FALSE]
          [] OTHER -> [cl EXCEPT !.saved = Append(@, kept), !.ret = "OK"]

\* Faulty variants: the key is set up again from the same secret, or for
\* another epoch.
UpdateKey_sameSecret(tp) == SetupTraffic(tp.aead[1], tp.secret, 3)
UpdateKey_nextEpoch(tp)  == SetupTraffic(tp.aead[1], NextSecret(tp.secret), tp.epoch + 1)

UpdateKey(tp) == SetupTraffic(tp.aead[1], NextSecret(tp.secret), 3)

HandleKeyUpdate(e, m) ==
    [e EXCEPT !.dec = UpdateKey(@), !.needsKU = @ \/ m.request, !.ret = "OK"]

\* handle_client_handshake_message
ClientHandle(C, cl, m, now) ==
    CASE cl.st \in {"EXPECT_SERVER_HELLO", "EXPECT_SECOND_SERVER_HELLO"} /\ m.mt = "SH" ->
           HandleHello(C, cl, m, now)
      [] cl.st = "EXPECT_ENCRYPTED_EXTENSIONS" /\ m.mt = "EE" ->
           HandleEncryptedExtensions(C, cl, m)
      [] cl.st = "EXPECT_CERTIFICATE_REQUEST_OR_CERTIFICATE" /\ m.mt = "CR" ->
           HandleCertificateRequest(cl, m)
      [] cl.st \in {"EXPECT_CERTIFICATE_REQUEST_OR_CERTIFICATE", "EXPECT_CERTIFICATE"}
           /\ m.mt = "CERT" -> HandleServerCertificate(C, cl, m)
      [] cl.st = "EXPECT_CERTIFICATE_VERIFY" /\ m.mt = "CV" ->
           HandleServerCertificateVerify(cl, m)
      [] cl.st = "EXPECT_FINISHED" /\ m.mt = "FIN" -> HandleServerFinished(C, cl, m)
      [] cl.st = "POST_HANDSHAKE" /\ m.mt = "NST" -> HandleNewSessionTicket(C, cl, m, now)
      [] cl.st = "POST_HANDSHAKE" /\ m.mt = "KU" -> HandleKeyUpdate(cl, m)
      [] OTHER -> Fail(cl, "UNEXPECTED_MESSAGE")
=============================================================================

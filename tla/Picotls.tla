------------------------------- MODULE Picotls -------------------------------
(***************************************************************************)
(* The client side of picotls/lib/picotls.c as tls/tlslib.c drives it: the *)
(* record reader (parse_record), decryption under the current epoch and    *)
(* sequence number, the handshake message machine of the client, and the   *)
(* loops of ptls_handshake and ptls_receive over the bytes of one TCP      *)
(* read.  One step is one iteration of such a loop.                        *)
(*                                                                         *)
(* A record travels as two units, its header (part 1) and its fragment     *)
(* (part 2), so that a TCP read can end inside a record.  A record is      *)
(*   ct    content type: "ccs", "alert", "hs" or "app"                     *)
(*   ep    epoch of the key that protects it: 0 none, 2 handshake,         *)
(*         3 application, 4, 5... after each KeyUpdate                     *)
(*   sq    its number under that key                                       *)
(*   body  the handshake messages, or the application bytes, it carries    *)
(* A handshake message may be cut in two: the last element of one body is   *)
(* its first part, the first element of the next body the rest (Cuts).      *)
(***************************************************************************)
EXTENDS Integers, Sequences

VARIABLES tls,      \* the ptls_t: a record, or NoTls for a NULL handle
          raw,      \* the part of the last TCP read not handled yet
          res,      \* what the last handle_input returned
          plain,    \* decryptbuf: application bytes decrypted by this call
          sendbuf,  \* the messages the handshake wants to send
          seen      \* history: handshake messages accepted on this connection

ptlsVars == <<tls, raw, res, plain, sendbuf, seen>>

HandshakeStates == {"EXPECT_SERVER_HELLO", "EXPECT_SECOND_SERVER_HELLO",
    "EXPECT_ENCRYPTED_EXTENSIONS", "EXPECT_CERTIFICATE_REQUEST_OR_CERTIFICATE",
    "EXPECT_CERTIFICATE", "EXPECT_CERTIFICATE_VERIFY", "EXPECT_FINISHED"}

\* Messages that travel in two parts: <<first part, rest, message>>.
Cuts == {<<"SH-", "-SH", "SH">>, <<"CERT-", "-CERT", "CERT">>, <<"NST-", "-NST", "NST">>}

Results == {"OK", "IN_PROGRESS", "SELF_ALERT", "PEER_ALERT", "NO_MEMORY"}

NoKey == [ep |-> 0, sq |-> 0]

\* ptls_client_new.  send_client_hello will take it to EXPECT_SERVER_HELLO.
NewClient == [st     |-> "HANDSHAKE_START",
              rec    |-> <<>>,   \* recvbuf.rec: units of an unfinished record
              slow   |-> FALSE,  \* that record began in an earlier read
              mess   |-> <<>>,   \* messages of the record being handled
              part   |-> <<>>,   \* recvbuf.mess: the part of a message whose rest
                                 \* has not come yet
              dec    |-> NoKey,  \* epoch and sequence number to decrypt with
              cr     |-> FALSE,  \* the server asked for a certificate
              wantKU |-> FALSE]  \* needs_key_update

NoTls == [NewClient EXCEPT !.st = "NULL"]

-----------------------------------------------------------------------------
(* parse_record: one more unit of input.                                   *)

\* The header of a record: kept until the fragment follows.
ReadHeader ==
    /\ tls.rec = <<>> /\ Head(raw).part = 1
    /\ tls' = [tls EXCEPT !.rec = <<Head(raw)>>]
    /\ raw' = Tail(raw)
    /\ res' = "IN_PROGRESS"
    /\ UNCHANGED <<plain, sendbuf, seen>>

\* Bytes from the middle of a record where a header should be: their first
\* byte is no content type, or their length is out of range.
RejectJunk ==
    /\ tls.rec = <<>> /\ Head(raw).part = 2
    /\ res' = "SELF_ALERT"
    /\ UNCHANGED <<tls, raw, plain, sendbuf, seen>>

\* ... or they happen to read like a header, and what follows is collected as
\* the fragment of a record that was never sent.
CollectJunk ==
    /\ \/ tls.rec = <<>> /\ Head(raw).part = 2
       \/ Len(tls.rec) = 1 /\ tls.rec[1].part = 2
    /\ tls' = [tls EXCEPT !.rec = IF @ = <<>> THEN <<Head(raw)>> ELSE @]
    /\ raw' = Tail(raw)
    /\ res' = "IN_PROGRESS"
    /\ UNCHANGED <<plain, sendbuf, seen>>

\* Faulty variant: the record is kept even if it came in one read.
FailRecord_keeps(units) ==
    /\ tls' = [tls EXCEPT !.rec = units]
    /\ raw' = Tail(raw)
    /\ res' = "SELF_ALERT"
    /\ UNCHANGED <<plain, sendbuf, seen>>

\* A record that cannot be decrypted is an error.  handle_input returns before
\* it disposes of recvbuf.rec: a record collected there stays, and is tried
\* again by every later call.
FailRecord(units) ==
    /\ tls' = [tls EXCEPT !.rec = IF tls.slow THEN units ELSE <<>>]
    /\ raw' = Tail(raw)
    /\ res' = "SELF_ALERT"
    /\ UNCHANGED <<plain, sendbuf, seen>>

\* The collected junk has reached the length its header claimed.
FinishJunk ==
    /\ Len(tls.rec) = 1 /\ tls.rec[1].part = 2
    /\ FailRecord(<<tls.rec[1], Head(raw)>>)

RetryFailedRecord ==
    /\ Len(tls.rec) = 2
    /\ res' = "SELF_ALERT"
    /\ UNCHANGED <<tls, raw, plain, sendbuf, seen>>

-----------------------------------------------------------------------------
(* handle_input: a whole record r has been read.                           *)

\* recvbuf.rec is disposed of and the call returns `result`.
RecordDone(result) ==
    /\ tls' = [tls EXCEPT !.rec = <<>>]
    /\ res' = result
    /\ UNCHANGED <<plain, sendbuf, seen>>

ChangeCipherSpec(r) ==
    /\ r.ct = "ccs"
    /\ IF tls.st = "POST_HANDSHAKE" THEN FailRecord(<<tls.rec[1], Head(raw)>>)
       ELSE raw' = Tail(raw) /\ RecordDone("IN_PROGRESS")

\* Faulty variant: the sequence number does not enter the nonce.
Decrypts_anyNumber(r) == r.ep = tls.dec.ep

\* aead_decrypt succeeds only under the key and the number the record was
\* sealed with.
Decrypts(r) == r.ep = tls.dec.ep /\ r.sq = tls.dec.sq

\* A record in clear once there is a key (an alert excepted), or one that does
\* not decrypt.
BadRecord(r) ==
    /\ r.ct # "ccs" /\ tls.dec # NoKey
    /\ IF r.ep = 0 THEN r.ct # "alert" ELSE ~Decrypts(r)
    /\ FailRecord(<<tls.rec[1], Head(raw)>>)

\* Readable: in clear and no key yet, an alert in clear, or decrypted.
Readable(r) ==
    IF r.ep = 0 THEN r.ct = "alert" \/ tls.dec.ep = 0
    ELSE tls.dec.ep # 0 /\ Decrypts(r)

\* The decryption key after record r: its sequence number has advanced.
Advanced(r) == IF r.ep = 0 THEN tls.dec ELSE [tls.dec EXCEPT !.sq = @ + 1]

\* A protected record before there is a key counts as application data that
\* comes too early.
TooEarly(r) ==
    /\ r.ep # 0 /\ tls.dec.ep = 0
    /\ raw' = Tail(raw)
    /\ RecordDone("SELF_ALERT")

AppData(r) ==
    /\ r.ct = "app" /\ Readable(r) /\ tls.part = <<>>
    /\ raw' = Tail(raw)
    /\ tls' = [tls EXCEPT !.rec = <<>>, !.dec = Advanced(r)]
    /\ IF tls.st = "POST_HANDSHAKE"
       THEN plain' = plain \o r.body /\ res' = "OK"
       ELSE plain' = plain /\ res' = "SELF_ALERT"
    /\ UNCHANGED <<sendbuf, seen>>

\* handle_alert: whatever the alert says, the connection is over.
Alert(r) ==
    /\ r.ct = "alert" /\ Readable(r) /\ tls.part = <<>>
    /\ raw' = Tail(raw)
    /\ tls' = [tls EXCEPT !.rec = <<>>, !.dec = Advanced(r)]
    /\ res' = "PEER_ALERT"
    /\ UNCHANGED <<plain, sendbuf, seen>>

\* handle_handshake_record is called for whatever record comes while a message
\* is unfinished, and refuses any but a handshake record: even an alert.
StrayRecord(r) ==
    /\ r.ct \in {"app", "alert"} /\ Readable(r) /\ tls.part # <<>>
    /\ raw' = Tail(raw)
    /\ tls' = [tls EXCEPT !.rec = <<>>, !.dec = Advanced(r)]
    /\ res' = "SELF_ALERT"
    /\ UNCHANGED <<plain, sendbuf, seen>>

\* Faulty variant: what recvbuf.mess holds is not put in front of the record.
Collected_restOnly(body) == body

\* What recvbuf.mess holds and the record behind it, as messages.
Collected(body) ==
    IF tls.part # <<>> /\ body # <<>> /\ \E c \in Cuts : tls.part = <<c[1]>> /\ Head(body) = c[2]
    THEN <<(CHOOSE c \in Cuts : tls.part = <<c[1]>>)[3]>> \o Tail(body)
    ELSE tls.part \o body

\* handle_handshake_record: the messages are handled one by one.
HandshakeRecord(r) ==
    /\ r.ct = "hs" /\ Readable(r)
    /\ raw' = Tail(raw)
    /\ tls' = [tls EXCEPT !.rec = <<>>, !.dec = Advanced(r),
                          !.mess = Collected(r.body), !.part = <<>>]
    /\ res' = "IN_PROGRESS"
    /\ UNCHANGED <<plain, sendbuf, seen>>

ReadFragment ==
    /\ Len(tls.rec) = 1 /\ tls.rec[1].part = 1
    /\ LET r == tls.rec[1].rec IN
        \/ ChangeCipherSpec(r) \/ BadRecord(r) \/ TooEarly(r)
        \/ AppData(r) \/ Alert(r) \/ StrayRecord(r) \/ HandshakeRecord(r)

-----------------------------------------------------------------------------
(* handle_client_handshake_message: the next message of the record.        *)

\* Message m is accepted: the machine moves on to state st.
Accept(m, st, result) ==
    /\ tls' = [tls EXCEPT !.st = st, !.mess = Tail(@)]
    /\ seen' = Append(seen, m)
    /\ res' = result
    /\ UNCHANGED <<raw, plain>>

EndOfRecord == Len(tls.mess) = 1

client_handle_hello(m) ==
    /\ tls.st \in {"EXPECT_SERVER_HELLO", "EXPECT_SECOND_SERVER_HELLO"}
    /\ EndOfRecord
    /\ \/ /\ m = "HRR"
          /\ Accept(m, "EXPECT_SECOND_SERVER_HELLO", "IN_PROGRESS")
          /\ sendbuf' = Append(sendbuf, "CLIENT_HELLO")
       \/ /\ m = "SH"
          /\ tls' = [tls EXCEPT !.st = "EXPECT_ENCRYPTED_EXTENSIONS",
                                !.mess = <<>>, !.dec = [ep |-> 2, sq |-> 0]]
          /\ seen' = Append(seen, m)
          /\ res' = "IN_PROGRESS"
          /\ UNCHANGED <<raw, plain, sendbuf>>

client_handle_encrypted_extensions(m) ==
    /\ tls.st = "EXPECT_ENCRYPTED_EXTENSIONS" /\ m = "EE"
    /\ Accept(m, "EXPECT_CERTIFICATE_REQUEST_OR_CERTIFICATE", "IN_PROGRESS")
    /\ UNCHANGED sendbuf

client_handle_certificate_request(m) ==
    /\ tls.st = "EXPECT_CERTIFICATE_REQUEST_OR_CERTIFICATE" /\ m = "CR"
    /\ tls' = [tls EXCEPT !.st = "EXPECT_CERTIFICATE", !.mess = Tail(@),
                          !.cr = TRUE]
    /\ seen' = Append(seen, m)
    /\ res' = "IN_PROGRESS"
    /\ UNCHANGED <<raw, plain, sendbuf>>

client_handle_certificate(m) ==
    /\ tls.st \in {"EXPECT_CERTIFICATE_REQUEST_OR_CERTIFICATE", "EXPECT_CERTIFICATE"}
    /\ m = "CERT"
    /\ Accept(m, "EXPECT_CERTIFICATE_VERIFY", "IN_PROGRESS")
    /\ UNCHANGED sendbuf

client_handle_certificate_verify(m) ==
    /\ tls.st = "EXPECT_CERTIFICATE_VERIFY" /\ m = "CV"
    /\ Accept(m, "EXPECT_FINISHED", "IN_PROGRESS")
    /\ UNCHANGED sendbuf

\* Faulty variant: Finished is accepted without a CertificateVerify.
client_handle_finished_early(m) ==
    /\ tls.st \in {"EXPECT_CERTIFICATE_VERIFY", "EXPECT_FINISHED"}
    /\ EndOfRecord /\ m = "FIN"
    /\ tls' = [tls EXCEPT !.st = "POST_HANDSHAKE", !.mess = <<>>,
                          !.dec = [ep |-> 3, sq |-> 0], !.cr = FALSE]
    /\ sendbuf' = Append(sendbuf, "FINISHED")
    /\ seen' = Append(seen, m)
    /\ res' = "OK"
    /\ UNCHANGED <<raw, plain>>

\* The server's Finished ends the handshake: the application keys are in place
\* and the client's own messages are ready to go.
client_handle_finished(m) ==
    /\ tls.st = "EXPECT_FINISHED" /\ EndOfRecord /\ m = "FIN"
    /\ tls' = [tls EXCEPT !.st = "POST_HANDSHAKE", !.mess = <<>>,
                          !.dec = [ep |-> 3, sq |-> 0], !.cr = FALSE]
    /\ sendbuf' = sendbuf \o (IF tls.cr THEN <<"CERTIFICATE">> ELSE <<>>)
                          \o <<"FINISHED">>
    /\ seen' = Append(seen, m)
    /\ res' = "OK"
    /\ UNCHANGED <<raw, plain>>

\* No save_ticket callback is installed: a ticket is checked and forgotten.
client_handle_new_session_ticket(m) ==
    /\ tls.st = "POST_HANDSHAKE" /\ m = "NST"
    /\ tls' = [tls EXCEPT !.mess = Tail(@)]
    /\ res' = "OK"
    /\ UNCHANGED <<raw, plain, sendbuf, seen>>

handle_key_update(m) ==
    /\ tls.st = "POST_HANDSHAKE" /\ m \in {"KU", "KU_REQUEST"}
    /\ tls' = [tls EXCEPT !.mess = Tail(@),
                          !.dec = [ep |-> @.ep + 1, sq |-> 0],
                          !.wantKU = @ \/ m = "KU_REQUEST"]
    /\ res' = "OK"
    /\ UNCHANGED <<raw, plain, sendbuf, seen>>

\* The messages that state st can take, with its demand on the record's end.
Expected(m) ==
    CASE tls.st \in {"EXPECT_SERVER_HELLO", "EXPECT_SECOND_SERVER_HELLO"} ->
            m \in {"SH", "HRR"} /\ EndOfRecord
      [] tls.st = "EXPECT_ENCRYPTED_EXTENSIONS" -> m = "EE"
      [] tls.st = "EXPECT_CERTIFICATE_REQUEST_OR_CERTIFICATE" -> m \in {"CR", "CERT"}
      [] tls.st = "EXPECT_CERTIFICATE" -> m = "CERT"
      [] tls.st = "EXPECT_CERTIFICATE_VERIFY" -> m = "CV"
      [] tls.st = "EXPECT_FINISHED" -> m = "FIN" /\ EndOfRecord
      [] OTHER -> m \in {"NST", "KU", "KU_REQUEST"}

\* A message out of place ends the handshake, whatever follows it.
UnexpectedMessage(m) ==
    /\ ~Expected(m) /\ ~(EndOfRecord /\ \E c \in Cuts : m = c[1])
    /\ tls' = [tls EXCEPT !.mess = <<>>]
    /\ res' = "SELF_ALERT"
    /\ UNCHANGED <<raw, plain, sendbuf, seen>>

\* The record ends inside message m: the part is kept for the next record.
\* max_buffer_size is zero in this program, so that its size has no limit.
KeepPart(m) ==
    /\ \E c \in Cuts : m = c[1]
    /\ EndOfRecord
    /\ tls' = [tls EXCEPT !.part = tls.mess, !.mess = <<>>]
    /\ res' = "IN_PROGRESS"
    /\ UNCHANGED <<raw, plain, sendbuf, seen>>

HandleMessage ==
    LET m == Head(tls.mess) IN
    \/ KeepPart(m)
    \/ client_handle_hello(m)
    \/ client_handle_encrypted_extensions(m)
    \/ client_handle_certificate_request(m)
    \/ client_handle_certificate(m)
    \/ client_handle_certificate_verify(m)
    \/ client_handle_finished(m)
    \/ client_handle_new_session_ticket(m)
    \/ handle_key_update(m)
    \/ UnexpectedMessage(m)

HandleUnit ==
    \/ ReadHeader \/ RejectJunk \/ CollectJunk \/ FinishJunk
    \/ RetryFailedRecord \/ ReadFragment

\* One iteration: the next message of the record in hand, else the next unit.
handle_input ==
    IF tls.mess # <<>> THEN HandleMessage ELSE raw # <<>> /\ HandleUnit

\* The loop condition of ptls_handshake: until completion, an error, or the
\* end of the input.
HandshakeGoesOn == tls.mess # <<>> \/ (raw # <<>> /\ res = "IN_PROGRESS")

\* The loop condition of ptls_receive: until some application data, an error,
\* or the end of the input.
ReceiveGoesOn ==
    \/ tls.mess # <<>>
    \/ raw # <<>> /\ plain = <<>> /\ res \in {"OK", "IN_PROGRESS"}

\* What ptls_handshake leaves in the send buffer: after an error of our own
\* the unsent messages are replaced by an alert, after the peer's by nothing.
Flight ==
    CASE res \in {"OK", "IN_PROGRESS"} -> sendbuf
      [] res = "SELF_ALERT" -> <<"ALERT">>
      [] OTHER -> <<>>
=============================================================================

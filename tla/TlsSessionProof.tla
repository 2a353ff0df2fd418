-------------------------- MODULE TlsSessionProof --------------------------
(***************************************************************************)
(* Proofs about tls_connect and tls_recv on top of picotls, for whatever   *)
(* the server sends, whatever way TCP cuts it, whatever sizes the buffers  *)
(* have, and any number of connections.  First the calls: nothing leaks,   *)
(* picotls is called in the states it asserts, and a session is handed out *)
(* only after a whole handshake.  Then what travels over the session: the  *)
(* types of the state, the order of the client's messages, and the byte    *)
(* stream that tls_recv hands out.  Last the handshake once more: a server *)
(* that keeps to the protocol is never refused.                            *)
(***************************************************************************)
EXTENDS TlsSession, SequenceTheorems, FiniteSetTheorems, TLAPS

\* tls is a record with the fields of a ptls_t.
Shape == DOMAIN tls = {"st", "rec", "slow", "mess", "part", "dec", "cr", "wantKU"}

\* The handshake has come to its end, or it goes on and has not succeeded.
Underway == tls.st \in HandshakeStates /\ res # "OK"
Complete == tls.st = "POST_HANDSHAKE" /\ res = "OK" /\ tls.mess = <<>>

\* The state of picotls at each place of the caller's thread.
Stages ==
    /\ pc \in Locations
    /\ pc = "idle" => tls.st \in {"NULL", "POST_HANDSHAKE"}
    /\ pc = "connect_new" => tls.st = "NULL"
    /\ pc \in {"connect_name", "connect_buf", "hs_start"} => tls.st = "HANDSHAKE_START"
    /\ pc = "hs_recv" => tls.st \in HandshakeStates
    /\ pc = "hs_input" => Underway \/ Complete
    /\ pc \in {"recv_call", "recv", "recv_input"} => tls.st = "POST_HANDSHAKE"

\* What is allocated at each of them: the handle, and the buffers of the call.
Handle == IF tls.st = "NULL" THEN {} ELSE {"ptls"}
Buffers ==
    IF pc \in {"hs_start", "hs_recv"} THEN {"raw_in"}
    ELSE IF pc = "hs_input" THEN {"raw_in", "hs_buf"}
    ELSE IF pc \in {"recv", "recv_input"} THEN RecvBuffers
    ELSE {}

\* The handle, the socket and the descriptor go together, but for the time that
\* tls_connect has the socket in a variable of its own.
Connecting == pc \in {"connect_new", "connect_name"}
Together ==
    /\ sock \in {"INVALID", "OPEN"}
    /\ sock = "OPEN" <=> tls.st # "NULL" /\ ~Connecting
    /\ fds = IF sock = "OPEN" \/ Connecting THEN 1 ELSE 0
    /\ heap = Handle \cup Buffers

\* What the client has accepted behind the HelloRetryRequests in each state.
Behind ==
    [st \in HandshakeStates \cup {"POST_HANDSHAKE"} |->
        CASE st = "EXPECT_SERVER_HELLO" -> {<<>>}
          [] st = "EXPECT_SECOND_SERVER_HELLO" -> {<<>>}
          [] st = "EXPECT_ENCRYPTED_EXTENSIONS" -> {<<"SH">>}
          [] st = "EXPECT_CERTIFICATE_REQUEST_OR_CERTIFICATE" -> {<<"SH", "EE">>}
          [] st = "EXPECT_CERTIFICATE" -> {<<"SH", "EE", "CR">>}
          [] st = "EXPECT_CERTIFICATE_VERIFY" ->
                {<<"SH", "EE", "CERT">>, <<"SH", "EE", "CR", "CERT">>}
          [] st = "EXPECT_FINISHED" ->
                {<<"SH", "EE", "CERT", "CV">>, <<"SH", "EE", "CR", "CERT", "CV">>}
          [] OTHER ->
                {<<"SH", "EE", "CERT", "CV", "FIN">>,
                 <<"SH", "EE", "CR", "CERT", "CV", "FIN">>}]

SoFar ==
    /\ tls.st = "HANDSHAKE_START" => seen = <<>>
    /\ tls.st \notin {"NULL", "HANDSHAKE_START"} =>
          \E n \in Nat : \E b \in Behind[tls.st] : seen = Retries(n) \o b

SessionInv == Shape /\ Stages /\ Together /\ SoFar

\* The handshake messages of the server.
Message == {"SH", "HRR", "EE", "CR", "CERT", "CV", "FIN"}

\* What Append returns, element by element.
LEMMA AppendIs ==
    ASSUME NEW q \in Seq(Message), NEW t \in Seq(Message), NEW m \in Message,
           Len(t) = Len(q) + 1, \A i \in 1..Len(q) : t[i] = q[i], t[Len(q) + 1] = m
    PROVE  Append(q, m) = t
<1>1. Append(q, m) \in Seq(Message) /\ Len(Append(q, m)) = Len(t)
  BY AppendProperties
<1>2. \A i \in 1..Len(t) : Append(q, m)[i] = t[i]
  BY AppendProperties
<1> QED
  BY <1>1, <1>2, SeqEqual

\* The same for the short sequences that a handshake goes through.
LEMMA AppendShort ==
    /\ \A a \in Message : Append(<<>>, a) = <<a>>
    /\ \A a, b \in Message : Append(<<a>>, b) = <<a, b>>
    /\ \A a, b, c \in Message : Append(<<a, b>>, c) = <<a, b, c>>
    /\ \A a, b, c, d \in Message : Append(<<a, b, c>>, d) = <<a, b, c, d>>
    /\ \A a, b, c, d, e \in Message : Append(<<a, b, c, d>>, e) = <<a, b, c, d, e>>
    /\ \A a, b, c, d, e, f \in Message : Append(<<a, b, c, d, e>>, f) = <<a, b, c, d, e, f>>
<1> DEFINE Fits(q, t, m) == /\ q \in Seq(Message) /\ t \in Seq(Message)
                            /\ Len(t) = Len(q) + 1
                            /\ \A i \in 1..Len(q) : t[i] = q[i]
                            /\ t[Len(q) + 1] = m
<1>0. ASSUME NEW q, NEW t, NEW m \in Message, Fits(q, t, m) PROVE Append(q, m) = t
  BY <1>0, AppendIs
<1>1. ASSUME NEW a \in Message
      PROVE  Append(<<>>, a) = <<a>>
  <2>1. Fits(<<>>, <<a>>, a)
    OBVIOUS
  <2> HIDE DEF Fits
  <2> QED
    BY <1>0, <2>1
<1>2. ASSUME NEW a \in Message, NEW b \in Message
      PROVE  Append(<<a>>, b) = <<a, b>>
  <2>1. Fits(<<a>>, <<a, b>>, b)
    OBVIOUS
  <2> HIDE DEF Fits
  <2> QED
    BY <1>0, <2>1
<1>3. ASSUME NEW a \in Message, NEW b \in Message, NEW c \in Message
      PROVE  Append(<<a, b>>, c) = <<a, b, c>>
  <2>1. Fits(<<a, b>>, <<a, b, c>>, c)
    OBVIOUS
  <2> HIDE DEF Fits
  <2> QED
    BY <1>0, <2>1
<1>4. ASSUME NEW a \in Message, NEW b \in Message, NEW c \in Message, NEW d \in Message
      PROVE  Append(<<a, b, c>>, d) = <<a, b, c, d>>
  <2>1. Fits(<<a, b, c>>, <<a, b, c, d>>, d)
    OBVIOUS
  <2> HIDE DEF Fits
  <2> QED
    BY <1>0, <2>1
<1>5. ASSUME NEW a \in Message, NEW b \in Message, NEW c \in Message, NEW d \in Message,
             NEW e \in Message
      PROVE  Append(<<a, b, c, d>>, e) = <<a, b, c, d, e>>
  <2>1. Fits(<<a, b, c, d>>, <<a, b, c, d, e>>, e)
    OBVIOUS
  <2> HIDE DEF Fits
  <2> QED
    BY <1>0, <2>1
<1>6. ASSUME NEW a \in Message, NEW b \in Message, NEW c \in Message, NEW d \in Message,
             NEW e \in Message, NEW f \in Message
      PROVE  Append(<<a, b, c, d, e>>, f) = <<a, b, c, d, e, f>>
  <2>1. Fits(<<a, b, c, d, e>>, <<a, b, c, d, e, f>>, f)
    OBVIOUS
  <2> HIDE DEF Fits
  <2> QED
    BY <1>0, <2>1
<1> QED
  BY <1>1, <1>2, <1>3, <1>4, <1>5, <1>6

\* The retries are a sequence of messages.
LEMMA RetriesType ==
    ASSUME NEW n \in Nat
    PROVE  Retries(n) \in Seq(Message) /\ Len(Retries(n)) = n
<1>1. Retries(n) \in [1..n -> Message]
  BY DEF Retries, Message
<1>2. ASSUME NEW f \in [1..n -> Message] PROVE f \in Seq(Message) /\ Len(f) = n
  OBVIOUS
<1> QED
  BY <1>1, <1>2

\* Appending a message to what was accepted appends it behind the retries.
LEMMA Appended ==
    ASSUME NEW n \in Nat, NEW b \in Seq(Message), NEW m \in Message
    PROVE  Append(Retries(n) \o b, m) = Retries(n) \o Append(b, m)
<1>1. Retries(n) \in Seq(Message) /\ <<m>> \in Seq(Message)
  BY RetriesType
<1>2. Append(b, m) = b \o <<m>>
  BY AppendIsConcat
<1>3. Retries(n) \o b \in Seq(Message)
  BY <1>1, ConcatProperties
<1>4. Append(Retries(n) \o b, m) = (Retries(n) \o b) \o <<m>>
  BY <1>3, AppendIsConcat
<1>5. (Retries(n) \o b) \o <<m>> = Retries(n) \o (b \o <<m>>)
  BY <1>1, ConcatAssociative
<1> QED
  BY <1>2, <1>4, <1>5

\* One more HelloRetryRequest is one more retry.
LEMMA OneMoreRetry ==
    ASSUME NEW n \in Nat
    PROVE  Append(Retries(n) \o <<>>, "HRR") = Retries(n + 1) \o <<>>
<1>1. /\ Retries(n) \in Seq(Message) /\ Len(Retries(n)) = n
      /\ Retries(n + 1) \in Seq(Message) /\ Len(Retries(n + 1)) = n + 1
  BY RetriesType
<1>2. Retries(n) \o <<>> = Retries(n) /\ Retries(n + 1) \o <<>> = Retries(n + 1)
  BY <1>1, ConcatEmptySeq
<1>3. /\ \A i \in 1..n : Retries(n + 1)[i] = Retries(n)[i]
      /\ Retries(n + 1)[n + 1] = "HRR" /\ "HRR" \in Message
  BY DEF Retries, Message
<1>4. Append(Retries(n), "HRR") = Retries(n + 1)
  BY <1>1, <1>3, AppendIs
<1> QED
  BY <1>2, <1>4

\* Behind at each of its arguments.
LEMMA BehindIs ==
    /\ Behind["EXPECT_SERVER_HELLO"] = {<<>>}
    /\ Behind["EXPECT_SECOND_SERVER_HELLO"] = {<<>>}
    /\ Behind["EXPECT_ENCRYPTED_EXTENSIONS"] = {<<"SH">>}
    /\ Behind["EXPECT_CERTIFICATE_REQUEST_OR_CERTIFICATE"] = {<<"SH", "EE">>}
    /\ Behind["EXPECT_CERTIFICATE"] = {<<"SH", "EE", "CR">>}
    /\ Behind["EXPECT_CERTIFICATE_VERIFY"] =
          {<<"SH", "EE", "CERT">>, <<"SH", "EE", "CR", "CERT">>}
    /\ Behind["EXPECT_FINISHED"] =
          {<<"SH", "EE", "CERT", "CV">>, <<"SH", "EE", "CR", "CERT", "CV">>}
    /\ Behind["POST_HANDSHAKE"] =
          {<<"SH", "EE", "CERT", "CV", "FIN">>, <<"SH", "EE", "CR", "CERT", "CV", "FIN">>}
  BY DEF Behind, HandshakeStates

\* The transitions of the message machine lead from one line of Behind to the
\* next.
LEMMA Transitions ==
    /\ \A b \in Behind["EXPECT_SERVER_HELLO"] \cup Behind["EXPECT_SECOND_SERVER_HELLO"] :
          Append(b, "SH") \in Behind["EXPECT_ENCRYPTED_EXTENSIONS"]
    /\ \A b \in Behind["EXPECT_ENCRYPTED_EXTENSIONS"] :
          Append(b, "EE") \in Behind["EXPECT_CERTIFICATE_REQUEST_OR_CERTIFICATE"]
    /\ \A b \in Behind["EXPECT_CERTIFICATE_REQUEST_OR_CERTIFICATE"] :
          Append(b, "CR") \in Behind["EXPECT_CERTIFICATE"]
    /\ \A b \in Behind["EXPECT_CERTIFICATE_REQUEST_OR_CERTIFICATE"]
                \cup Behind["EXPECT_CERTIFICATE"] :
          Append(b, "CERT") \in Behind["EXPECT_CERTIFICATE_VERIFY"]
    /\ \A b \in Behind["EXPECT_CERTIFICATE_VERIFY"] :
          Append(b, "CV") \in Behind["EXPECT_FINISHED"]
    /\ \A b \in Behind["EXPECT_FINISHED"] :
          Append(b, "FIN") \in Behind["POST_HANDSHAKE"]
<1>1. /\ "SH" \in Message /\ "EE" \in Message /\ "CR" \in Message
      /\ "CERT" \in Message /\ "CV" \in Message /\ "FIN" \in Message
  BY DEF Message
<1>2. /\ Append(<<>>, "SH") = <<"SH">>
      /\ Append(<<"SH">>, "EE") = <<"SH", "EE">>
      /\ Append(<<"SH", "EE">>, "CR") = <<"SH", "EE", "CR">>
      /\ Append(<<"SH", "EE">>, "CERT") = <<"SH", "EE", "CERT">>
      /\ Append(<<"SH", "EE", "CR">>, "CERT") = <<"SH", "EE", "CR", "CERT">>
      /\ Append(<<"SH", "EE", "CERT">>, "CV") = <<"SH", "EE", "CERT", "CV">>
      /\ Append(<<"SH", "EE", "CR", "CERT">>, "CV") = <<"SH", "EE", "CR", "CERT", "CV">>
      /\ Append(<<"SH", "EE", "CERT", "CV">>, "FIN") = <<"SH", "EE", "CERT", "CV", "FIN">>
      /\ Append(<<"SH", "EE", "CR", "CERT", "CV">>, "FIN")
            = <<"SH", "EE", "CR", "CERT", "CV", "FIN">>
  BY <1>1, AppendShort
<1> QED
  BY <1>2, BehindIs

\* What Behind holds are sequences of messages.
LEMMA BehindType ==
    ASSUME NEW st \in HandshakeStates \cup {"POST_HANDSHAKE"}, NEW b \in Behind[st]
    PROVE  b \in Seq(Message)
<1>1. /\ <<>> \in Seq(Message)
      /\ <<"SH">> \in Seq(Message)
      /\ <<"SH", "EE">> \in Seq(Message)
      /\ <<"SH", "EE", "CR">> \in Seq(Message)
      /\ <<"SH", "EE", "CERT">> \in Seq(Message)
      /\ <<"SH", "EE", "CR", "CERT">> \in Seq(Message)
      /\ <<"SH", "EE", "CERT", "CV">> \in Seq(Message)
      /\ <<"SH", "EE", "CR", "CERT", "CV">> \in Seq(Message)
      /\ <<"SH", "EE", "CERT", "CV", "FIN">> \in Seq(Message)
      /\ <<"SH", "EE", "CR", "CERT", "CV", "FIN">> \in Seq(Message)
  BY DEF Message
<1>2. CASE st = "EXPECT_SERVER_HELLO"
  <2>1. b = <<>>
    BY <1>2, BehindIs
  <2> QED
    BY <1>1, <2>1
<1>3. CASE st = "EXPECT_SECOND_SERVER_HELLO"
  BY <1>1, <1>3, BehindIs
<1>4. CASE st = "EXPECT_ENCRYPTED_EXTENSIONS"
  BY <1>1, <1>4, BehindIs
<1>5. CASE st = "EXPECT_CERTIFICATE_REQUEST_OR_CERTIFICATE"
  BY <1>1, <1>5, BehindIs
<1>6. CASE st = "EXPECT_CERTIFICATE"
  BY <1>1, <1>6, BehindIs
<1>7. CASE st = "EXPECT_CERTIFICATE_VERIFY"
  BY <1>1, <1>7, BehindIs
<1>8. CASE st = "EXPECT_FINISHED"
  BY <1>1, <1>8, BehindIs
<1>9. CASE st = "POST_HANDSHAKE"
  BY <1>1, <1>9, BehindIs
<1> QED
  BY <1>2, <1>3, <1>4, <1>5, <1>6, <1>7, <1>8, <1>9 DEF HandshakeStates

-----------------------------------------------------------------------------
(* One iteration of a picotls loop.                                        *)

\* The handshake moves from state `from`, with the message it took, to `to`.
LEMMA Moves ==
    ASSUME SoFar, tls.st \in HandshakeStates, NEW m \in Message,
           NEW to \in HandshakeStates \cup {"POST_HANDSHAKE"},
           \A b \in Behind[tls.st] : Append(b, m) \in Behind[to],
           tls'.st = to, seen' = Append(seen, m)
    PROVE  SoFar'
<1>1. PICK n \in Nat : \E b \in Behind[tls.st] : seen = Retries(n) \o b
  BY DEF SoFar, HandshakeStates
<1>2. PICK b \in Behind[tls.st] : seen = Retries(n) \o b
  BY <1>1
<1>3. seen' = Retries(n) \o Append(b, m)
  BY <1>2, BehindType, Appended
<1>4. Append(b, m) \in Behind[tls'.st]
  OBVIOUS
<1>5. \E k \in Nat : \E a \in Behind[tls'.st] : seen' = Retries(k) \o a
  BY <1>3, <1>4
<1>6. tls'.st # "HANDSHAKE_START"
  BY DEF HandshakeStates
<1> QED
  BY <1>5, <1>6 DEF SoFar

\* A state without a move keeps what was accepted.
LEMMA Stays ==
    ASSUME SoFar, tls'.st = tls.st, seen' = seen
    PROVE  SoFar'
  BY DEF SoFar

\* A message of the handshake: it is accepted in its place, or refused.
LEMMA HandshakeMessage ==
    ASSUME Shape, SoFar, tls.st \in HandshakeStates, HandleMessage
    PROVE  Shape' /\ SoFar' /\ (Underway' \/ Complete')
<1> DEFINE m == Head(tls.mess)
<1>0. /\ "SH" \in Message /\ "HRR" \in Message /\ "EE" \in Message /\ "CR" \in Message
      /\ "CERT" \in Message /\ "CV" \in Message /\ "FIN" \in Message
      /\ tls.st # "POST_HANDSHAKE"
  BY DEF Message, HandshakeStates
<1>1. CASE KeepPart(m)
  <2>1. Shape' /\ tls'.st = tls.st /\ seen' = seen /\ res' = "IN_PROGRESS"
    BY <1>1 DEF KeepPart, Shape
  <2> QED
    BY <2>1, Stays DEF Underway
<1>2. CASE client_handle_hello(m)
  <2>1. CASE m = "HRR" /\ Accept(m, "EXPECT_SECOND_SERVER_HELLO", "IN_PROGRESS")
    <3>1. Shape' /\ tls'.st = "EXPECT_SECOND_SERVER_HELLO" /\ res' = "IN_PROGRESS"
      BY <2>1 DEF Accept, Shape
    <3>2. PICK n \in Nat : seen = Retries(n) \o <<>>
      BY <1>2, BehindIs DEF client_handle_hello, SoFar
    <3>3. seen' = Retries(n + 1) \o <<>> /\ n + 1 \in Nat
      BY <2>1, <3>2, OneMoreRetry DEF Accept
    <3>4. SoFar'
      BY <3>1, <3>3, BehindIs DEF SoFar
    <3> QED
      BY <3>1, <3>4 DEF Underway, HandshakeStates
  <2>2. CASE /\ m = "SH"
             /\ tls' = [tls EXCEPT !.st = "EXPECT_ENCRYPTED_EXTENSIONS",
                                   !.mess = <<>>, !.dec = [ep |-> 2, sq |-> 0]]
             /\ seen' = Append(seen, m)
             /\ res' = "IN_PROGRESS"
    <3>1. /\ Shape' /\ tls'.st = "EXPECT_ENCRYPTED_EXTENSIONS" /\ res' = "IN_PROGRESS"
          /\ seen' = Append(seen, "SH")
      BY <2>2 DEF Shape
    <3>2. \A b \in Behind[tls.st] : Append(b, "SH") \in Behind["EXPECT_ENCRYPTED_EXTENSIONS"]
      BY <1>2, Transitions DEF client_handle_hello
    <3>3. SoFar'
      BY <1>0, <3>1, <3>2, Moves DEF HandshakeStates
    <3> QED
      BY <3>1, <3>3 DEF Underway, HandshakeStates
  <2> QED
    BY <1>2, <2>1, <2>2 DEF client_handle_hello
<1>3. CASE client_handle_encrypted_extensions(m)
  <2>1. /\ Shape' /\ tls'.st = "EXPECT_CERTIFICATE_REQUEST_OR_CERTIFICATE"
        /\ res' = "IN_PROGRESS" /\ seen' = Append(seen, "EE")
        /\ tls.st = "EXPECT_ENCRYPTED_EXTENSIONS"
    BY <1>3 DEF client_handle_encrypted_extensions, Accept, Shape
  <2>2. SoFar'
    BY <1>0, <2>1, Transitions, Moves DEF HandshakeStates
  <2> QED
    BY <2>1, <2>2 DEF Underway, HandshakeStates
<1>4. CASE client_handle_certificate_request(m)
  <2>1. /\ Shape' /\ tls'.st = "EXPECT_CERTIFICATE"
        /\ res' = "IN_PROGRESS" /\ seen' = Append(seen, "CR")
        /\ tls.st = "EXPECT_CERTIFICATE_REQUEST_OR_CERTIFICATE"
    BY <1>4 DEF client_handle_certificate_request, Shape
  <2>2. SoFar'
    BY <1>0, <2>1, Transitions, Moves DEF HandshakeStates
  <2> QED
    BY <2>1, <2>2 DEF Underway, HandshakeStates
<1>5. CASE client_handle_certificate(m)
  <2>1. /\ Shape' /\ tls'.st = "EXPECT_CERTIFICATE_VERIFY"
        /\ res' = "IN_PROGRESS" /\ seen' = Append(seen, "CERT")
    BY <1>5 DEF client_handle_certificate, Accept, Shape
  <2>2. \A b \in Behind[tls.st] : Append(b, "CERT") \in Behind["EXPECT_CERTIFICATE_VERIFY"]
    BY <1>5, Transitions DEF client_handle_certificate
  <2>3. SoFar'
    BY <1>0, <2>1, <2>2, Moves DEF HandshakeStates
  <2> QED
    BY <2>1, <2>3 DEF Underway, HandshakeStates
<1>6. CASE client_handle_certificate_verify(m)
  <2>1. /\ Shape' /\ tls'.st = "EXPECT_FINISHED"
        /\ res' = "IN_PROGRESS" /\ seen' = Append(seen, "CV")
        /\ tls.st = "EXPECT_CERTIFICATE_VERIFY"
    BY <1>6 DEF client_handle_certificate_verify, Accept, Shape
  <2>2. SoFar'
    BY <1>0, <2>1, Transitions, Moves DEF HandshakeStates
  <2> QED
    BY <2>1, <2>2 DEF Underway, HandshakeStates
<1>7. CASE client_handle_finished(m)
  <2>1. /\ Shape' /\ tls'.st = "POST_HANDSHAKE" /\ tls'.mess = <<>>
        /\ res' = "OK" /\ seen' = Append(seen, "FIN")
        /\ tls.st = "EXPECT_FINISHED"
    BY <1>7 DEF client_handle_finished, Shape
  <2>2. SoFar'
    BY <1>0, <2>1, Transitions, Moves DEF HandshakeStates
  <2> QED
    BY <2>1, <2>2 DEF Complete
<1>8. CASE UnexpectedMessage(m)
  <2>1. Shape' /\ tls'.st = tls.st /\ seen' = seen /\ res' = "SELF_ALERT"
    BY <1>8 DEF UnexpectedMessage, Shape
  <2> QED
    BY <2>1, Stays DEF Underway
<1>9. ~client_handle_new_session_ticket(m) /\ ~handle_key_update(m)
  BY <1>0 DEF client_handle_new_session_ticket, handle_key_update
<1> QED
  BY <1>1, <1>2, <1>3, <1>4, <1>5, <1>6, <1>7, <1>8, <1>9 DEF HandleMessage

\* A message after the handshake changes neither the state nor the history.
LEMMA LaterMessage ==
    ASSUME Shape, tls.st = "POST_HANDSHAKE", HandleMessage
    PROVE  Shape' /\ tls'.st = tls.st /\ seen' = seen
  BY DEF HandleMessage, KeepPart, client_handle_hello, client_handle_encrypted_extensions,
         client_handle_certificate_request, client_handle_certificate,
         client_handle_certificate_verify, client_handle_finished,
         client_handle_new_session_ticket, handle_key_update, UnexpectedMessage, Shape

\* Reading a record changes neither; before the end of the handshake no record
\* ends it.
LEMMA UnitRead ==
    ASSUME Shape, HandleUnit
    PROVE  /\ Shape' /\ tls'.st = tls.st /\ seen' = seen
           /\ tls.st # "POST_HANDSHAKE" => res' # "OK"
<1>1. CASE ReadHeader \/ RejectJunk \/ CollectJunk \/ FinishJunk \/ RetryFailedRecord
  BY <1>1 DEF ReadHeader, RejectJunk, CollectJunk, FinishJunk, FailRecord,
              RetryFailedRecord, Shape
<1>2. ASSUME NEW r, ChangeCipherSpec(r) \/ BadRecord(r) \/ TooEarly(r)
      PROVE  /\ Shape' /\ tls'.st = tls.st /\ seen' = seen
             /\ tls.st # "POST_HANDSHAKE" => res' # "OK"
  BY <1>2 DEF ChangeCipherSpec, BadRecord, TooEarly, FailRecord, RecordDone, Shape
<1>3. ASSUME NEW r, AppData(r) \/ Alert(r) \/ StrayRecord(r) \/ HandshakeRecord(r)
      PROVE  /\ Shape' /\ tls'.st = tls.st /\ seen' = seen
             /\ tls.st # "POST_HANDSHAKE" => res' # "OK"
  BY <1>3 DEF AppData, Alert, StrayRecord, HandshakeRecord, Shape
<1> QED
  BY <1>1, <1>2, <1>3 DEF HandleUnit, ReadFragment

-----------------------------------------------------------------------------
(* The steps of a session.                                                 *)

\* A handle that is new or freed.
LEMMA Handles ==
    /\ DOMAIN NewClient = {"st", "rec", "slow", "mess", "part", "dec", "cr", "wantKU"}
    /\ DOMAIN NoTls = {"st", "rec", "slow", "mess", "part", "dec", "cr", "wantKU"}
    /\ NewClient.st = "HANDSHAKE_START" /\ NoTls.st = "NULL"
  BY DEF NewClient, NoTls

\* A call returns without a session.
LEMMA Ended ==
    ASSUME Shape', tls'.st = "NULL", pc' = "idle", sock' = "INVALID", fds' = 0, heap' = {}
    PROVE  SessionInv'
  BY DEF SessionInv, Stages, Locations, Together, Connecting, Handle, Buffers, SoFar

\* tls_close, by a caller that holds no buffer any more, and the call returns.
LEMMA Closed ==
    ASSUME SessionInv, NEW ms, NEW held, tls_close(ms, held), held \in {{}, {"ptls"}},
           pc' = "idle", sock = "OPEN"
    PROVE  SessionInv'
<1>1. /\ tls' = NoTls /\ sock' = "INVALID" /\ fds' = fds - 1 /\ heap' = held \ {"ptls"}
  BY DEF tls_close, FreshTls, Hangup
<1>2. fds = 1
  BY DEF SessionInv, Together
<1>3. heap' = {}
  BY <1>1
<1> QED
  BY <1>1, <1>2, <1>3, Handles, Ended DEF Shape

\* A step that leaves the handle's state, the history and the socket alone.
LEMMA Quiet ==
    ASSUME SessionInv, Shape', Stages', tls'.st = tls.st, seen' = seen,
           UNCHANGED <<sock, fds>>, ~Connecting, ~Connecting', heap' = Handle \cup Buffers'
    PROVE  SessionInv'
<1>1. SoFar'
  BY Stays DEF SessionInv
<1>2. Together'
  BY DEF SessionInv, Together, Handle
<1> QED
  BY <1>1, <1>2 DEF SessionInv

\* No session at the start.
LEMMA InitSession == Init => SessionInv
<1> SUFFICES ASSUME Init PROVE SessionInv
  OBVIOUS
<1>1. tls = NoTls /\ pc = "idle" /\ heap = {} /\ sock = "INVALID" /\ fds = 0
  BY DEF Init
<1> QED
  BY <1>1, Handles DEF SessionInv, Shape, Stages, Locations, Together, Connecting, Handle,
                       Buffers, SoFar

\* The server and the network leave the client alone.
LEMMA EnvironmentLeaves == Environment => ServerKeeps
<1> SUFFICES ASSUME Environment PROVE ServerKeeps
  OBVIOUS
<1>1. CASE \E f \in Flights : ServerFlight(f)
  BY <1>1 DEF ServerFlight
<1>2. CASE ServerEstablished \/ ServerCloses \/ NetFin \/ NetReset
  BY <1>2 DEF ServerEstablished, ServerCloses, NetFin, NetReset
<1>3. CASE \E n \in TicketRecords : ServerTicket(n)
  BY <1>3 DEF ServerTicket
<1>4. CASE \E n \in 1..MaxRecord : ServerApp(n)
  BY <1>4 DEF ServerApp
<1>5. CASE \E m \in {"KU", "KU_REQUEST"} : ServerKeyUpdate(m)
  BY <1>5 DEF ServerKeyUpdate
<1> QED
  BY <1>1, <1>2, <1>3, <1>4, <1>5 DEF Environment

LEMMA EnvironmentNet == Environment => net' \in {net, "fin", "rst"}
<1> SUFFICES ASSUME Environment PROVE net' \in {net, "fin", "rst"}
  OBVIOUS
<1>1. CASE \E f \in Flights : ServerFlight(f)
  BY <1>1 DEF ServerFlight
<1>2. CASE ServerEstablished \/ ServerCloses \/ NetFin \/ NetReset
  BY <1>2 DEF ServerEstablished, ServerCloses, NetFin, NetReset
<1>3. CASE \E n \in TicketRecords : ServerTicket(n)
  BY <1>3 DEF ServerTicket
<1>4. CASE \E n \in 1..MaxRecord : ServerApp(n)
  BY <1>4 DEF ServerApp
<1>5. CASE \E m \in {"KU", "KU_REQUEST"} : ServerKeyUpdate(m)
  BY <1>5 DEF ServerKeyUpdate
<1> QED
  BY <1>1, <1>2, <1>3, <1>4, <1>5 DEF Environment

LEMMA EnvironmentKeeps ==
    ASSUME SessionInv, Environment
    PROVE  SessionInv'
<1>1. UNCHANGED <<tls, res, seen, pc, heap, sock, fds>>
  BY EnvironmentLeaves DEF ServerKeeps, ptlsVars, clientVars
<1> QED
  BY <1>1 DEF SessionInv, Shape, Stages, Underway, Complete, Together, Connecting, Handle,
              Buffers, SoFar

\* tls_connect up to its first read: the four steps behind tcp_connect.
LEMMA ConnectSafe ==
    ASSUME SessionInv, ConnectNew \/ ConnectName \/ ConnectBuffer \/ HandshakeStarts
    PROVE  SessionInv'
<1>0. Shape /\ Stages /\ Together /\ SoFar
  BY DEF SessionInv
<1>1. CASE ConnectNew
  <2>1. tls.st = "NULL" /\ sock = "INVALID" /\ fds = 1 /\ heap = {} /\ sock' = sock
    BY <1>0, <1>1 DEF ConnectNew, Stages, Together, Connecting, Handle, Buffers
  <2>2. CASE FreshTls(NewClient, "OK") /\ heap' = heap \cup {"ptls"} /\ pc' = "connect_name"
             /\ fds' = fds
    <3>1. /\ Shape' /\ tls'.st = "HANDSHAKE_START" /\ seen' = <<>> /\ heap' = {"ptls"}
      BY <2>1, <2>2, Handles DEF FreshTls, Shape
    <3>2. Stages' /\ SoFar'
      BY <2>2, <3>1 DEF Stages, Locations, SoFar
    <3>3. Together'
      BY <2>1, <2>2, <3>1 DEF Together, Connecting, Handle, Buffers
    <3> QED
      BY <3>1, <3>2, <3>3 DEF SessionInv
  <2>3. CASE Hangup /\ Return(-1) /\ UNCHANGED <<ptlsVars, heap>>
    BY <1>0, <2>1, <2>3, Ended DEF Hangup, Return, ptlsVars, Shape
  <2> QED
    BY <1>1, <2>2, <2>3 DEF ConnectNew
<1>2. CASE ConnectName
  <2>1. /\ tls.st = "HANDSHAKE_START" /\ sock = "INVALID" /\ fds = 1 /\ heap = {"ptls"}
        /\ seen = <<>>
    BY <1>0, <1>2 DEF ConnectName, Stages, Together, Connecting, Handle, Buffers, SoFar
  <2>2. CASE pc' = "connect_buf" /\ sock' = "OPEN" /\ UNCHANGED <<ptlsVars, fds, heap>>
    <3>1. Shape' /\ tls'.st = tls.st /\ seen' = seen
      BY <1>0, <2>2 DEF ptlsVars, Shape
    <3>2. Stages' /\ SoFar'
      BY <2>1, <2>2, <3>1 DEF Stages, Locations, SoFar
    <3>3. Together'
      BY <2>1, <2>2, <3>1 DEF Together, Connecting, Handle, Buffers
    <3> QED
      BY <3>1, <3>2, <3>3 DEF SessionInv
  <2>3. CASE /\ FreshTls(NoTls, "OK") /\ heap' = heap \ {"ptls"}
             /\ Hangup /\ Return(-1) /\ UNCHANGED <<sock, rbuf>>
    <3>1. heap' = {} /\ fds' = 0 /\ tls' = NoTls /\ pc' = "idle" /\ sock' = "INVALID"
      BY <2>1, <2>3 DEF FreshTls, Hangup, Return
    <3> QED
      BY <3>1, Handles, Ended DEF Shape
  <2> QED
    BY <1>2, <2>2, <2>3 DEF ConnectName
<1>3. CASE ConnectBuffer
  <2>1. /\ tls.st = "HANDSHAKE_START" /\ sock = "OPEN" /\ fds = 1 /\ heap = {"ptls"}
        /\ pc = "connect_buf"
    BY <1>0, <1>3 DEF ConnectBuffer, Stages, Together, Connecting, Handle, Buffers
  <2>2. CASE /\ heap' = heap \cup {"raw_in"} /\ pc' = "hs_start"
             /\ UNCHANGED <<ptlsVars, sock, fds>>
    <3>1. Shape' /\ tls'.st = tls.st /\ seen' = seen
      BY <1>0, <2>2 DEF ptlsVars, Shape
    <3>2. Stages'
      BY <2>1, <2>2, <3>1 DEF Stages, Locations
    <3>3. heap' = Handle \cup Buffers' /\ ~Connecting /\ ~Connecting'
      BY <2>1, <2>2 DEF Handle, Buffers, Connecting
    <3> QED
      BY <2>2, <3>1, <3>2, <3>3, Quiet
  <2>3. CASE tls_close(<<>>, heap) /\ Return(-1)
    BY <2>1, <2>3, Closed DEF Return
  <2> QED
    BY <1>3, <2>2, <2>3 DEF ConnectBuffer
<1>4. CASE HandshakeStarts
  <2>1. /\ tls.st = "HANDSHAKE_START" /\ sock = "OPEN" /\ fds = 1
        /\ heap = {"ptls", "raw_in"} /\ pc = "hs_start" /\ seen = <<>>
    BY <1>0, <1>4 DEF HandshakeStarts, Stages, Together, Connecting, Handle, Buffers, SoFar
  <2>2. CASE /\ tls' = [tls EXCEPT !.st = "EXPECT_SERVER_HELLO"] /\ pc' = "hs_recv"
             /\ UNCHANGED <<seen, sock, fds, heap>>
    <3>1. Shape' /\ tls'.st = "EXPECT_SERVER_HELLO" /\ seen' = <<>>
      BY <1>0, <2>1, <2>2 DEF Shape
    <3>2. Retries(0) \o <<>> = <<>>
      BY DEF Retries
    <3>3. SoFar'
      BY <3>1, <3>2, BehindIs DEF SoFar
    <3>4. Stages' /\ Together'
      BY <2>1, <2>2, <3>1
      DEF Stages, Locations, HandshakeStates, Together, Connecting, Handle, Buffers
    <3> QED
      BY <3>1, <3>3, <3>4 DEF SessionInv
  <2>3. CASE tls_close(<<>>, heap \ {"raw_in"}) /\ Return(-1)
    <3>1. heap \ {"raw_in"} = {"ptls"}
      BY <2>1
    <3> QED
      BY <2>1, <2>3, <3>1, Closed DEF Return
  <2> QED
    BY <1>4, <2>2, <2>3 DEF HandshakeStarts
<1> QED
  BY <1>1, <1>2, <1>3, <1>4

\* A TCP read.
LEMMA ReadsSome ==
    ASSUME Shape, NEW n, ReadSome(n)
    PROVE  Shape' /\ tls'.st = tls.st /\ tls'.mess = tls.mess
  BY DEF ReadSome, Shape

\* What the caller starts.
LEMMA CallSafe ==
    ASSUME SessionInv, Calls
    PROVE  SessionInv'
<1>0. Shape /\ Stages /\ Together /\ SoFar
  BY DEF SessionInv
<1>1. CASE ConnectRefused
  <2>1. pc' = "idle" /\ pc = "idle" /\ UNCHANGED <<tls, seen, sock, fds, heap>>
    BY <1>1 DEF ConnectRefused, Return, ptlsVars
  <2>2. Shape' /\ Stages'
    BY <1>0, <2>1 DEF Shape, Stages
  <2>3. heap' = Handle \cup Buffers' /\ ~Connecting /\ ~Connecting'
    BY <1>0, <2>1 DEF Together, Handle, Buffers, Connecting
  <2> QED
    BY <2>1, <2>2, <2>3, Quiet
<1>2. CASE Connect
  <2>1. /\ tls.st = "NULL" /\ sock = "INVALID" /\ fds' = 1 /\ heap = {}
        /\ pc' = "connect_new" /\ UNCHANGED <<tls, seen, sock, heap>>
    BY <1>0, <1>2
    DEF Connect, tls_is_connected, ptlsVars, Together, Connecting, Handle, Buffers
  <2>2. Shape' /\ SoFar'
    BY <1>0, <2>1 DEF Shape, SoFar
  <2>3. Stages' /\ Together'
    BY <2>1 DEF Stages, Locations, Together, Connecting, Handle, Buffers
  <2> QED
    BY <2>2, <2>3 DEF SessionInv
<1>3. CASE Send \/ SendFails
  <2>1. /\ pc' = "idle" /\ pc = "idle" /\ UNCHANGED <<seen, sock, fds, heap>>
        /\ tls' = tls \/ tls' = [tls EXCEPT !.wantKU = FALSE]
    BY <1>3 DEF Send, SendFails, SendKeeps, Return
  <2>2. Shape' /\ tls'.st = tls.st
    BY <1>0, <2>1 DEF Shape
  <2>3. Stages'
    BY <1>0, <2>1, <2>2 DEF Stages
  <2>4. heap' = Handle \cup Buffers' /\ ~Connecting /\ ~Connecting'
    BY <1>0, <2>1 DEF Together, Handle, Buffers, Connecting
  <2> QED
    BY <2>1, <2>2, <2>3, <2>4, Quiet
<1>4. CASE Close
  <2>1. pc = "idle" /\ sock = "OPEN" /\ tls_close(<<>>, heap) /\ pc' = "idle"
    BY <1>4 DEF Close, tls_is_connected, Return
  <2>2. heap \in {{}, {"ptls"}}
    BY <1>0, <2>1 DEF Together, Handle, Buffers
  <2> QED
    BY <2>1, <2>2, Closed
<1>5. ASSUME NEW a \in Args, ReceiveCall(a) PROVE SessionInv'
  <2>1. /\ pc = "idle" /\ pc' = "recv_call" /\ tls_is_connected
        /\ UNCHANGED <<tls, seen, sock, fds, heap>>
    BY <1>5 DEF ReceiveCall, ReceiveKeeps, ptlsVars
  <2>2. tls.st = "POST_HANDSHAKE"
    BY <1>0, <2>1 DEF Stages, tls_is_connected
  <2>3. Shape' /\ Stages'
    BY <1>0, <2>1, <2>2 DEF Shape, Stages, Locations
  <2>4. heap' = Handle \cup Buffers' /\ ~Connecting /\ ~Connecting'
    BY <1>0, <2>1 DEF Together, Handle, Buffers, Connecting
  <2> QED
    BY <2>1, <2>3, <2>4, Quiet
<1> QED
  BY <1>1, <1>2, <1>3, <1>4, <1>5 DEF Calls

\* The steps of tls_connect once it waits for the server.
LEMMA HandshakeSafe ==
    ASSUME SessionInv,
           \/ \E n \in 1..RawCapacity : HandshakeRead(n)
           \/ HandshakeInput \/ HandshakeContinues \/ HandshakeCompletes
           \/ HandshakeFails \/ HandshakeAborts
    PROVE  SessionInv'
<1>0. Shape /\ Stages /\ Together /\ SoFar
  BY DEF SessionInv
<1>a. /\ pc \in {"hs_recv", "hs_input"} /\ tls.st # "NULL" /\ sock = "OPEN" /\ ~Connecting
      /\ pc = "hs_recv" => heap = {"ptls", "raw_in"}
      /\ pc = "hs_input" => heap = {"ptls", "raw_in", "hs_buf"}
  <2>1. pc \in {"hs_recv", "hs_input"}
    BY DEF HandshakeRead, HandshakeInput, HandshakeContinues, HandshakeCompletes,
           HandshakeFails, HandshakeAborts
  <2>2. tls.st # "NULL"
    BY <1>0, <2>1 DEF Stages, Underway, Complete, HandshakeStates
  <2> QED
    BY <1>0, <2>1, <2>2 DEF Together, Connecting, Handle, Buffers
<1>1. ASSUME NEW n \in 1..RawCapacity, HandshakeRead(n) PROVE SessionInv'
  <2>1. Shape' /\ tls'.st = tls.st
    BY <1>0, <1>1, ReadsSome DEF HandshakeRead
  <2>2. /\ tls.st \in HandshakeStates /\ pc' = "hs_input" /\ res' = "IN_PROGRESS"
        /\ pc = "hs_recv" /\ heap' = heap \cup {"hs_buf"} /\ UNCHANGED <<seen, sock, fds>>
    BY <1>0, <1>1 DEF HandshakeRead, Stages
  <2>3. Stages'
    BY <2>1, <2>2 DEF Stages, Locations, Underway
  <2>4. heap' = Handle \cup Buffers' /\ ~Connecting'
    BY <1>a, <2>2 DEF Handle, Buffers, Connecting
  <2> QED
    BY <1>a, <2>1, <2>2, <2>3, <2>4, Quiet
<1>2. CASE HandshakeInput
  <2>1. /\ pc = "hs_input" /\ pc' = "hs_input" /\ UNCHANGED <<sock, fds, heap>>
        /\ HandshakeGoesOn /\ handle_input
    BY <1>2 DEF HandshakeInput, clientVars
  <2>2. Underway
    BY <1>0, <2>1 DEF Stages, Complete, HandshakeGoesOn
  <2>3. Shape' /\ SoFar' /\ (Underway' \/ Complete')
    <3>1. CASE tls.mess # <<>>
      BY <1>0, <2>1, <2>2, <3>1, HandshakeMessage DEF handle_input, Underway
    <3>2. CASE tls.mess = <<>>
      <4>1. /\ Shape' /\ tls'.st = tls.st /\ seen' = seen
            /\ tls.st # "POST_HANDSHAKE" => res' # "OK"
        BY <1>0, <2>1, <3>2, UnitRead DEF handle_input
      <4> QED
        BY <1>0, <2>2, <4>1, Stays DEF Underway, HandshakeStates
    <3> QED
      BY <3>1, <3>2
  <2>4. Stages'
    BY <2>1, <2>3 DEF Stages, Locations
  <2>5. tls.st # "NULL" /\ tls'.st # "NULL"
    BY <2>2, <2>3 DEF Underway, Complete, HandshakeStates
  <2>6. Together'
    BY <1>0, <2>1, <2>5 DEF Together, Connecting, Handle, Buffers
  <2> QED
    BY <2>3, <2>4, <2>6 DEF SessionInv
<1>3. CASE HandshakeContinues
  <2>1. /\ pc = "hs_input" /\ pc' = "hs_recv" /\ res = "IN_PROGRESS"
        /\ heap' = heap \ {"hs_buf"} /\ UNCHANGED <<tls, seen, sock, fds>>
    BY <1>3 DEF HandshakeContinues
  <2>2. Shape' /\ Stages'
    BY <1>0, <2>1 DEF Shape, Stages, Locations, Underway, Complete
  <2>3. heap' = Handle \cup Buffers' /\ ~Connecting'
    BY <1>a, <2>1 DEF Handle, Buffers, Connecting
  <2> QED
    BY <1>a, <2>1, <2>2, <2>3, Quiet
<1>4. CASE HandshakeCompletes
  <2>1. /\ pc = "hs_input" /\ pc' = "idle" /\ heap' = heap \ {"hs_buf", "raw_in"} /\ res = "OK"
        /\ UNCHANGED <<tls, seen, sock, fds>>
    BY <1>4 DEF HandshakeCompletes, Return
  <2>2. Shape' /\ Stages'
    BY <1>0, <2>1 DEF Shape, Stages, Locations, Underway, Complete
  <2>3. heap' = Handle \cup Buffers' /\ ~Connecting'
    BY <1>a, <2>1 DEF Handle, Buffers, Connecting
  <2> QED
    BY <1>a, <2>1, <2>2, <2>3, Quiet
<1>5. CASE HandshakeFails
  <2>1. /\ \E ms : tls_close(ms, heap \ {"hs_buf", "raw_in"})
        /\ pc' = "idle" /\ pc = "hs_input"
    BY <1>5 DEF HandshakeFails, Return
  <2>2. heap \ {"hs_buf", "raw_in"} = {"ptls"}
    BY <1>a, <2>1
  <2> QED
    BY <1>a, <2>1, <2>2, Closed
<1>6. CASE HandshakeAborts
  <2>1. tls_close(<<>>, heap \ {"raw_in"}) /\ pc' = "idle" /\ pc = "hs_recv"
    BY <1>6 DEF HandshakeAborts, Return
  <2>2. heap \ {"raw_in"} = {"ptls"}
    BY <1>a, <2>1
  <2> QED
    BY <1>a, <2>1, <2>2, Closed
<1> QED
  BY <1>1, <1>2, <1>3, <1>4, <1>5, <1>6

\* The steps of tls_recv.
LEMMA ReceiveSafe ==
    ASSUME SessionInv,
           \/ \E n \in 1..RawCapacity : ReceiveRead(n)
           \/ ReceiveBuffered \/ ReceiveAllocates
           \/ ReceiveInput \/ ReceiveDelivers \/ ReceiveReadsOn \/ ReceiveFails
           \/ ReceiveDisconnected \/ ReceiveTimesOut
    PROVE  SessionInv'
<1>0. Shape /\ Stages /\ Together
  BY DEF SessionInv
<1>1. /\ pc \in {"recv_call", "recv", "recv_input"} /\ tls.st = "POST_HANDSHAKE"
      /\ UNCHANGED <<sock, fds>>
  <2>1. pc \in {"recv_call", "recv", "recv_input"} /\ UNCHANGED <<sock, fds>>
    BY DEF ReceiveBuffered, ReceiveAllocates, ReceiveRead, ReceiveInput, ReceiveDelivers,
           ReceiveReadsOn, ReceiveFails, ReceiveDisconnected, ReceiveTimesOut, ReceiveKeeps
  <2> QED
    BY <1>0, <2>1 DEF Stages
<1>2. Shape' /\ tls'.st = tls.st /\ seen' = seen
  <2>1. ASSUME NEW n \in 1..RawCapacity, ReceiveRead(n)
        PROVE  Shape' /\ tls'.st = tls.st /\ seen' = seen
    BY <1>0, <2>1, ReadsSome DEF ReceiveRead
  <2>2. CASE ReceiveInput
    <3>1. CASE tls.mess # <<>>
      BY <1>0, <1>1, <2>2, <3>1, LaterMessage DEF ReceiveInput, handle_input
    <3>2. CASE tls.mess = <<>>
      BY <1>0, <1>1, <2>2, <3>2, UnitRead DEF ReceiveInput, handle_input
    <3> QED
      BY <3>1, <3>2
  <2>3. CASE ReceiveDelivers \/ ReceiveReadsOn \/ ReceiveFails
    BY <1>0, <2>3 DEF ReceiveDelivers, ReceiveReadsOn, ReceiveFails, Shape
  <2>4. CASE ReceiveBuffered \/ ReceiveAllocates \/ ReceiveDisconnected \/ ReceiveTimesOut
    BY <1>0, <2>4 DEF ReceiveBuffered, ReceiveAllocates, ReceiveDisconnected,
                      ReceiveTimesOut, ptlsVars, Shape
  <2> QED
    BY <2>1, <2>2, <2>3, <2>4
<1>3. Handle = {"ptls"} /\ heap = Handle \cup Buffers /\ ~Connecting
  BY <1>0, <1>1 DEF Handle, Together, Connecting
<1>4. /\ pc' \in {"idle", "recv_call", "recv", "recv_input"}
      /\ heap' = Handle \cup Buffers'
  <2>1. CASE ReceiveBuffered
    BY <1>3, <2>1 DEF ReceiveBuffered, Delivered, Return, Buffers
  <2>2. CASE ReceiveAllocates
    BY <1>3, <2>2 DEF ReceiveAllocates, Return, Buffers, RecvBuffers
  <2>3. ASSUME NEW n \in 1..RawCapacity, ReceiveRead(n)
        PROVE  pc' \in {"idle", "recv_call", "recv", "recv_input"} /\ heap' = Handle \cup Buffers'
    BY <1>3, <2>3 DEF ReceiveRead, Buffers
  <2>4. CASE ReceiveInput \/ ReceiveReadsOn
    BY <1>3, <2>4 DEF ReceiveInput, ReceiveReadsOn, Buffers
  <2>5. CASE ReceiveDelivers
    BY <1>3, <2>5 DEF ReceiveDelivers, Cleanup, Delivered, Return, Buffers, RecvBuffers
  <2>6. CASE ReceiveFails \/ ReceiveDisconnected \/ ReceiveTimesOut
    BY <1>3, <2>6 DEF ReceiveFails, ReceiveDisconnected, ReceiveTimesOut, Cleanup, Return,
                      Buffers, RecvBuffers
  <2> QED
    BY <2>1, <2>2, <2>3, <2>4, <2>5, <2>6
<1>5. Stages' /\ ~Connecting'
  BY <1>1, <1>2, <1>4 DEF Stages, Locations, Connecting
<1> QED
  BY <1>1, <1>2, <1>3, <1>4, <1>5, Quiet

\* Every step of the session, of the server and of TCP keeps the invariant.
LEMMA StepSession == SessionInv /\ [Next]_vars => SessionInv'
<1> SUFFICES ASSUME SessionInv, [Next]_vars PROVE SessionInv'
  OBVIOUS
<1>1. CASE UNCHANGED vars
  BY <1>1 DEF vars, ptlsVars, clientVars, SessionInv, Shape, Stages, Underway, Complete,
              Together, Connecting, Handle, Buffers, SoFar
<1> QED
  BY <1>1, EnvironmentKeeps, CallSafe, ConnectSafe, HandshakeSafe, ReceiveSafe
  DEF Next, Running

\* So it holds throughout.
LEMMA SessionInvariant == Spec => []SessionInv
  BY InitSession, StepSession, PTL DEF Spec

-----------------------------------------------------------------------------

\* No return of tls_connect, tls_recv, tls_recv_exact or tls_close leaves behind a
\* buffer, a handle or a descriptor that was acquired on the way to it, whatever
\* the server does, whichever allocations fail, and wherever TCP breaks.
THEOREM NoCallLeaks == Spec => []NothingLeaks
<1>1. SessionInv => NothingLeaks
  <2> SUFFICES ASSUME SessionInv PROVE NothingLeaks
    OBVIOUS
  <2>1. pc \in {"idle", "recv_call"} =>
            /\ heap = IF tls.st = "NULL" THEN {} ELSE {"ptls"}
            /\ sock = "OPEN" <=> tls.st # "NULL"
            /\ fds = IF sock = "OPEN" THEN 1 ELSE 0
    BY DEF SessionInv, Together, Connecting, Handle, Buffers
  <2>2. fds <= 1
    BY DEF SessionInv, Together
  <2> QED
    BY <2>1, <2>2 DEF NothingLeaks
<1> QED
  BY <1>1, SessionInvariant, PTL

\* ptls_handshake, ptls_receive and ptls_send are called only in the states
\* their assertions allow.
THEOREM PicotlsCalledRight == Spec => []PicotlsAsserts
<1>1. SessionInv => PicotlsAsserts
  BY DEF SessionInv, Stages, PicotlsAsserts, tls_is_connected
<1> QED
  BY <1>1, SessionInvariant, PTL

\* Whatever flights the server sends, in whatever pieces: a session is handed
\* out only after a whole handshake.
THEOREM OnlyWholeHandshakes == Spec => []WholeHandshake
<1>1. ASSUME SessionInv, tls.st = "POST_HANDSHAKE"
      PROVE  \E n \in 0..Len(seen) :
                seen \in {Retries(n) \o <<"SH", "EE", "CERT", "CV", "FIN">>,
                          Retries(n) \o <<"SH", "EE", "CR", "CERT", "CV", "FIN">>}
  <2>1. PICK n \in Nat : \E b \in Behind["POST_HANDSHAKE"] : seen = Retries(n) \o b
    BY <1>1 DEF SessionInv, SoFar
  <2>2. PICK b \in Behind["POST_HANDSHAKE"] : seen = Retries(n) \o b
    BY <2>1
  <2>3. b \in Seq(Message) /\ Retries(n) \in Seq(Message) /\ Len(Retries(n)) = n
    BY BehindType, RetriesType
  <2>4. Len(Retries(n) \o b) = Len(Retries(n)) + Len(b)
    BY <2>3, ConcatProperties
  <2>5. Len(b) \in Nat
    BY <2>3, LenProperties
  <2>6. n \in 0..Len(seen)
    BY <2>1, <2>2, <2>3, <2>4, <2>5
  <2> QED
    BY <2>2, <2>6, BehindIs
<1>2. SessionInv => WholeHandshake
  BY <1>1 DEF WholeHandshake
<1> QED
  BY <1>2, SessionInvariant, PTL

-----------------------------------------------------------------------------
(* Types                                                                   *)

\* The application bytes of all connections.
StreamBytes == {StreamByte(c, k) : c \in Nat, k \in Nat}

\* Records of the first flight, and those under the server's application keys.
FlightRecord ==
    [ct : {"ccs", "alert", "hs", "app"}, ep : {0, 2}, sq : Nat, body : Seq(Contents)]
AppEpoch  == {n \in Nat : n >= 3}
AppRecord == [ct : {"app"}, ep : AppEpoch, sq : Nat,
              body : {b \in Seq(StreamBytes) : Len(b) \in 1..MaxRecord}]
ControlRecord == [ct : {"hs", "alert"}, ep : AppEpoch, sq : Nat, body : Seq(Contents)]
WireRecord == FlightRecord \cup AppRecord \cup ControlRecord
Unit == [rec : WireRecord, part : {1, 2}]

\* The first parts of the messages that are cut in two.
FirstParts == {<<c[1]>> : c \in Cuts}

TlsState ==
    [st : HandshakeStates \cup {"HANDSHAKE_START", "POST_HANDSHAKE", "NULL"},
     rec : Seq(Unit), slow : BOOLEAN,
     mess : Seq(Contents), part : {<<>>} \cup FirstParts, dec : [ep : Nat, sq : Nat],
     cr : BOOLEAN, wantKU : BOOLEAN]

ClientMessage == {"CLIENT_HELLO", "CERTIFICATE", "FINISHED", "DATA", "KEY_UPDATE", "ALERT",
                  "CLOSE_NOTIFY"}

ServerState ==
    [phase : {"none", "wait_hello", "wait_finished", "up"}, hellos : Nat, ep : {0} \cup AppEpoch,
     sq : Nat, bytes : Nat, control : Nat, honest : BOOLEAN]

TlsTyped ==
    /\ tls \in TlsState
    /\ Len(tls.rec) <= 2 /\ (Len(tls.rec) = 2 => tls.slow)
    /\ tls.mess # <<>> => tls.part = <<>>
    /\ tls.st = "POST_HANDSHAKE" => tls.dec.ep >= 3

InputTyped == raw \in Seq(Unit) /\ res \in Results /\ sendbuf \in Seq(ClientMessage)

BytesTyped ==
    /\ plain \in Seq(StreamBytes) /\ Len(plain) <= MaxRecord
    /\ rbuf \in Seq(StreamBytes) /\ Len(rbuf) <= PlainCapacity
    /\ got \in Seq(StreamBytes)

\* What this program allocates.
Blocks == {"ptls", "raw_in", "hs_buf", "raw", "plain_heap"}

CallTyped ==
    /\ args \in [want : 0..MaxRecord, have : Nat, exact : BOOLEAN, timed : BOOLEAN]
    /\ args.have <= args.want
    /\ ret \in {-1, 0, 1}
    /\ heap \subseteq Blocks
    /\ conn \in 0..MaxConn
    /\ gap \in BOOLEAN /\ due \in BOOLEAN

PeerTyped ==
    /\ net \in {"none", "up", "fin", "rst"}
    /\ wire \in Seq(Unit) /\ c2s \in Seq(ClientMessage) /\ srv \in ServerState
    /\ srv.phase \in {"wait_finished", "up"} => srv.ep >= 3
    /\ srv.phase \in {"none", "wait_hello"} => srv.ep = 0 /\ srv.sq = 0

\* What is empty at which place of the caller's thread.
Drained ==
    /\ pc \notin {"hs_input", "recv_input"} => raw = <<>> /\ plain = <<>> /\ tls.mess = <<>>
    /\ pc = "hs_input" => plain = <<>>
    /\ pc \in {"recv", "recv_input"} => rbuf = <<>>
    /\ plain # <<>> => res = "OK" /\ tls.mess = <<>>
    /\ tls.st # "POST_HANDSHAKE" \/ pc = "hs_input" => got = <<>> /\ rbuf = <<>>

Typed == TlsTyped /\ InputTyped /\ BytesTyped /\ CallTyped /\ PeerTyped /\ Drained

LEMMA TypedImplies == SessionInv /\ Typed => TypeOK
<1> SUFFICES ASSUME SessionInv, Typed PROVE TypeOK
  OBVIOUS
<1>1. pc \in Locations /\ sock \in {"INVALID", "OPEN"} /\ fds \in Nat
  BY DEF SessionInv, Stages, Together
<1>2. /\ tls.st \in HandshakeStates \cup {"HANDSHAKE_START", "POST_HANDSHAKE", "NULL"}
      /\ tls.dec.ep \in Nat /\ tls.dec.sq \in Nat
      /\ Len(tls.rec) <= 2 /\ (Len(tls.rec) = 2 => tls.slow)
      /\ tls.part \in {<<>>} \cup FirstParts
  BY DEF Typed, TlsTyped, TlsState
<1>3. args.want \in 0..MaxRecord /\ args.have \in 0..args.want
  BY SizesAssumption DEF Typed, CallTyped
<1> QED
  BY <1>1, <1>2, <1>3 DEF Typed, InputTyped, BytesTyped, CallTyped, PeerTyped, Blocks, FirstParts, TypeOK

-----------------------------------------------------------------------------
(* Sequences                                                               *)

\* A sequence cut in two.
LEMMA SubSeqType ==
    ASSUME NEW S, NEW q \in Seq(S), NEW n \in 0..Len(q)
    PROVE  /\ SubSeq(q, 1, n) \in Seq(S) /\ Len(SubSeq(q, 1, n)) = n
           /\ SubSeq(q, n + 1, Len(q)) \in Seq(S) /\ Len(SubSeq(q, n + 1, Len(q))) = Len(q) - n
  OBVIOUS

\* A sequence of one element.
LEMMA OneType ==
    ASSUME NEW S, NEW e \in S
    PROVE  <<e>> \in Seq(S) /\ Len(<<e>>) = 1
  OBVIOUS

LEMMA TailType ==
    ASSUME NEW S, NEW q \in Seq(S), q # <<>>
    PROVE  Head(q) \in S /\ Tail(q) \in Seq(S) /\ Len(q) >= 1
  OBVIOUS

LEMMA NewTlsType == NewClient \in TlsState /\ NoTls \in TlsState
<1>1. <<>> \in Seq(Unit) /\ <<>> \in Seq(Contents)
  OBVIOUS
<1>2. NewClient \in TlsState
  BY <1>1 DEF NewClient, NoKey, TlsState, HandshakeStates
<1> QED
  BY <1>2 DEF NoTls, TlsState

LEMMA NoServerType ==
    NoServer \in ServerState /\ [NoServer EXCEPT !.phase = "wait_hello"] \in ServerState
  BY DEF NoServer, ServerState

\* The units of some records are as many times two, and are theirs.
LEMMA UnitsType ==
    ASSUME NEW fs \in Seq(WireRecord)
    PROVE  /\ Units(fs) \in Seq(Unit)
           /\ \A i \in 1..Len(Units(fs)) : \E j \in 1..Len(fs) : Units(fs)[i].rec = fs[j]
<1> DEFINE n == 2 * Len(fs)
<1>1. n \in Nat
  OBVIOUS
<1>2. ASSUME NEW i \in 1..n
      PROVE  (i + 1) \div 2 \in 1..Len(fs)
  BY SMT
<1>3. ASSUME NEW i \in 1..n
      PROVE  [rec |-> fs[(i + 1) \div 2], part |-> IF i % 2 = 1 THEN 1 ELSE 2] \in Unit
  BY <1>2 DEF Unit
<1>4. Units(fs) \in [1..n -> Unit]
  BY <1>3 DEF Units
<1>5. Units(fs) \in Seq(Unit) /\ Len(Units(fs)) = n
  BY <1>1, <1>4
<1>6. ASSUME NEW i \in 1..Len(Units(fs))
      PROVE  \E j \in 1..Len(fs) : Units(fs)[i].rec = fs[j]
  BY <1>2, <1>5 DEF Units
<1> QED
  BY <1>5, <1>6

-----------------------------------------------------------------------------
(* Types: one iteration of a picotls loop.                                 *)

\* A TLS state whose fields are typed is one.
LEMMA TlsTypedNext ==
    ASSUME tls' \in TlsState, tls'.rec = tls.rec, tls'.slow = tls.slow, TlsTyped,
           tls'.mess # <<>> => tls'.part = <<>>,
           tls'.st = "POST_HANDSHAKE" => tls'.dec.ep >= 3
    PROVE  TlsTyped'
  BY DEF TlsTyped

\* A message is taken from those in hand: nothing but the handle and the send
\* buffer changes, and the result is one of picotls.
LEMMA MessageTyped ==
    ASSUME TlsTyped, InputTyped, tls.mess # <<>>, HandleMessage
    PROVE  TlsTyped' /\ InputTyped' /\ plain' = plain /\ raw' = raw
<1> DEFINE m == Head(tls.mess)
<1>0. /\ tls \in TlsState /\ tls.mess \in Seq(Contents) /\ tls.part = <<>>
      /\ Tail(tls.mess) \in Seq(Contents) /\ <<>> \in Seq(Contents) /\ m \in Contents
      /\ sendbuf \in Seq(ClientMessage)
  BY TailType DEF TlsTyped, TlsState, InputTyped
<1>1. Append(sendbuf, "CLIENT_HELLO") \in Seq(ClientMessage)
  BY <1>0 DEF ClientMessage
<1>2. sendbuf \o (IF tls.cr THEN <<"CERTIFICATE">> ELSE <<>>) \o <<"FINISHED">>
         \in Seq(ClientMessage)
  <2>1. /\ <<"CERTIFICATE">> \in Seq(ClientMessage) /\ <<>> \in Seq(ClientMessage)
        /\ <<"FINISHED">> \in Seq(ClientMessage)
    BY DEF ClientMessage
  <2> QED
    BY <1>0, <2>1, ConcatProperties
<1>3. CASE KeepPart(m)
  <2>1. tls.mess = <<m>>
    BY <1>0, <1>3 DEF KeepPart, EndOfRecord
  <2>2. tls.mess \in FirstParts
    BY <1>3, <2>1 DEF KeepPart, FirstParts
  <2>3. tls' \in TlsState
    BY <1>0, <1>3, <2>2 DEF KeepPart, TlsState
  <2>4. /\ tls'.rec = tls.rec /\ tls'.slow = tls.slow /\ tls'.mess = <<>>
        /\ tls'.st = tls.st /\ tls'.dec = tls.dec
    BY <1>0, <1>3 DEF KeepPart, TlsState
  <2>5. TlsTyped'
    BY <2>3, <2>4, TlsTypedNext DEF TlsTyped
  <2> QED
    BY <1>3, <2>5 DEF KeepPart, InputTyped, Results
<1>4. CASE client_handle_hello(m)
  <2>1. CASE m = "HRR" /\ Accept(m, "EXPECT_SECOND_SERVER_HELLO", "IN_PROGRESS")
             /\ sendbuf' = Append(sendbuf, "CLIENT_HELLO")
    <3>1. tls' \in TlsState /\ tls'.st # "POST_HANDSHAKE" /\ tls'.part = <<>>
          /\ tls'.rec = tls.rec /\ tls'.slow = tls.slow
      BY <1>0, <2>1 DEF Accept, TlsState, HandshakeStates
    <3>2. InputTyped' /\ raw' = raw /\ plain' = plain
      BY <1>1, <2>1 DEF Accept, InputTyped, Results
    <3> QED
      BY <3>1, <3>2, TlsTypedNext
  <2>2. CASE /\ tls' = [tls EXCEPT !.st = "EXPECT_ENCRYPTED_EXTENSIONS",
                                   !.mess = <<>>, !.dec = [ep |-> 2, sq |-> 0]]
             /\ res' = "IN_PROGRESS" /\ UNCHANGED <<raw, plain, sendbuf>>
    <3>1. tls' \in TlsState /\ tls'.st # "POST_HANDSHAKE" /\ tls'.part = <<>>
          /\ tls'.rec = tls.rec /\ tls'.slow = tls.slow
      BY <1>0, <2>2 DEF TlsState, HandshakeStates
    <3> QED
      BY <2>2, <3>1, TlsTypedNext DEF InputTyped, Results
  <2> QED
    BY <1>4, <2>1, <2>2 DEF client_handle_hello
<1>5. ASSUME NEW st \in HandshakeStates, Accept(m, st, "IN_PROGRESS"), UNCHANGED sendbuf
      PROVE  TlsTyped' /\ InputTyped' /\ plain' = plain /\ raw' = raw
  <2>1. tls' \in TlsState /\ tls'.rec = tls.rec /\ tls'.slow = tls.slow /\ tls'.part = <<>>
        /\ tls'.st # "POST_HANDSHAKE"
    BY <1>0, <1>5 DEF Accept, TlsState, HandshakeStates
  <2>2. InputTyped' /\ raw' = raw /\ plain' = plain
    BY <1>5 DEF Accept, InputTyped, Results
  <2> QED
    BY <2>1, <2>2, TlsTypedNext
<1>6. CASE \/ client_handle_encrypted_extensions(m) \/ client_handle_certificate(m)
           \/ client_handle_certificate_verify(m)
  BY <1>5, <1>6
  DEF client_handle_encrypted_extensions, client_handle_certificate,
      client_handle_certificate_verify, HandshakeStates
<1>7. CASE client_handle_certificate_request(m)
  <2>1. tls' \in TlsState /\ tls'.rec = tls.rec /\ tls'.slow = tls.slow /\ tls'.part = <<>>
        /\ tls'.st # "POST_HANDSHAKE"
    BY <1>0, <1>7 DEF client_handle_certificate_request, TlsState, HandshakeStates
  <2> QED
    BY <1>7, <2>1, TlsTypedNext DEF client_handle_certificate_request, InputTyped, Results
<1>8. CASE client_handle_finished(m)
  <2>0. [ep |-> 3, sq |-> 0] \in [ep : Nat, sq : Nat]
    OBVIOUS
  <2>3. tls' = [tls EXCEPT !.st = "POST_HANDSHAKE", !.mess = <<>>,
                           !.dec = [ep |-> 3, sq |-> 0], !.cr = FALSE]
    BY <1>8 DEF client_handle_finished
  <2>4. tls' \in TlsState
    BY <1>0, <2>0, <2>3 DEF TlsState
  <2>1. /\ tls' \in TlsState /\ tls'.rec = tls.rec /\ tls'.slow = tls.slow /\ tls'.part = <<>>
        /\ tls'.dec.ep >= 3
    BY <1>0, <2>3, <2>4 DEF TlsState
  <2>2. InputTyped' /\ raw' = raw /\ plain' = plain
    BY <1>2, <1>8 DEF client_handle_finished, InputTyped, Results
  <2> QED
    BY <2>1, <2>2, TlsTypedNext
<1>9. CASE client_handle_new_session_ticket(m) \/ UnexpectedMessage(m)
  <2>1. /\ tls' \in TlsState /\ tls'.rec = tls.rec /\ tls'.slow = tls.slow /\ tls'.part = <<>>
        /\ tls'.st = tls.st /\ tls'.dec = tls.dec
    BY <1>0, <1>9 DEF client_handle_new_session_ticket, UnexpectedMessage, TlsState
  <2> QED
    BY <1>9, <2>1, TlsTypedNext
    DEF client_handle_new_session_ticket, UnexpectedMessage, InputTyped, Results, TlsTyped
<1>10. CASE handle_key_update(m)
  <2>1. tls.dec.ep + 1 \in Nat /\ tls.dec.ep >= 3 /\ tls.wantKU \in BOOLEAN
    BY <1>0, <1>10 DEF handle_key_update, TlsTyped, TlsState
  <2>2. /\ (tls.wantKU \/ m = "KU_REQUEST") \in BOOLEAN
        /\ [ep |-> tls.dec.ep + 1, sq |-> 0] \in [ep : Nat, sq : Nat]
    BY <2>1
  <2>4. tls' = [tls EXCEPT !.mess = Tail(tls.mess),
                           !.dec = [ep |-> tls.dec.ep + 1, sq |-> 0],
                           !.wantKU = tls.wantKU \/ m = "KU_REQUEST"]
    BY <1>0, <1>10 DEF handle_key_update, TlsState
  <2>5. tls' \in TlsState
    BY <1>0, <2>2, <2>4 DEF TlsState
  <2>3. /\ tls' \in TlsState /\ tls'.rec = tls.rec /\ tls'.slow = tls.slow /\ tls'.part = <<>>
        /\ tls'.dec.ep >= 3
    BY <1>0, <2>1, <2>4, <2>5 DEF TlsState
  <2> QED
    BY <1>10, <2>3, TlsTypedNext DEF handle_key_update, InputTyped, Results
<1> QED
  BY <1>3, <1>4, <1>6, <1>7, <1>8, <1>9, <1>10 DEF HandleMessage

\* What HandleMessage gets of a record is a sequence of messages, the first
\* perhaps put together from its two parts.
LEMMA CollectedType ==
    ASSUME tls.part \in {<<>>} \cup FirstParts, NEW body \in Seq(Contents)
    PROVE  Collected(body) \in Seq(Contents)
<1>1. tls.part \in Seq(Contents)
  <2>1. <<>> \in Seq(Contents) /\ <<"SH-">> \in Seq(Contents) /\ <<"CERT-">> \in Seq(Contents)
        /\ <<"NST-">> \in Seq(Contents)
    BY OneType DEF Contents
  <2>2. FirstParts = {<<"SH-">>, <<"CERT-">>, <<"NST-">>}
    BY DEF FirstParts, Cuts
  <2> QED
    BY <2>1, <2>2
<1>2. CASE tls.part # <<>> /\ body # <<>>
           /\ \E c \in Cuts : tls.part = <<c[1]>> /\ Head(body) = c[2]
  <2> DEFINE d == CHOOSE c \in Cuts : tls.part = <<c[1]>>
  <2>1. d \in Cuts
    BY <1>2
  <2>2. <<d[3]>> \in Seq(Contents)
    <3>1. d[3] \in {"SH", "CERT", "NST"}
      <4> HIDE DEF d
      <4> QED
        BY <2>1 DEF Cuts
    <3>2. d[3] \in Contents
      BY <3>1 DEF Contents
    <3> QED
      BY <3>2, OneType
  <2>3. Tail(body) \in Seq(Contents)
    BY <1>2, TailType
  <2> HIDE DEF d
  <2>4. <<d[3]>> \o Tail(body) \in Seq(Contents)
    BY <2>2, <2>3, ConcatProperties
  <2> USE DEF d
  <2> QED
    BY <1>2, <2>4 DEF Collected
<1>3. CASE ~ ( tls.part # <<>> /\ body # <<>>
               /\ \E c \in Cuts : tls.part = <<c[1]>> /\ Head(body) = c[2] )
  BY <1>1, <1>3, ConcatProperties DEF Collected
<1> QED
  BY <1>2, <1>3

\* What is read of a record leaves the handle typed.
LEMMA UnitTyped ==
    ASSUME TlsTyped, InputTyped, raw # <<>>, tls.mess = <<>>, HandleUnit,
           plain = <<>>
    PROVE  /\ TlsTyped' /\ InputTyped'
           /\ plain' = <<>> \/ ( /\ plain' \in Seq(StreamBytes) /\ Len(plain') <= MaxRecord
                                 /\ tls.st = "POST_HANDSHAKE" /\ res' = "OK" /\ tls'.mess = <<>>)
           /\ tls.st # "POST_HANDSHAKE" => plain' = <<>>
<1> DEFINE u == Head(raw)
<1>0. /\ tls \in TlsState /\ tls.rec \in Seq(Unit) /\ tls.dec \in [ep : Nat, sq : Nat]
      /\ tls.part \in {<<>>} \cup FirstParts /\ Len(tls.rec) <= 2
      /\ u \in Unit /\ Tail(raw) \in Seq(Unit)
      /\ raw \in Seq(Unit) /\ sendbuf \in Seq(ClientMessage)
  BY TailType DEF TlsTyped, TlsState, InputTyped
<1>1. <<u>> \in Seq(Unit) /\ Len(<<u>>) = 1 /\ <<>> \in Seq(Unit)
  BY <1>0
<1>2. ASSUME Len(tls.rec) = 1
      PROVE  /\ tls.rec[1] \in Unit /\ tls.rec[1].rec \in WireRecord
             /\ <<tls.rec[1], u>> \in Seq(Unit) /\ Len(<<tls.rec[1], u>>) = 2
  <2>1. tls.rec[1] \in Unit
    BY <1>0, <1>2
  <2> QED
    BY <1>0, <2>1 DEF Unit
<1>3. ASSUME NEW units \in Seq(Unit), Len(units) = 2, FailRecord(units)
      PROVE  TlsTyped' /\ InputTyped' /\ plain' = <<>>
  <2>1. (IF tls.slow THEN units ELSE <<>>) \in Seq(Unit)
    BY <1>1, <1>3
  <2>2. /\ tls' \in TlsState /\ tls'.rec = (IF tls.slow THEN units ELSE <<>>)
        /\ tls'.slow = tls.slow /\ tls'.mess = <<>> /\ tls'.st = tls.st /\ tls'.dec = tls.dec
    BY <1>0, <1>3, <2>1 DEF FailRecord, TlsState
  <2>3. TlsTyped'
    <3>1. Len(tls'.rec) <= 2 /\ (Len(tls'.rec) = 2 => tls'.slow)
      <4>1. CASE tls.slow = TRUE
        <5>1. tls'.rec = units /\ tls'.slow = TRUE
          BY <2>2, <4>1
        <5>2. Len(tls'.rec) = 2
          BY <1>3, <5>1
        <5>3. tls'.slow
          BY <5>1
        <5> QED
          BY <5>2, <5>3
      <4>2. CASE tls.slow = FALSE
        <5>1. tls'.rec = <<>>
          BY <2>2, <4>2
        <5> QED
          BY <5>1
      <4>3. tls.slow \in BOOLEAN
        BY <1>0 DEF TlsState
      <4> QED
        BY <4>1, <4>2, <4>3
    <3> QED
      BY <2>2, <3>1 DEF TlsTyped
  <2> QED
    BY <1>0, <1>3, <2>3 DEF FailRecord, InputTyped, Results
<1>4. CASE ReadHeader \/ CollectJunk
  <2>0. PICK rec \in Seq(Unit) : Len(rec) = 1 /\ tls' = [tls EXCEPT !.rec = rec]
    BY <1>0, <1>1, <1>4 DEF ReadHeader, CollectJunk
  <2>1. /\ tls' \in TlsState /\ Len(tls'.rec) = 1 /\ tls'.mess = <<>>
        /\ tls'.st = tls.st /\ tls'.dec = tls.dec
    BY <1>0, <2>0 DEF TlsState
  <2>2. raw' = Tail(raw) /\ res' = "IN_PROGRESS" /\ UNCHANGED <<plain, sendbuf>>
    BY <1>4 DEF ReadHeader, CollectJunk
  <2> QED
    BY <1>0, <2>1, <2>2 DEF TlsTyped, InputTyped, Results
<1>5. CASE RejectJunk \/ RetryFailedRecord
  BY <1>0, <1>5 DEF RejectJunk, RetryFailedRecord, TlsTyped, InputTyped, Results
<1>6. CASE FinishJunk
  BY <1>2, <1>3, <1>6 DEF FinishJunk
<1>7. CASE ReadFragment
  <2> DEFINE r == tls.rec[1].rec
  <2>1. /\ Len(tls.rec) = 1 /\ r \in WireRecord
        /\ <<tls.rec[1], u>> \in Seq(Unit) /\ Len(<<tls.rec[1], u>>) = 2
    BY <1>2, <1>7 DEF ReadFragment
  <2>2. Advanced(r) \in [ep : Nat, sq : Nat]
    BY <1>0 DEF Advanced
  <2>3. CASE ChangeCipherSpec(r)
    <3>1. CASE tls.st = "POST_HANDSHAKE"
      BY <1>3, <2>1, <2>3, <3>1 DEF ChangeCipherSpec
    <3>2. CASE tls.st # "POST_HANDSHAKE"
      <4>1. /\ tls' = [tls EXCEPT !.rec = <<>>] /\ raw' = Tail(raw) /\ res' = "IN_PROGRESS"
            /\ UNCHANGED <<plain, sendbuf>>
        BY <2>3, <3>2 DEF ChangeCipherSpec, RecordDone
      <4>2. tls' \in TlsState /\ Len(tls'.rec) = 0 /\ tls'.mess = <<>>
        BY <1>0, <1>1, <4>1 DEF TlsState
      <4> QED
        BY <1>0, <4>1, <4>2 DEF TlsTyped, InputTyped, Results
    <3> QED
      BY <3>1, <3>2
  <2>4. CASE BadRecord(r)
    BY <1>3, <2>1, <2>4 DEF BadRecord
  <2>5. CASE TooEarly(r)
    <3>1. /\ tls' = [tls EXCEPT !.rec = <<>>] /\ raw' = Tail(raw) /\ res' = "SELF_ALERT"
          /\ UNCHANGED <<plain, sendbuf>>
      BY <2>5 DEF TooEarly, RecordDone
    <3>2. tls' \in TlsState /\ Len(tls'.rec) = 0 /\ tls'.mess = <<>>
      BY <1>0, <1>1, <3>1 DEF TlsState
    <3> QED
      BY <1>0, <3>1, <3>2 DEF TlsTyped, InputTyped, Results
  <2>6. ASSUME NEW mess \in Seq(Contents), NEW part, part \in {<<>>, tls.part},
               mess # <<>> => part = <<>>,
               tls' = [tls EXCEPT !.rec = <<>>, !.dec = Advanced(r), !.mess = mess, !.part = part]
        PROVE  TlsTyped'
    <3>1. /\ tls' \in TlsState /\ tls'.rec = <<>> /\ tls'.mess = mess /\ tls'.part = part
          /\ tls'.st = tls.st /\ tls'.dec = Advanced(r)
      BY <1>0, <1>1, <2>2, <2>6 DEF TlsState
    <3>2. tls'.dec.ep = tls.dec.ep
      BY <1>0, <3>1 DEF Advanced
    <3> QED
      BY <2>6, <3>1, <3>2 DEF TlsTyped
  <2>7. CASE AppData(r) \/ Alert(r) \/ StrayRecord(r)
    <3>0. tls' = [tls EXCEPT !.rec = <<>>, !.dec = Advanced(r)] /\ raw' = Tail(raw)
          /\ res' \in Results /\ sendbuf' = sendbuf
      BY <2>7 DEF AppData, Alert, StrayRecord, Results
    <3>1. tls' = [tls EXCEPT !.rec = <<>>, !.dec = Advanced(r), !.mess = <<>>, !.part = tls.part]
      BY <1>0, <3>0 DEF TlsState
    <3>2. TlsTyped' /\ InputTyped' /\ tls'.mess = <<>>
      BY <1>0, <2>6, <3>0, <3>1 DEF InputTyped, TlsState
    <3>3. CASE tls.st = "POST_HANDSHAKE" /\ AppData(r)
      <4>1. r.ct = "app" /\ r.ep = tls.dec.ep /\ r.ep >= 3 /\ plain' = r.body /\ res' = "OK"
        BY <1>0, <3>3 DEF AppData, Readable, Decrypts, TlsTyped
      <4>2. r.body \in Seq(StreamBytes) /\ Len(r.body) \in 1..MaxRecord
        BY <2>1, <4>1 DEF WireRecord, FlightRecord, AppRecord, ControlRecord
      <4> QED
        BY <3>2, <3>3, <4>1, <4>2, SizesAssumption
    <3>4. CASE ~(tls.st = "POST_HANDSHAKE" /\ AppData(r))
      <4>1. plain' = <<>>
        BY <2>7, <3>4 DEF AppData, Alert, StrayRecord
      <4> QED
        BY <3>2, <4>1
    <3> QED
      BY <3>3, <3>4
  <2>8. CASE HandshakeRecord(r)
    <3>1. r.body \in Seq(Contents)
      BY <2>1, <2>8 DEF HandshakeRecord, WireRecord, FlightRecord, AppRecord, ControlRecord
    <3>2. Collected(r.body) \in Seq(Contents)
      BY <1>0, <3>1, CollectedType
    <3>3. TlsTyped'
      BY <2>6, <2>8, <3>2 DEF HandshakeRecord
    <3> QED
      BY <1>0, <2>8, <3>3 DEF HandshakeRecord, InputTyped, Results
  <2> QED
    BY <1>7, <2>3, <2>4, <2>5, <2>7, <2>8 DEF ReadFragment
<1> QED
  BY <1>4, <1>5, <1>6, <1>7 DEF HandleUnit

-----------------------------------------------------------------------------
(* Types: the steps of a session.                                          *)

\* The records of a flight are numbered by naturals.
LEMMA NumberedType ==
    ASSUME NEW f \in Flights
    PROVE  Numbered(f) \in Seq(FlightRecord) /\ Len(Numbered(f)) = Len(f)
<1> DEFINE Plain == [ct : {"ccs", "alert", "hs", "app"}, enc : BOOLEAN, body : Seq(Contents)]
<1>1. f \in Seq(Plain)
  BY FlightsAssumption
<1>2. Len(f) \in Nat /\ DOMAIN f = 1..Len(f)
  BY <1>1
<1>3. ASSUME NEW i \in 1..Len(f)
      PROVE  Cardinality({j \in 1..i - 1 : f[j].enc}) \in Nat
  <2>1. IsFiniteSet(1..i - 1)
    BY <1>2, FS_Interval
  <2>2. IsFiniteSet({j \in 1..i - 1 : f[j].enc})
    BY <2>1, FS_Subset
  <2> QED
    BY <2>2, FS_CardinalityType
<1>4. ASSUME NEW i \in 1..Len(f)
      PROVE  [ct |-> f[i].ct, body |-> f[i].body,
              ep |-> IF f[i].enc THEN 2 ELSE 0,
              sq |-> IF f[i].enc THEN Cardinality({j \in 1..i - 1 : f[j].enc}) ELSE 0]
                \in FlightRecord
  <2>1. f[i] \in Plain
    <3> HIDE DEF Plain
    <3> QED
      BY <1>1, <1>2
  <2>2. f[i].ct \in {"ccs", "alert", "hs", "app"} /\ f[i].body \in Seq(Contents)
    BY <2>1
  <2> QED
    BY <1>3, <2>2 DEF FlightRecord
<1>5. Numbered(f) \in [1..Len(f) -> FlightRecord]
  BY <1>2, <1>4 DEF Numbered
<1> QED
  BY <1>2, <1>5

\* The bytes of a connection.
LEMMA StreamByteType ==
    ASSUME NEW c \in Nat, NEW k \in Nat
    PROVE  StreamByte(c, k) \in StreamBytes
  BY DEF StreamBytes

\* What the server's application sends is a record of the stream.
LEMMA AppRecordType ==
    ASSUME PeerTyped, CallTyped, srv.phase = "up", NEW n \in 1..MaxRecord
    PROVE  Sealed("app", [k \in 1..n |-> StreamByte(conn, srv.bytes + k)]) \in WireRecord
<1> DEFINE body == [k \in 1..n |-> StreamByte(conn, srv.bytes + k)]
<1>1. srv \in ServerState /\ srv.ep >= 3 /\ srv.ep \in Nat /\ srv.sq \in Nat /\ srv.bytes \in Nat
      /\ conn \in Nat /\ n \in Nat
  BY SizesAssumption DEF PeerTyped, CallTyped, ServerState, AppEpoch
<1>2. \A k \in 1..n : StreamByte(conn, srv.bytes + k) \in StreamBytes
  BY <1>1, StreamByteType
<1>3. body \in [1..n -> StreamBytes]
  BY <1>2
<1>4. body \in Seq(StreamBytes) /\ Len(body) = n
  BY <1>1, <1>3
<1> HIDE DEF body
<1>5. body \in {b \in Seq(StreamBytes) : Len(b) \in 1..MaxRecord}
  BY <1>4
<1>6. Sealed("app", body) \in AppRecord
  BY <1>1, <1>5 DEF Sealed, AppRecord, AppEpoch
<1> USE DEF body
<1> QED
  BY <1>6 DEF WireRecord

\* Its tickets, key updates and close_notify are control records.
LEMMA ControlRecordType ==
    ASSUME PeerTyped, srv.phase \in {"wait_finished", "up"}, NEW ct \in {"hs", "alert"},
           NEW m \in Contents
    PROVE  /\ Sealed(ct, <<m>>) \in ControlRecord
           /\ [Sealed(ct, <<m>>) EXCEPT !.sq = @ + 1] \in ControlRecord
<1>1. srv.ep >= 3 /\ srv.ep \in Nat /\ srv.sq \in Nat
  BY DEF PeerTyped, ServerState, AppEpoch
<1>2. <<m>> \in Seq(Contents)
  BY OneType
<1> QED
  <2>1. [Sealed(ct, <<m>>) EXCEPT !.sq = @ + 1]
           = [ct |-> ct, ep |-> srv.ep, sq |-> srv.sq + 1, body |-> <<m>>]
    BY DEF Sealed
  <2>2. srv.ep \in AppEpoch /\ srv.sq + 1 \in Nat
    BY <1>1 DEF AppEpoch
  <2> QED
    BY <1>1, <1>2, <2>1, <2>2 DEF Sealed, ControlRecord

\* Records behind those on the wire.
LEMMA WireGrows ==
    ASSUME wire \in Seq(Unit), NEW fs \in Seq(WireRecord)
    PROVE  wire \o Units(fs) \in Seq(Unit)
  BY UnitsType, ConcatProperties

LEMMA TypedEnvironment ==
    ASSUME Typed, Environment
    PROVE  Typed'
<1>0. /\ wire \in Seq(Unit) /\ srv \in ServerState /\ PeerTyped /\ CallTyped
      /\ srv.hellos + 1 \in Nat /\ srv.sq + 1 \in Nat /\ srv.control + 1 \in Nat
  BY DEF Typed, PeerTyped, ServerState
<1>1. ServerKeeps
  BY EnvironmentLeaves
<1>2. UNCHANGED <<tls, raw, res, plain, sendbuf, pc, args, ret, rbuf, heap, got, conn, gap, due,
                  c2s>>
  BY <1>1 DEF ServerKeeps, ptlsVars, clientVars
<1>3. net' \in {"none", "up", "fin", "rst"}
  BY <1>0, EnvironmentNet DEF PeerTyped
<1>4. wire' \in Seq(Unit) /\ srv' \in ServerState
      /\ (srv'.phase \in {"wait_finished", "up"} => srv'.ep >= 3)
      /\ (srv'.phase \in {"none", "wait_hello"} => srv'.ep = 0 /\ srv'.sq = 0)
  <2>1. ASSUME NEW f \in Flights, ServerFlight(f)
        PROVE  wire' \in Seq(Unit) /\ srv' \in ServerState
               /\ (srv'.phase \in {"wait_finished", "up"} => srv'.ep >= 3)
               /\ (srv'.phase \in {"none", "wait_hello"} => srv'.ep = 0 /\ srv'.sq = 0)
    <3>1. Numbered(f) \in Seq(WireRecord)
      BY NumberedType DEF WireRecord
    <3>2. wire' \in Seq(Unit)
      BY <1>0, <2>1, <3>1, WireGrows DEF ServerFlight
    <3> DEFINE retry == f[1].body = <<"HRR">>
    <3>3. /\ srv' = [srv EXCEPT !.hellos = @ + 1, !.honest = @ /\ f \in Honest,
                                !.phase = IF retry THEN @ ELSE "wait_finished",
                                !.ep = IF retry THEN @ ELSE 3]
          /\ srv.phase = "wait_hello"
      BY <2>1 DEF ServerFlight
    <3>4. (srv.honest /\ f \in Honest) \in BOOLEAN /\ 3 \in AppEpoch
      BY DEF AppEpoch
    <3> HIDE DEF retry
    <3>5. srv' \in ServerState
      BY <1>0, <3>3, <3>4 DEF ServerState
    <3> QED
      BY <1>0, <3>2, <3>3, <3>5 DEF ServerState, PeerTyped
  <2>2. ASSUME NEW n \in TicketRecords, ServerTicket(n)
        PROVE  wire' \in Seq(Unit) /\ srv' \in ServerState
               /\ (srv'.phase \in {"wait_finished", "up"} => srv'.ep >= 3)
               /\ (srv'.phase \in {"none", "wait_hello"} => srv'.ep = 0 /\ srv'.sq = 0)
    <3>1. /\ srv.phase \in {"wait_finished", "up"} /\ srv.sq + n \in Nat
          /\ srv' = [srv EXCEPT !.sq = @ + n, !.control = @ + 1]
      BY <1>0, <2>2, TicketAssumption DEF ServerTicket, ServerState
    <3>2. srv' \in ServerState
      BY <1>0, <3>1 DEF ServerState
    <3>3. \A m \in Contents : /\ Sealed("hs", <<m>>) \in WireRecord
                              /\ [Sealed("hs", <<m>>) EXCEPT !.sq = @ + 1] \in WireRecord
      BY <1>0, <3>1, ControlRecordType DEF WireRecord
    <3>4. /\ <<Sealed("hs", <<"NST">>)>> \in Seq(WireRecord)
          /\ <<Sealed("hs", <<"NST-">>),
               [Sealed("hs", <<"-NST">>) EXCEPT !.sq = @ + 1]>> \in Seq(WireRecord)
      BY <3>3 DEF Contents
    <3>5. wire' \in Seq(Unit)
      BY <1>0, <2>2, <3>4, WireGrows DEF ServerTicket
    <3> QED
      BY <1>0, <3>1, <3>2, <3>5 DEF PeerTyped, ServerState
  <2>3. ASSUME NEW n \in 1..MaxRecord, ServerApp(n)
        PROVE  wire' \in Seq(Unit) /\ srv' \in ServerState
               /\ (srv'.phase \in {"wait_finished", "up"} => srv'.ep >= 3)
               /\ (srv'.phase \in {"none", "wait_hello"} => srv'.ep = 0 /\ srv'.sq = 0)
    <3>1. srv.phase = "up" /\ srv' = [srv EXCEPT !.sq = @ + 1, !.bytes = @ + n]
      BY <2>3 DEF ServerApp
    <3>2. srv.bytes + n \in Nat
      BY <1>0, SizesAssumption DEF ServerState
    <3>3. srv' \in ServerState
      BY <1>0, <3>1, <3>2 DEF ServerState
    <3>4. wire' \in Seq(Unit)
      BY <1>0, <2>3, <3>1, AppRecordType, OneType, WireGrows DEF ServerApp, ServerSends
    <3> QED
      BY <1>0, <3>1, <3>3, <3>4 DEF PeerTyped, ServerState
  <2>4. ASSUME NEW m \in {"KU", "KU_REQUEST"}, ServerKeyUpdate(m)
        PROVE  wire' \in Seq(Unit) /\ srv' \in ServerState
               /\ (srv'.phase \in {"wait_finished", "up"} => srv'.ep >= 3)
               /\ (srv'.phase \in {"none", "wait_hello"} => srv'.ep = 0 /\ srv'.sq = 0)
    <3>1. /\ srv.phase = "up" /\ srv' = [srv EXCEPT !.ep = @ + 1, !.sq = 0, !.control = @ + 1]
          /\ m \in Contents
      BY <2>4 DEF ServerKeyUpdate, Contents
    <3>2. srv.ep \in AppEpoch /\ srv.ep + 1 \in AppEpoch
      BY <1>0, <3>1 DEF PeerTyped, ServerState, AppEpoch
    <3>3. srv' \in ServerState
      BY <1>0, <3>1, <3>2 DEF ServerState
    <3>4. Sealed("hs", <<m>>) \in WireRecord
      BY <1>0, <3>1, ControlRecordType DEF WireRecord
    <3>5. wire' \in Seq(Unit)
      BY <1>0, <2>4, <3>4, OneType, WireGrows DEF ServerKeyUpdate, ServerSends
    <3> QED
      BY <1>0, <3>1, <3>2, <3>3, <3>5 DEF PeerTyped, ServerState, AppEpoch
  <2>5. CASE ServerCloses
    <3>1. srv.phase = "up" /\ srv' = [srv EXCEPT !.sq = @ + 1]
      BY <2>5 DEF ServerCloses
    <3>2. srv' \in ServerState
      BY <1>0, <3>1 DEF ServerState
    <3>3. Sealed("alert", <<"close_notify">>) \in WireRecord
      BY <1>0, <3>1, ControlRecordType DEF WireRecord, Contents
    <3>4. wire' \in Seq(Unit)
      BY <1>0, <2>5, <3>3, OneType, WireGrows DEF ServerCloses, ServerSends
    <3> QED
      BY <1>0, <3>1, <3>2, <3>4 DEF PeerTyped, ServerState
  <2>6. CASE ServerEstablished
    <3>1. wire' = wire /\ srv.phase = "wait_finished" /\ srv' = [srv EXCEPT !.phase = "up"]
      BY <2>6 DEF ServerEstablished
    <3>2. srv' \in ServerState /\ srv'.phase = "up" /\ srv'.ep = srv.ep
      BY <1>0, <3>1 DEF ServerState
    <3> QED
      BY <1>0, <3>1, <3>2 DEF PeerTyped
  <2>7. CASE NetFin \/ NetReset
    <3>1. srv' = srv /\ (wire' = wire \/ wire' = <<>>)
      BY <2>7 DEF NetFin, NetReset
    <3>2. <<>> \in Seq(Unit)
      OBVIOUS
    <3>3. wire' \in Seq(Unit)
      BY <1>0, <3>1, <3>2
    <3> QED
      BY <1>0, <3>1, <3>3 DEF PeerTyped
  <2> QED
    BY <2>1, <2>2, <2>3, <2>4, <2>5, <2>6, <2>7 DEF Environment
<1>5. PeerTyped'
  BY <1>2, <1>3, <1>4 DEF PeerTyped, Typed
<1>6. TlsTyped' /\ InputTyped'
  BY <1>2 DEF Typed, TlsTyped, InputTyped
<1>7. BytesTyped' /\ CallTyped'
  BY <1>2 DEF Typed, BytesTyped, CallTyped
<1>8. Drained'
  BY <1>2 DEF Typed, Drained
<1> QED
  BY <1>5, <1>6, <1>7, <1>8 DEF Typed

\* No server yet, or one that waits for the first ClientHello.
LEMMA NewServer ==
    /\ NoServer \in ServerState /\ NoServer.phase = "none" /\ NoServer.ep = 0 /\ NoServer.sq = 0
    /\ NoServer.bytes = 0
    /\ LET s == [NoServer EXCEPT !.phase = "wait_hello"]
       IN s \in ServerState /\ s.phase = "wait_hello" /\ s.ep = 0 /\ s.sq = 0 /\ s.bytes = 0
  BY NoServerType DEF NoServer

\* The empty sequences.
LEMMA Empty ==
    /\ <<>> \in Seq(Unit) /\ <<>> \in Seq(StreamBytes) /\ <<>> \in Seq(ClientMessage)
    /\ Len(<<>>) = 0
  OBVIOUS

\* A handle that is new or freed.
LEMMA NewTls ==
    /\ NewClient \in TlsState /\ NewClient.st = "HANDSHAKE_START" /\ NewClient.rec = <<>>
    /\ NewClient.mess = <<>> /\ NewClient.part = <<>>
    /\ NoTls \in TlsState /\ NoTls.st = "NULL" /\ NoTls.rec = <<>>
    /\ NoTls.mess = <<>> /\ NoTls.part = <<>>
  BY NewTlsType DEF NewClient, NoTls

LEMMA NoArgsType ==
    /\ NoArgs \in [want : 0..MaxRecord, have : Nat, exact : BOOLEAN, timed : BOOLEAN]
    /\ NoArgs.have <= NoArgs.want
  BY SizesAssumption DEF NoArgs

\* The call returns.
LEMMA ReturnTyped ==
    ASSUME CallTyped, NEW r \in {-1, 0, 1}, Return(r), conn' = conn, heap' \subseteq Blocks,
           gap' \in BOOLEAN, due' \in BOOLEAN
    PROVE  CallTyped' /\ pc' = "idle"
  BY NoArgsType DEF Return, CallTyped

LEMMA TypedInit == Init => Typed
<1> SUFFICES ASSUME Init PROVE Typed
  OBVIOUS
<1>1. TlsTyped /\ InputTyped /\ BytesTyped
  BY Empty, NewTls, SizesAssumption DEF Init, TlsTyped, InputTyped, BytesTyped, Results
<1>2. CallTyped
  <2>1. gap \in BOOLEAN /\ due \in BOOLEAN
    BY DEF Init
  <2>2. /\ args = NoArgs /\ ret = 0 /\ heap = {} /\ conn \in 0..MaxConn
    BY SizesAssumption DEF Init
  <2> QED
    BY <2>1, <2>2, NoArgsType DEF CallTyped
<1>3. PeerTyped /\ Drained
  BY Empty, NewTls, NewServer DEF Init, PeerTyped, Drained
<1> QED
  BY <1>1, <1>2, <1>3 DEF Typed

\* tls_close, and the call returns.
LEMMA TypedClosed ==
    ASSUME Typed, NEW ms \in Seq(ClientMessage), NEW held, held \subseteq Blocks,
           tls_close(ms, held), NEW r \in {-1, 0, 1}, Return(r)
    PROVE  Typed'
<1>1. /\ tls' = NoTls /\ rbuf' = <<>> /\ raw' = <<>> /\ res' = "OK" /\ plain' = <<>>
      /\ sendbuf' = <<>> /\ got' = <<>> /\ net' = "none" /\ wire' = <<>> /\ srv' = NoServer
      /\ conn' = conn /\ heap' \subseteq Blocks /\ gap' = FALSE /\ due' = FALSE
  BY DEF tls_close, FreshTls, Hangup
<1>2. c2s' \in Seq(ClientMessage)
  <2>1. <<"CLOSE_NOTIFY">> \in Seq(ClientMessage)
    BY OneType DEF ClientMessage
  <2>2. PICK sent \in SendOutcomes :
            c2s' = c2s \o ms \o (IF tls_is_connected /\ sent /\ ~gap
                                 THEN <<"CLOSE_NOTIFY">> ELSE <<>>)
    BY DEF tls_close
  <2>3. c2s \o ms \in Seq(ClientMessage)
    BY ConcatProperties DEF Typed, PeerTyped
  <2> QED
    BY <2>1, <2>2, <2>3, Empty, ConcatProperties
<1>3. TlsTyped' /\ InputTyped' /\ BytesTyped'
  BY <1>1, Empty, NewTls, SizesAssumption DEF TlsTyped, InputTyped, BytesTyped, Results
<1>4. CallTyped' /\ pc' = "idle"
  BY <1>1, ReturnTyped DEF Typed
<1>5. PeerTyped' /\ Drained'
  BY <1>1, <1>2, <1>4, Empty, NewTls, NewServer DEF PeerTyped, Drained
<1> QED
  BY <1>3, <1>4, <1>5 DEF Typed

\* The buffers of the session, the handle and the peer are left alone.
LEMMA TypedReturn ==
    ASSUME Typed, pc \notin {"hs_input", "recv_input"}, NEW r \in {-1, 0, 1}, Return(r),
           heap' \subseteq Blocks,
           UNCHANGED <<tls, raw, res, plain, sendbuf, rbuf, got, conn, gap, due, net, wire,
                       c2s, srv>>
    PROVE  Typed'
<1>0. gap' \in BOOLEAN /\ due' \in BOOLEAN
  BY DEF Typed, CallTyped
<1>1. CallTyped' /\ pc' = "idle"
  BY <1>0, ReturnTyped DEF Typed
<1>2. TlsTyped' /\ InputTyped' /\ BytesTyped' /\ PeerTyped'
  BY DEF Typed, TlsTyped, InputTyped, BytesTyped, PeerTyped
<1>3. Drained'
  BY <1>1 DEF Typed, Drained
<1> QED
  BY <1>1, <1>2, <1>3 DEF Typed

\* tls_connect: the TCP connection, the handle, and what it gives back of them.
LEMMA TypedConnect ==
    ASSUME SessionInv, Typed, Connect \/ ConnectNew \/ ConnectName
    PROVE  Typed'
<1>0. TlsTyped /\ InputTyped /\ BytesTyped /\ CallTyped /\ PeerTyped /\ Drained
  BY DEF Typed
<1>1. CASE Connect
  <2>1. /\ pc = "idle" /\ ~tls_is_connected /\ pc' = "connect_new" /\ net' = "up" /\ wire' = <<>>
        /\ c2s' = <<>> /\ srv' = [NoServer EXCEPT !.phase = "wait_hello"] /\ got' = <<>>
        /\ gap' = FALSE /\ due' = FALSE /\ conn < MaxConn /\ conn' = conn + 1
        /\ UNCHANGED <<tls, raw, res, plain, sendbuf, args, ret, rbuf, heap>>
    BY <1>1 DEF Connect, ptlsVars
  <2>2. tls.st = "NULL"
    BY <2>1 DEF SessionInv, Stages, Together, Connecting, tls_is_connected
  <2>3. TlsTyped' /\ InputTyped' /\ BytesTyped'
    BY <1>0, <2>1, Empty DEF TlsTyped, InputTyped, BytesTyped
  <2>4. CallTyped'
    <3>1. gap' \in BOOLEAN /\ due' \in BOOLEAN
      BY <2>1
    <3>2. conn' \in 0..MaxConn
      BY <1>0, <2>1, SizesAssumption DEF CallTyped
    <3> QED
      BY <1>0, <2>1, <3>1, <3>2 DEF CallTyped
  <2>5. PeerTyped'
    BY <2>1, Empty, NewServer DEF PeerTyped
  <2>6. Drained'
    BY <1>0, <2>1, <2>2 DEF Drained
  <2> QED
    BY <2>3, <2>4, <2>5, <2>6 DEF Typed
<1>3. ASSUME NEW t \in {NewClient, NoTls}, FreshTls(t, "OK"), heap' \subseteq Blocks,
             \/ pc' = "connect_name" /\ UNCHANGED <<args, ret, fds, net, wire, srv>>
             \/ Hangup /\ Return(-1),
             UNCHANGED <<sock, rbuf, got, conn, gap, due, c2s>>, tls.st # "POST_HANDSHAKE"
      PROVE  Typed'
  <2>1. /\ tls' \in {NewClient, NoTls} /\ res' = "OK" /\ raw' = <<>> /\ plain' = <<>>
        /\ sendbuf' = <<>>
    BY <1>3 DEF FreshTls
  <2>2. TlsTyped' /\ InputTyped' /\ BytesTyped'
    <3>1. TlsTyped'
      <4>1. CASE tls' = NewClient
        BY <4>1, Empty, NewTls DEF TlsTyped
      <4>2. CASE tls' = NoTls
        BY <4>2, Empty, NewTls DEF TlsTyped
      <4> QED
        BY <2>1, <4>1, <4>2
    <3>2. InputTyped' /\ BytesTyped'
      BY <1>0, <1>3, <2>1, Empty, SizesAssumption DEF InputTyped, BytesTyped, Results
    <3> QED
      BY <3>1, <3>2
  <2>3. CallTyped' /\ pc' \in {"connect_name", "idle"}
    <3>1. gap' \in BOOLEAN /\ due' \in BOOLEAN /\ conn' = conn
      BY <1>0, <1>3 DEF CallTyped
    <3>2. CASE pc' = "connect_name" /\ UNCHANGED <<args, ret, fds, net, wire, srv>>
      BY <1>0, <1>3, <3>1, <3>2 DEF CallTyped
    <3>3. CASE Hangup /\ Return(-1)
      BY <1>0, <1>3, <3>1, <3>3, ReturnTyped
    <3> QED
      BY <1>3, <3>2, <3>3
  <2>4. PeerTyped'
    BY <1>0, <1>3, Empty, NewServer DEF PeerTyped, Hangup
  <2>5. Drained'
    BY <1>0, <1>3, <2>1, <2>3, NewTls DEF Drained
  <2> QED
    BY <2>2, <2>3, <2>4, <2>5 DEF Typed
<1>4. CASE ConnectNew
  <2>1. tls.st = "NULL" /\ pc = "connect_new" /\ heap \subseteq Blocks
    BY <1>0, <1>4 DEF ConnectNew, SessionInv, Stages, CallTyped
  <2>2. CASE FreshTls(NewClient, "OK") /\ heap' = heap \cup {"ptls"} /\ pc' = "connect_name"
             /\ UNCHANGED <<args, ret, fds, net, wire, srv>>
    <3>1. heap' \subseteq Blocks
      BY <2>1, <2>2 DEF Blocks
    <3> QED
      BY <1>3, <1>4, <2>1, <2>2, <3>1 DEF ConnectNew
  <2>3. CASE Hangup /\ Return(-1) /\ UNCHANGED <<tls, raw, res, plain, sendbuf, seen, heap>>
    <3>1. UNCHANGED <<sock, rbuf, got, conn, gap, due, c2s>>
      BY <1>4 DEF ConnectNew
    <3>2. CallTyped' /\ pc' = "idle"
      BY <1>0, <2>1, <2>3, <3>1, ReturnTyped DEF CallTyped
    <3>3. TlsTyped' /\ InputTyped' /\ BytesTyped'
      BY <1>0, <2>3, <3>1 DEF TlsTyped, InputTyped, BytesTyped
    <3>4. PeerTyped'
      BY <1>0, <2>3, <3>1, Empty, NewServer DEF PeerTyped, Hangup
    <3>5. Drained'
      BY <1>0, <2>1, <2>3, <3>1 DEF Drained
    <3> QED
      BY <3>2, <3>3, <3>4, <3>5 DEF Typed
  <2> QED
    BY <1>4, <2>2, <2>3 DEF ConnectNew, ptlsVars
<1>5. CASE ConnectName
  <2>1. tls.st = "HANDSHAKE_START" /\ pc = "connect_name" /\ heap \subseteq Blocks
    BY <1>0, <1>5 DEF ConnectName, SessionInv, Stages, CallTyped
  <2>2. CASE pc' = "connect_buf" /\ rbuf' = <<>>
             /\ UNCHANGED <<tls, raw, res, plain, sendbuf, seen, args, ret, fds, heap, net,
                            wire, srv>>
    <3>1. UNCHANGED <<got, conn, gap, due, c2s>>
      BY <1>5 DEF ConnectName
    <3>2. TlsTyped' /\ InputTyped' /\ BytesTyped'
      BY <1>0, <2>2, <3>1, Empty, SizesAssumption DEF TlsTyped, InputTyped, BytesTyped
    <3>3. CallTyped' /\ PeerTyped' /\ Drained'
      BY <1>0, <2>1, <2>2, <3>1 DEF CallTyped, PeerTyped, Drained
    <3> QED
      BY <3>2, <3>3 DEF Typed
  <2>3. CASE /\ FreshTls(NoTls, "OK") /\ heap' = heap \ {"ptls"} /\ Hangup /\ Return(-1)
             /\ UNCHANGED <<sock, rbuf>>
    BY <1>3, <1>5, <2>1, <2>3 DEF ConnectName
  <2> QED
    BY <1>5, <2>2, <2>3 DEF ConnectName, ptlsVars
<1> QED
  BY <1>1, <1>4, <1>5

\* tls_connect: the buffer for what comes in, and the ClientHello.
LEMMA TypedStart ==
    ASSUME SessionInv, Typed, ConnectBuffer \/ HandshakeStarts
    PROVE  Typed'
<1>0. TlsTyped /\ InputTyped /\ BytesTyped /\ CallTyped /\ PeerTyped /\ Drained
  BY DEF Typed
<1>1. heap \subseteq Blocks
  BY <1>0 DEF CallTyped
<1>2. CASE ConnectBuffer
  <2>1. CASE /\ heap' = heap \cup {"raw_in"} /\ pc' = "hs_start"
             /\ UNCHANGED <<tls, raw, res, plain, sendbuf, args, ret, rbuf, got, conn, gap, due,
                            net, wire, c2s, srv>>
    <3>1. heap' \subseteq Blocks /\ pc = "connect_buf"
      BY <1>1, <1>2, <2>1 DEF Blocks, ConnectBuffer
    <3>2. TlsTyped' /\ InputTyped' /\ BytesTyped' /\ PeerTyped'
      BY <1>0, <2>1 DEF TlsTyped, InputTyped, BytesTyped, PeerTyped
    <3>3. CallTyped' /\ Drained'
      BY <1>0, <2>1, <3>1 DEF CallTyped, Drained
    <3> QED
      BY <3>2, <3>3 DEF Typed
  <2>2. CASE tls_close(<<>>, heap) /\ Return(-1)
    BY <1>1, <2>2, Empty, TypedClosed
  <2> QED
    BY <1>2, <2>1, <2>2 DEF ConnectBuffer, ptlsVars
<1>3. CASE HandshakeStarts
  <2>1. CASE /\ c2s' = Append(c2s, "CLIENT_HELLO")
             /\ tls' = [tls EXCEPT !.st = "EXPECT_SERVER_HELLO"] /\ res' = "IN_PROGRESS"
             /\ pc' = "hs_recv"
             /\ UNCHANGED <<raw, plain, sendbuf, args, ret, rbuf, heap, got, conn, gap, due,
                            net, wire, srv>>
    <3>1. pc = "hs_start" /\ tls \in TlsState
      BY <1>0, <1>3 DEF HandshakeStarts, TlsTyped
    <3>2. /\ tls' \in TlsState /\ tls'.st = "EXPECT_SERVER_HELLO" /\ tls'.rec = tls.rec
          /\ tls'.slow = tls.slow /\ tls'.mess = tls.mess /\ tls'.part = tls.part
      BY <2>1, <3>1 DEF TlsState, HandshakeStates
    <3>3. c2s' \in Seq(ClientMessage)
      BY <1>0, <2>1 DEF ClientMessage, PeerTyped
    <3>4. TlsTyped' /\ InputTyped' /\ BytesTyped'
      BY <1>0, <2>1, <3>2 DEF TlsTyped, InputTyped, BytesTyped, Results
    <3>5. CallTyped' /\ PeerTyped'
      BY <1>0, <2>1, <3>3 DEF CallTyped, PeerTyped
    <3>6. tls.st = "HANDSHAKE_START"
      BY <3>1 DEF SessionInv, Stages
    <3>7. Drained'
      BY <1>0, <2>1, <3>1, <3>2, <3>6 DEF Drained
    <3> QED
      BY <3>4, <3>5, <3>7 DEF Typed
  <2>2. CASE tls_close(<<>>, heap \ {"raw_in"}) /\ Return(-1)
    <3>1. heap \ {"raw_in"} \subseteq Blocks
      BY <1>1
    <3> QED
      BY <2>2, <3>1, Empty, TypedClosed
  <2> QED
    BY <1>3, <2>1, <2>2 DEF HandshakeStarts
<1> QED
  BY <1>2, <1>3

\* What a receive call returns with, or goes round again with.
LEMMA DeliveredTyped ==
    ASSUME CallTyped, UNCHANGED <<conn, gap, due>>, heap' \subseteq Blocks, NEW n \in Nat,
           args.have + n <= args.want, Delivered(n)
    PROVE  CallTyped' /\ pc' \in {"idle", "recv_call"}
<1>0. gap' \in BOOLEAN /\ due' \in BOOLEAN
  BY DEF CallTyped
<1>1. CASE /\ pc' = "recv_call" /\ args' = [args EXCEPT !.have = args.have + n] /\ ret' = ret
  <2>1. args \in [want : 0..MaxRecord, have : Nat, exact : BOOLEAN, timed : BOOLEAN]
    BY DEF CallTyped
  <2>2. /\ args' \in [want : 0..MaxRecord, have : Nat, exact : BOOLEAN, timed : BOOLEAN]
        /\ args'.have <= args'.want
    BY <1>1, <2>1, SizesAssumption
  <2> QED
    BY <1>0, <1>1, <2>2 DEF CallTyped
<1>2. CASE Return(0)
  BY <1>0, <1>2, ReturnTyped
<1> QED
  BY <1>1, <1>2 DEF Delivered

\* The number of bytes that are taken of q when there is room for so many.
LEMMA TakenIs ==
    ASSUME CallTyped, NEW q \in Seq(StreamBytes)
    PROVE  /\ Taken(q) \in 0..Len(q) /\ args.have + Taken(q) <= args.want
           /\ SubSeq(q, 1, Taken(q)) \in Seq(StreamBytes)
           /\ Len(SubSeq(q, 1, Taken(q))) = Taken(q)
           /\ SubSeq(q, Taken(q) + 1, Len(q)) \in Seq(StreamBytes)
           /\ Len(SubSeq(q, Taken(q) + 1, Len(q))) = Len(q) - Taken(q)
<1>1. args.want \in Nat /\ args.have \in Nat /\ args.have <= args.want /\ Len(q) \in Nat
  BY SizesAssumption DEF CallTyped
<1>2. Taken(q) \in 0..Len(q) /\ args.have + Taken(q) <= args.want
  BY <1>1 DEF Taken
<1> QED
  BY <1>2, SubSeqType

\* tls_send: what it says is typed, and it leaves the bytes of the session alone.
LEMMA TypedSend ==
    ASSUME SessionInv, Typed, Send \/ SendFails
    PROVE  Typed'
<1>1. /\ pc = "idle" /\ (Return(0) \/ Return(-1))
      /\ tls' = tls \/ tls' = [tls EXCEPT !.wantKU = FALSE]
      /\ UNCHANGED <<raw, res, plain, sendbuf, rbuf, heap, got, conn, net, wire, srv>>
      /\ gap' \in {gap, TRUE}
      /\ \E ms \in {<<>>, PendingUpdate, PendingUpdate \o <<"DATA">>} : Says(ms)
  BY DEF Send, SendFails, SendKeeps
<1>2. tls \in TlsState /\ CallTyped
  BY DEF Typed, TlsTyped
<1>3. /\ tls' \in TlsState /\ tls'.st = tls.st /\ tls'.rec = tls.rec /\ tls'.slow = tls.slow
      /\ tls'.mess = tls.mess /\ tls'.part = tls.part /\ tls'.dec = tls.dec
  BY <1>1, <1>2 DEF TlsState
<1>4. TlsTyped'
  BY <1>3 DEF Typed, TlsTyped
<1>5. PICK ms \in {<<>>, PendingUpdate, PendingUpdate \o <<"DATA">>} : Says(ms)
  BY <1>1
<1>6. CallTyped' /\ pc' = "idle"
  <2>1. gap' \in BOOLEAN /\ due' \in BOOLEAN /\ heap' \subseteq Blocks
    BY <1>1, <1>2, <1>5 DEF CallTyped, Says
  <2> QED
    BY <1>1, <1>2, <2>1, ReturnTyped
<1>7. InputTyped' /\ BytesTyped' /\ Drained'
  BY <1>1, <1>3, <1>6 DEF Typed, InputTyped, BytesTyped, Drained
<1>8. c2s' \in Seq(ClientMessage)
  <2>1. /\ <<"KEY_UPDATE">> \in Seq(ClientMessage) /\ <<"DATA">> \in Seq(ClientMessage)
        /\ c2s \in Seq(ClientMessage)
    BY OneType DEF ClientMessage, Typed, PeerTyped
  <2>2. PendingUpdate \in Seq(ClientMessage)
    BY <2>1, Empty DEF PendingUpdate
  <2>3. PendingUpdate \o <<"DATA">> \in Seq(ClientMessage)
    BY <2>1, <2>2, ConcatProperties
  <2>4. ms \in Seq(ClientMessage)
    BY <1>5, <2>2, <2>3, Empty
  <2>5. c2s \o ms \in Seq(ClientMessage)
    BY <2>1, <2>4, ConcatProperties
  <2> QED
    BY <1>5, <2>1, <2>5 DEF Says
<1>9. PeerTyped'
  BY <1>1, <1>8 DEF Typed, PeerTyped
<1> QED
  BY <1>4, <1>6, <1>7, <1>9 DEF Typed

\* The calls of the user.
LEMMA TypedCalls ==
    ASSUME SessionInv, Typed, Calls
    PROVE  Typed'
<1>0. heap \subseteq Blocks
  BY DEF Typed, CallTyped
<1>1. CASE ConnectRefused
  BY <1>0, <1>1, TypedReturn DEF ConnectRefused, ptlsVars
<1>2. CASE Connect
  BY <1>2, TypedConnect
<1>3. CASE Send \/ SendFails
  BY <1>3, TypedSend
<1>4. CASE Close
  <2>1. ret \in {-1, 0, 1}
    BY DEF Typed, CallTyped
  <2> QED
    BY <1>0, <1>4, <2>1, Empty, TypedClosed DEF Close
<1>5. ASSUME NEW a \in Args, ReceiveCall(a) PROVE Typed'
  <2>1. /\ pc = "idle" /\ pc' = "recv_call" /\ args' = a
        /\ UNCHANGED <<tls, raw, res, plain, sendbuf, rbuf, got, heap, ret, conn, gap, due, net,
                       wire, c2s, srv>>
    BY <1>5 DEF ReceiveCall, ReceiveKeeps, ptlsVars
  <2>2. /\ a \in [want : 0..MaxRecord, have : Nat, exact : BOOLEAN, timed : BOOLEAN]
        /\ a.have <= a.want
    BY SizesAssumption DEF Args
  <2>3. CallTyped'
    BY <2>1, <2>2 DEF Typed, CallTyped
  <2>4. TlsTyped' /\ InputTyped' /\ BytesTyped' /\ PeerTyped'
    BY <2>1 DEF Typed, TlsTyped, InputTyped, BytesTyped, PeerTyped
  <2>5. Drained'
    BY <2>1 DEF Typed, Drained
  <2> QED
    BY <2>3, <2>4, <2>5 DEF Typed
<1> QED
  BY <1>1, <1>2, <1>3, <1>4, <1>5 DEF Calls

\* tls_recv until it has to read: what is in the buffer, or its own buffers.
LEMMA TypedBuffered ==
    ASSUME SessionInv, Typed, ReceiveBuffered \/ ReceiveAllocates
    PROVE  Typed'
<1>0. TlsTyped /\ InputTyped /\ BytesTyped /\ CallTyped /\ PeerTyped /\ Drained
  BY DEF Typed
<1>1. tls.st = "POST_HANDSHAKE" /\ pc = "recv_call" /\ heap \subseteq Blocks
  BY <1>0 DEF ReceiveBuffered, ReceiveAllocates, SessionInv, Stages, CallTyped
<1>2. CASE ReceiveBuffered
  <2>1. /\ got' = got \o SubSeq(rbuf, 1, Taken(rbuf))
        /\ rbuf' = SubSeq(rbuf, Taken(rbuf) + 1, Len(rbuf)) /\ Delivered(Taken(rbuf))
        /\ UNCHANGED <<tls, raw, res, plain, sendbuf, heap, conn, gap, due, net, wire, c2s, srv>>
    BY <1>2 DEF ReceiveBuffered, ReceiveKeeps, ptlsVars
  <2>2. rbuf \in Seq(StreamBytes) /\ got \in Seq(StreamBytes) /\ Len(rbuf) <= PlainCapacity
    BY <1>0 DEF BytesTyped
  <2>3. /\ Taken(rbuf) \in 0..Len(rbuf) /\ args.have + Taken(rbuf) <= args.want
        /\ SubSeq(rbuf, 1, Taken(rbuf)) \in Seq(StreamBytes)
        /\ rbuf' \in Seq(StreamBytes) /\ Len(rbuf') = Len(rbuf) - Taken(rbuf)
    BY <1>0, <2>1, <2>2, TakenIs
  <2>4. CallTyped' /\ pc' \in {"idle", "recv_call"}
    <3>1. Taken(rbuf) \in Nat /\ heap' \subseteq Blocks
      BY <1>1, <2>1, <2>3
    <3> QED
      BY <1>0, <2>1, <2>3, <3>1, DeliveredTyped
  <2>5. BytesTyped'
    <3>1. got' \in Seq(StreamBytes)
      BY <2>1, <2>2, <2>3, ConcatProperties
    <3>2. Len(rbuf') <= PlainCapacity
      BY <2>2, <2>3, SizesAssumption
    <3> QED
      BY <1>0, <2>1, <2>3, <3>1, <3>2 DEF BytesTyped
  <2>6. TlsTyped' /\ InputTyped' /\ PeerTyped'
    BY <1>0, <2>1 DEF TlsTyped, InputTyped, PeerTyped
  <2>7. Drained'
    BY <1>0, <1>1, <2>1, <2>4 DEF Drained
  <2> QED
    BY <2>4, <2>5, <2>6, <2>7 DEF Typed
<1>3. CASE ReceiveAllocates
  <2>1. /\ rbuf = <<>>
        /\ UNCHANGED <<tls, raw, res, plain, sendbuf, rbuf, got, conn, gap, due, net, wire, c2s, srv>>
    BY <1>3 DEF ReceiveAllocates, ReceiveKeeps, ptlsVars
  <2>2. heap' \subseteq Blocks
    BY <1>1, <1>3 DEF ReceiveAllocates, RecvBuffers, Blocks
  <2>3. CASE Return(-1)
    BY <1>1, <2>1, <2>2, <2>3, TypedReturn
  <2>4. CASE pc' = "recv" /\ UNCHANGED <<args, ret>>
    <3>1. CallTyped'
      BY <1>0, <2>1, <2>2, <2>4 DEF CallTyped
    <3>2. TlsTyped' /\ InputTyped' /\ BytesTyped' /\ PeerTyped'
      BY <1>0, <2>1 DEF TlsTyped, InputTyped, BytesTyped, PeerTyped
    <3>3. Drained'
      BY <1>0, <1>1, <2>1, <2>4 DEF Drained
    <3> QED
      BY <3>1, <3>2, <3>3 DEF Typed
  <2> QED
    BY <1>3, <2>3, <2>4 DEF ReceiveAllocates
<1> QED
  BY <1>2, <1>3

\* A TCP read cuts the stream of units and notes whether a record was begun.
LEMMA TypedRead ==
    ASSUME TlsTyped, wire \in Seq(Unit), NEW n \in 1..RawCapacity, ReadSome(n)
    PROVE  /\ TlsTyped' /\ raw' \in Seq(Unit) /\ wire' \in Seq(Unit)
           /\ tls'.st = tls.st /\ tls'.mess = tls.mess /\ tls'.part = tls.part
           /\ tls'.dec = tls.dec /\ tls'.rec = tls.rec
<1>1. /\ n \in 0..Len(wire) /\ raw' = SubSeq(wire, 1, n)
      /\ wire' = SubSeq(wire, n + 1, Len(wire))
      /\ tls' = [tls EXCEPT !.slow = tls.rec # <<>>]
  BY SizesAssumption DEF ReadSome
<1>2. raw' \in Seq(Unit) /\ wire' \in Seq(Unit)
  BY <1>1, SubSeqType
<1>3. tls \in TlsState /\ (tls.rec # <<>>) \in BOOLEAN
  BY DEF TlsTyped
<1>4. /\ tls' \in TlsState /\ tls'.st = tls.st /\ tls'.mess = tls.mess /\ tls'.part = tls.part
      /\ tls'.dec = tls.dec /\ tls'.rec = tls.rec /\ tls'.slow = (tls.rec # <<>>)
  BY <1>1, <1>3 DEF TlsState
<1>5. ASSUME tls.rec = <<>> PROVE Len(tls.rec) # 2
  BY <1>5
<1>6. TlsTyped'
  BY <1>4, <1>5 DEF TlsTyped
<1> QED
  BY <1>2, <1>4, <1>6

\* One iteration of a picotls loop.
LEMMA TypedInput ==
    ASSUME TlsTyped, InputTyped, handle_input, plain = <<>>
    PROVE  /\ TlsTyped' /\ InputTyped'
           /\ plain' \in Seq(StreamBytes) /\ Len(plain') <= MaxRecord
           /\ plain' # <<>> => tls.st = "POST_HANDSHAKE" /\ res' = "OK" /\ tls'.mess = <<>>
<1>1. CASE tls.mess # <<>>
  BY <1>1, MessageTyped, Empty, SizesAssumption DEF handle_input
<1>2. CASE tls.mess = <<>>
  <2>1. /\ TlsTyped' /\ InputTyped'
        /\ plain' = <<>> \/ ( /\ plain' \in Seq(StreamBytes) /\ Len(plain') <= MaxRecord
                              /\ tls.st = "POST_HANDSHAKE" /\ res' = "OK" /\ tls'.mess = <<>>)
    BY <1>2, UnitTyped DEF handle_input
  <2>2. CASE plain' = <<>>
    <3>1. plain' \in Seq(StreamBytes) /\ Len(plain') <= MaxRecord
      BY <2>2, SizesAssumption
    <3> QED
      BY <2>1, <2>2, <3>1
  <2>3. CASE plain' # <<>>
    BY <2>1, <2>3
  <2> QED
    BY <2>2, <2>3
<1> QED
  BY <1>1, <1>2

\* The messages the handshake sends.
LEMMA FlightType ==
    ASSUME InputTyped
    PROVE  Flight \in Seq(ClientMessage)
<1>1. <<"ALERT">> \in Seq(ClientMessage)
  BY OneType DEF ClientMessage
<1> QED
  BY <1>1, Empty DEF Flight, InputTyped, Results

\* tls_connect from its first read to its end.
LEMMA TypedHandshake ==
    ASSUME SessionInv, Typed,
           \/ \E n \in 1..RawCapacity : HandshakeRead(n)
           \/ HandshakeInput \/ HandshakeContinues \/ HandshakeCompletes
           \/ HandshakeFails \/ HandshakeAborts
    PROVE  Typed'
<1>0. TlsTyped /\ InputTyped /\ BytesTyped /\ CallTyped /\ PeerTyped /\ Drained
  BY DEF Typed
<1>1. ASSUME NEW n \in 1..RawCapacity, HandshakeRead(n) PROVE Typed'
  <2>1. /\ pc = "hs_recv" /\ ReadSome(n) /\ pc' = "hs_input" /\ res' = "IN_PROGRESS"
        /\ heap' = heap \cup {"hs_buf"}
        /\ UNCHANGED <<plain, sendbuf, args, ret, rbuf, got, conn, gap, due, net, c2s, srv>>
    BY <1>1 DEF HandshakeRead
  <2>2. /\ TlsTyped' /\ raw' \in Seq(Unit) /\ wire' \in Seq(Unit)
        /\ tls'.st = tls.st /\ tls'.mess = tls.mess
    BY <1>0, <2>1, TypedRead DEF PeerTyped
  <2>3. InputTyped' /\ BytesTyped' /\ CallTyped' /\ PeerTyped'
    BY <1>0, <2>1, <2>2 DEF InputTyped, BytesTyped, CallTyped, PeerTyped, Results, Blocks
  <2>4. tls.st # "POST_HANDSHAKE"
    BY <2>1 DEF SessionInv, Stages, HandshakeStates
  <2>5. Drained'
    BY <1>0, <2>1, <2>2, <2>4 DEF Drained
  <2> QED
    BY <2>2, <2>3, <2>5 DEF Typed
<1>2. CASE HandshakeInput
  <2>1. /\ pc = "hs_input" /\ handle_input
        /\ UNCHANGED <<pc, args, ret, rbuf, heap, got, conn, gap, due, net, wire, c2s, srv>>
    BY <1>2 DEF HandshakeInput, clientVars
  <2>2. plain = <<>> /\ got = <<>> /\ rbuf = <<>>
    BY <1>0, <2>1 DEF Drained
  <2>3. tls.st # "POST_HANDSHAKE"
    <3>1. ~Complete
      BY <1>2 DEF HandshakeInput, HandshakeGoesOn, Complete
    <3> QED
      BY <2>1, <3>1 DEF SessionInv, Stages, Underway, HandshakeStates
  <2>4. TlsTyped' /\ InputTyped' /\ plain' = <<>>
    BY <1>0, <2>1, <2>2, <2>3, TypedInput
  <2>5. BytesTyped' /\ CallTyped' /\ PeerTyped'
    BY <1>0, <2>1, <2>2, <2>4 DEF BytesTyped, CallTyped, PeerTyped
  <2>6. Drained'
    BY <2>1, <2>2, <2>4 DEF Drained
  <2> QED
    BY <2>4, <2>5, <2>6 DEF Typed
<1>3. CASE HandshakeContinues
  <2>1. /\ pc = "hs_input" /\ pc' = "hs_recv" /\ tls.mess = <<>> /\ raw = <<>>
        /\ c2s' = c2s \o Flight /\ sendbuf' = <<>> /\ heap' = heap \ {"hs_buf"}
        /\ UNCHANGED <<tls, raw, res, plain, args, ret, rbuf, got, conn, gap, due, net, wire, srv>>
    BY <1>3 DEF HandshakeContinues, HandshakeGoesOn
  <2>2. c2s' \in Seq(ClientMessage)
    BY <1>0, <2>1, FlightType, ConcatProperties DEF PeerTyped
  <2>3. TlsTyped' /\ BytesTyped' /\ CallTyped'
    BY <1>0, <2>1 DEF TlsTyped, BytesTyped, CallTyped
  <2>4. InputTyped' /\ PeerTyped' /\ Drained'
    BY <1>0, <2>1, <2>2, Empty DEF InputTyped, PeerTyped, Drained
  <2> QED
    BY <2>3, <2>4 DEF Typed
<1>4. CASE HandshakeCompletes
  <2>1. /\ pc = "hs_input" /\ tls.mess = <<>> /\ raw' = <<>> /\ Return(0)
        /\ c2s' = c2s \o Flight /\ sendbuf' = <<>> /\ heap' = heap \ {"hs_buf", "raw_in"}
        /\ UNCHANGED <<tls, res, plain, rbuf, got, conn, gap, due, net, wire, srv>>
    BY <1>4 DEF HandshakeCompletes, HandshakeGoesOn
  <2>2. c2s' \in Seq(ClientMessage)
    BY <1>0, <2>1, FlightType, ConcatProperties DEF PeerTyped
  <2>3. CallTyped' /\ pc' = "idle"
    <3>1. heap' \subseteq Blocks /\ gap' \in BOOLEAN /\ due' \in BOOLEAN
      BY <1>0, <2>1 DEF CallTyped
    <3> QED
      BY <1>0, <2>1, <3>1, ReturnTyped
  <2>4. TlsTyped' /\ BytesTyped'
    BY <1>0, <2>1 DEF TlsTyped, BytesTyped
  <2>5. InputTyped' /\ PeerTyped' /\ Drained'
    BY <1>0, <2>1, <2>2, <2>3, Empty DEF InputTyped, PeerTyped, Drained
  <2> QED
    BY <2>3, <2>4, <2>5 DEF Typed
<1>5. CASE HandshakeFails
  <2>1. ASSUME NEW sent \in SendOutcomes
        PROVE  (IF sent THEN Flight ELSE <<>>) \in Seq(ClientMessage)
    BY <1>0, FlightType, Empty
  <2>2. heap \ {"hs_buf", "raw_in"} \subseteq Blocks
    BY <1>0 DEF CallTyped
  <2>3. /\ \E ms \in Seq(ClientMessage) : tls_close(ms, heap \ {"hs_buf", "raw_in"})
        /\ Return(-1)
    BY <1>5, <2>1, Empty DEF HandshakeFails
  <2> QED
    BY <2>2, <2>3, TypedClosed
<1>6. CASE HandshakeAborts
  <2>1. heap \ {"raw_in"} \subseteq Blocks
    BY <1>0 DEF CallTyped
  <2> QED
    BY <1>6, <2>1, Empty, TypedClosed DEF HandshakeAborts
<1> QED
  BY <1>1, <1>2, <1>3, <1>4, <1>5, <1>6

\* tls_recv and tls_recv_exact once they have to read.
LEMMA TypedReceive ==
    ASSUME SessionInv, Typed,
           \/ \E n \in 1..RawCapacity : ReceiveRead(n)
           \/ ReceiveInput \/ ReceiveDelivers \/ ReceiveReadsOn \/ ReceiveFails
           \/ ReceiveDisconnected \/ ReceiveTimesOut
    PROVE  Typed'
<1>0. TlsTyped /\ InputTyped /\ BytesTyped /\ CallTyped /\ PeerTyped /\ Drained
  BY DEF Typed
<1>1. ASSUME NEW n \in 1..RawCapacity, ReceiveRead(n) PROVE Typed'
  <2>1. /\ pc = "recv" /\ ReadSome(n) /\ pc' = "recv_input" /\ res' = "OK" /\ plain' = <<>>
        /\ UNCHANGED <<sendbuf, args, ret, rbuf, heap, got, conn, gap, due, net, c2s, srv>>
    BY <1>1 DEF ReceiveRead, ReceiveKeeps
  <2>2. /\ TlsTyped' /\ raw' \in Seq(Unit) /\ wire' \in Seq(Unit)
        /\ tls'.st = tls.st /\ tls'.mess = tls.mess
    BY <1>0, <2>1, TypedRead DEF PeerTyped
  <2>3. InputTyped' /\ BytesTyped' /\ CallTyped' /\ PeerTyped'
    BY <1>0, <2>1, <2>2, Empty, SizesAssumption
    DEF InputTyped, BytesTyped, CallTyped, PeerTyped, Results
  <2>4. Drained'
    BY <1>0, <2>1, <2>2 DEF Drained
  <2> QED
    BY <2>2, <2>3, <2>4 DEF Typed
<1>2. CASE ReceiveInput
  <2>1. /\ pc = "recv_input" /\ handle_input /\ ReceiveGoesOn
        /\ UNCHANGED <<pc, args, ret, rbuf, heap, got, conn, gap, net, wire, c2s, srv>>
        /\ due' = (due \/ (tls.mess # <<>> /\ Head(tls.mess) = "KU_REQUEST"))
    BY <1>2 DEF ReceiveInput
  <2>2. plain = <<>> /\ rbuf = <<>>
    BY <1>0, <2>1 DEF Drained, ReceiveGoesOn
  <2>3. /\ TlsTyped' /\ InputTyped' /\ plain' \in Seq(StreamBytes) /\ Len(plain') <= MaxRecord
        /\ plain' # <<>> => res' = "OK" /\ tls'.mess = <<>>
    BY <1>0, <2>1, <2>2, TypedInput
  <2>4. BytesTyped' /\ CallTyped' /\ PeerTyped'
    BY <1>0, <2>1, <2>2, <2>3 DEF BytesTyped, CallTyped, PeerTyped
  <2>5. tls'.st = "POST_HANDSHAKE"
    <3>1. SessionInv'
      BY <1>2, ReceiveSafe
    <3> QED
      BY <2>1, <3>1 DEF SessionInv, Stages
  <2>6. Drained'
    BY <2>1, <2>2, <2>3, <2>5 DEF Drained
  <2> QED
    BY <2>3, <2>4, <2>6 DEF Typed
<1>3. CASE ReceiveDelivers
  <2> DEFINE rest == SubSeq(plain, Taken(plain) + 1, Len(plain))
  <2>1. /\ pc = "recv_input" /\ tls.mess = <<>> /\ got' = got \o SubSeq(plain, 1, Taken(plain))
        /\ rbuf' = IF Len(rbuf) + Len(rest) <= PlainCapacity THEN rbuf \o rest ELSE rbuf
        /\ Delivered(Taken(plain)) /\ raw' = <<>> /\ plain' = <<>> /\ heap' = heap \ RecvBuffers
        /\ UNCHANGED <<tls, res, sendbuf, conn, gap, due, net, wire, c2s, srv>>
    BY <1>3 DEF ReceiveDelivers, ReceiveKeeps, ReceiveGoesOn, Cleanup
  <2>2. /\ plain \in Seq(StreamBytes) /\ got \in Seq(StreamBytes)
        /\ Len(plain) <= PlainCapacity
    BY <1>0, FitsAssumption, SizesAssumption DEF BytesTyped
  <2>3. /\ Taken(plain) \in 0..Len(plain) /\ args.have + Taken(plain) <= args.want
        /\ SubSeq(plain, 1, Taken(plain)) \in Seq(StreamBytes)
        /\ rest \in Seq(StreamBytes) /\ Len(rest) = Len(plain) - Taken(plain)
    BY <1>0, <2>2, TakenIs
  <2> HIDE DEF rest
  <2>4. rbuf = <<>>
    BY <1>0, <2>1 DEF Drained
  <2>5. rbuf' = rest /\ Len(rest) <= PlainCapacity
    <3>1. Len(rest) <= PlainCapacity /\ Len(rbuf) + Len(rest) = Len(rest)
      BY <2>2, <2>3, <2>4, SizesAssumption
    <3>2. rbuf' = <<>> \o rest
      BY <2>1, <2>4, <3>1
    <3> QED
      BY <2>3, <3>1, <3>2, ConcatEmptySeq
  <2>6. CallTyped' /\ pc' \in {"idle", "recv_call"}
    <3>1. Taken(plain) \in Nat /\ heap' \subseteq Blocks
      BY <1>0, <2>1, <2>2, <2>3 DEF CallTyped
    <3> QED
      BY <1>0, <2>1, <2>3, <3>1, DeliveredTyped
  <2>7. got' \in Seq(StreamBytes)
    BY <2>1, <2>2, <2>3, ConcatProperties
  <2>8. BytesTyped' /\ InputTyped'
    <3>1. plain' \in Seq(StreamBytes) /\ Len(plain') <= MaxRecord /\ raw' \in Seq(Unit)
      BY <2>1, SizesAssumption
    <3>2. rbuf' \in Seq(StreamBytes) /\ Len(rbuf') <= PlainCapacity
      BY <2>3, <2>5
    <3>3. res' = res /\ sendbuf' = sendbuf
      BY <2>1
    <3> QED
      BY <1>0, <2>7, <3>1, <3>2, <3>3 DEF BytesTyped, InputTyped
  <2>9. TlsTyped' /\ PeerTyped'
    BY <1>0, <2>1 DEF TlsTyped, PeerTyped
  <2>10. tls.st = "POST_HANDSHAKE"
    BY <2>1 DEF SessionInv, Stages
  <2>11. Drained'
    BY <2>1, <2>6, <2>10 DEF Drained
  <2> QED
    BY <2>6, <2>8, <2>9, <2>11 DEF Typed
<1>4. CASE ReceiveReadsOn
  <2>1. /\ pc = "recv_input" /\ tls.mess = <<>> /\ plain = <<>> /\ pc' = "recv" /\ raw' = <<>>
        /\ UNCHANGED <<tls, res, plain, sendbuf, args, ret, rbuf, heap, got, wire, conn, gap,
                       due, net, c2s, srv>>
    BY <1>4 DEF ReceiveReadsOn, ReceiveGoesOn, ReceiveKeeps
  <2>2. TlsTyped' /\ BytesTyped' /\ CallTyped' /\ PeerTyped'
    BY <1>0, <2>1 DEF TlsTyped, BytesTyped, CallTyped, PeerTyped
  <2>3. InputTyped' /\ Drained'
    BY <1>0, <2>1, Empty DEF InputTyped, Drained
  <2> QED
    BY <2>2, <2>3 DEF Typed
<1>5. CASE ReceiveFails
  <2>1. /\ pc = "recv_input" /\ tls.mess = <<>> /\ res \in {"SELF_ALERT", "PEER_ALERT"}
        /\ Return(-1) /\ raw' = <<>> /\ heap' = heap \ RecvBuffers
        /\ UNCHANGED <<tls, res, plain, sendbuf, rbuf, got, wire, conn, gap, due, net, c2s, srv>>
    BY <1>5 DEF ReceiveFails, ReceiveGoesOn, ReceiveKeeps, Cleanup
  <2>2. plain = <<>>
    BY <1>0, <2>1 DEF Drained
  <2>3. CallTyped' /\ pc' = "idle"
    <3>1. heap' \subseteq Blocks /\ gap' \in BOOLEAN /\ due' \in BOOLEAN
      BY <1>0, <2>1 DEF CallTyped
    <3> QED
      BY <1>0, <2>1, <3>1, ReturnTyped
  <2>4. TlsTyped' /\ BytesTyped' /\ PeerTyped'
    BY <1>0, <2>1 DEF TlsTyped, BytesTyped, PeerTyped
  <2>5. tls.st = "POST_HANDSHAKE"
    BY <2>1 DEF SessionInv, Stages
  <2>6. InputTyped' /\ Drained'
    BY <1>0, <2>1, <2>2, <2>3, <2>5, Empty DEF InputTyped, Drained
  <2> QED
    BY <2>3, <2>4, <2>6 DEF Typed
<1>6. CASE ReceiveDisconnected \/ ReceiveTimesOut
  <2>1. /\ pc = "recv" /\ (Return(-1) \/ Return(1)) /\ heap' \subseteq Blocks
        /\ UNCHANGED <<tls, raw, res, plain, sendbuf, rbuf, got, conn, gap, due, net, wire, c2s,
                       srv>>
    BY <1>0, <1>6
    DEF ReceiveDisconnected, ReceiveTimesOut, ReceiveKeeps, Cleanup, CallTyped, ptlsVars
  <2> QED
    BY <2>1, TypedReturn
<1> QED
  BY <1>1, <1>2, <1>3, <1>4, <1>5, <1>6

\* So the types hold in every state of the session.
LEMMA StepTyped == SessionInv /\ Typed /\ [Next]_vars => Typed'
<1> SUFFICES ASSUME SessionInv, Typed, [Next]_vars PROVE Typed'
  OBVIOUS
<1>1. CASE UNCHANGED vars
  BY <1>1 DEF vars, ptlsVars, clientVars, Typed, TlsTyped, InputTyped, BytesTyped, CallTyped,
              PeerTyped, Drained
<1> QED
  BY <1>1, TypedEnvironment, TypedCalls, TypedConnect, TypedStart, TypedHandshake,
     TypedBuffered, TypedReceive DEF Next, Running

LEMMA TypedInvariant == Spec => [](SessionInv /\ Typed)
<1>1. Init => Typed
  BY TypedInit
<1>2. Typed /\ SessionInv /\ [Next]_vars => Typed'
  BY StepTyped
<1> QED
  BY <1>1, <1>2, SessionInvariant, PTL DEF Spec

\* The types of the session hold throughout.  Among them: g_rbuf never holds
\* more than its array (TLS_PLAIN_BUF_SIZE), a record is in hand as two units
\* only if it was begun in an earlier read, and a call never has more bytes
\* than its caller wants.
THEOREM TypeCorrect == Spec => []TypeOK
<1>1. SessionInv /\ Typed => TypeOK
  BY TypedImplies
<1> QED
  BY <1>1, TypedInvariant, PTL

-----------------------------------------------------------------------------
(* What the client says.                                                   *)

\* tls_connect has returned 0 and tls_close was not called.
OpenNow == tls.st = "POST_HANDSHAKE" /\ pc # "hs_input"

\* tls_connect has not said anything yet.
Starting == pc \in {"connect_new", "connect_name", "connect_buf", "hs_start"}

\* Nothing that ends a conversation is among the messages q.
Unended(q) == \A i \in DOMAIN q : q[i] \notin {"CLOSE_NOTIFY", "ALERT"}
Finished(q) == \E i \in DOMAIN q : q[i] = "FINISHED"
Hellos(q) == \A i \in DOMAIN q : q[i] = "CLIENT_HELLO"

\* ClientMessagesInOrder of q, with a Finished also before its last message.
Orderly(q) ==
    /\ \A i, j \in DOMAIN q : i < j =>
          q[i] # "CLOSE_NOTIFY" /\ (q[i] = "ALERT" => q[j] = "CLOSE_NOTIFY")
    /\ \A i \in DOMAIN q : q[i] \in {"DATA", "KEY_UPDATE"} =>
          \E k \in 1..i - 1 : q[k] = "FINISHED"

\* What is said and what is about to be said at each stage.
Conversation ==
    /\ Orderly(c2s)
    /\ tls.st # "NULL" => Unended(c2s)
    /\ tls.st # "NULL" /\ ~OpenNow => Hellos(c2s)
    /\ OpenNow => Finished(c2s) /\ sendbuf = <<>>
    /\ tls.st \in HandshakeStates => Hellos(sendbuf)
    /\ \A i \in DOMAIN sendbuf : sendbuf[i] \in {"CLIENT_HELLO", "CERTIFICATE", "FINISHED"}
    /\ pc = "hs_input" /\ tls.st = "POST_HANDSHAKE" => Finished(sendbuf)
    /\ ~OpenNow => tls.wantKU = FALSE
    /\ Starting => c2s = <<>>
    /\ Starting /\ tls.st # "NULL" => sendbuf = <<>>

\* The server talks to a client that is there, and sends application data to
\* one that has finished its handshake.
Served ==
    /\ srv.phase # "none" => tls.st # "NULL" \/ pc = "connect_new"
    /\ srv.phase = "up" => OpenNow
    /\ srv.phase # "up" => srv.bytes = 0

\* Messages added to a conversation that has not ended.
LEMMA SaysMore ==
    ASSUME NEW q \in Seq(ClientMessage), NEW ms \in Seq(ClientMessage),
           Orderly(q), Unended(q),
           \A i, j \in DOMAIN ms : i < j =>
              ms[i] # "CLOSE_NOTIFY" /\ (ms[i] = "ALERT" => ms[j] = "CLOSE_NOTIFY"),
           \A i \in DOMAIN ms : ms[i] \in {"DATA", "KEY_UPDATE"} => Finished(q)
    PROVE  Orderly(q \o ms)
<1> DEFINE t == q \o ms
<1>1. /\ t \in Seq(ClientMessage) /\ Len(t) = Len(q) + Len(ms)
      /\ \A i \in 1..Len(q) + Len(ms) : t[i] = IF i <= Len(q) THEN q[i] ELSE ms[i - Len(q)]
  BY ConcatProperties
<1>2. /\ DOMAIN t = 1..Len(q) + Len(ms) /\ DOMAIN q = 1..Len(q) /\ DOMAIN ms = 1..Len(ms)
      /\ Len(q) \in Nat /\ Len(ms) \in Nat
  BY <1>1, LenProperties
<1> HIDE DEF t
<1>3. ASSUME NEW i \in DOMAIN t, NEW j \in DOMAIN t, i < j
      PROVE  t[i] # "CLOSE_NOTIFY" /\ (t[i] = "ALERT" => t[j] = "CLOSE_NOTIFY")
  <2>1. CASE i <= Len(q)
    <3>1. t[i] = q[i] /\ i \in DOMAIN q
      BY <1>1, <1>2, <2>1
    <3> QED
      BY <3>1 DEF Unended
  <2>2. CASE i > Len(q)
    <3>1. /\ t[i] = ms[i - Len(q)] /\ t[j] = ms[j - Len(q)]
          /\ i - Len(q) \in DOMAIN ms /\ j - Len(q) \in DOMAIN ms /\ i - Len(q) < j - Len(q)
      BY <1>1, <1>2, <1>3, <2>2
    <3> QED
      BY <3>1
  <2> QED
    BY <1>2, <2>1, <2>2
<1>4. ASSUME NEW i \in DOMAIN t, t[i] \in {"DATA", "KEY_UPDATE"}
      PROVE  \E k \in 1..i - 1 : t[k] = "FINISHED"
  <2>1. CASE i <= Len(q)
    <3>1. t[i] = q[i] /\ i \in DOMAIN q
      BY <1>1, <1>2, <2>1
    <3>2. PICK k \in 1..i - 1 : q[k] = "FINISHED"
      BY <1>4, <3>1 DEF Orderly
    <3>3. t[k] = q[k]
      BY <1>1, <1>2, <2>1
    <3> QED
      BY <3>2, <3>3
  <2>2. CASE i > Len(q)
    <3>1. t[i] = ms[i - Len(q)] /\ i - Len(q) \in DOMAIN ms
      BY <1>1, <1>2, <2>2
    <3>2. PICK k \in DOMAIN q : q[k] = "FINISHED"
      BY <1>4, <3>1 DEF Finished
    <3>3. t[k] = q[k] /\ k \in 1..i - 1
      BY <1>1, <1>2, <2>2
    <3> QED
      BY <3>2, <3>3
  <2> QED
    BY <1>2, <2>1, <2>2
<1>5. Orderly(t)
  BY <1>3, <1>4 DEF Orderly
<1> QED
  BY <1>5 DEF t

\* Concatenation of what has a property element by element.
LEMMA BothParts ==
    ASSUME NEW q \in Seq(ClientMessage), NEW ms \in Seq(ClientMessage)
    PROVE  /\ Unended(q) /\ Unended(ms) => Unended(q \o ms)
           /\ Hellos(q) /\ Hellos(ms) => Hellos(q \o ms)
           /\ Finished(q) => Finished(q \o ms)
           /\ Finished(ms) => Finished(q \o ms)
<1> DEFINE t == q \o ms
<1>1. /\ t \in Seq(ClientMessage) /\ Len(t) = Len(q) + Len(ms)
      /\ \A i \in 1..Len(q) + Len(ms) : t[i] = IF i <= Len(q) THEN q[i] ELSE ms[i - Len(q)]
  BY ConcatProperties
<1>2. /\ DOMAIN t = 1..Len(q) + Len(ms) /\ DOMAIN q = 1..Len(q) /\ DOMAIN ms = 1..Len(ms)
      /\ Len(q) \in Nat /\ Len(ms) \in Nat
  BY <1>1, LenProperties
<1> HIDE DEF t
<1>3. ASSUME NEW i \in DOMAIN t
      PROVE  (i \in DOMAIN q /\ t[i] = q[i]) \/ (i - Len(q) \in DOMAIN ms /\ t[i] = ms[i - Len(q)])
  BY <1>1, <1>2
<1>4. ASSUME NEW i \in DOMAIN q PROVE i \in DOMAIN t /\ t[i] = q[i]
  BY <1>1, <1>2
<1>5. ASSUME NEW i \in DOMAIN ms PROVE i + Len(q) \in DOMAIN t /\ t[i + Len(q)] = ms[i]
  BY <1>1, <1>2
<1>6. /\ Unended(q) /\ Unended(ms) => Unended(t)
      /\ Hellos(q) /\ Hellos(ms) => Hellos(t)
  BY <1>3 DEF Unended, Hellos
<1>7. Finished(q) => Finished(t)
  BY <1>4 DEF Finished
<1>8. Finished(ms) => Finished(t)
  BY <1>5 DEF Finished
<1> QED
  BY <1>6, <1>7, <1>8 DEF t

\* Sequences of one message, or of none.
LEMMA OneMessage ==
    /\ DOMAIN <<>> = {} /\ Orderly(<<>>) /\ Unended(<<>>) /\ Hellos(<<>>)
    /\ \A m \in ClientMessage : <<m>> \in Seq(ClientMessage) /\ DOMAIN <<m>> = {1} /\ <<m>>[1] = m
<1>1. DOMAIN <<>> = {}
  OBVIOUS
<1>2. ASSUME NEW m \in ClientMessage
      PROVE <<m>> \in Seq(ClientMessage) /\ DOMAIN <<m>> = {1} /\ <<m>>[1] = m
  OBVIOUS
<1> QED
  BY <1>1, <1>2 DEF Orderly, Unended, Hellos

\* tls_close, after an alert or after nothing.
LEMMA ConversationClosed ==
    ASSUME Typed, Conversation, tls.st # "NULL", pc' = "idle", NEW ms \in {<<>>, <<"ALERT">>},
           NEW held, tls_close(ms, held)
    PROVE  Conversation' /\ Served'
<1>1. /\ c2s \in Seq(ClientMessage) /\ ms \in Seq(ClientMessage)
      /\ <<"CLOSE_NOTIFY">> \in Seq(ClientMessage) /\ <<>> \in Seq(ClientMessage)
  BY OneMessage, Empty DEF Typed, PeerTyped, ClientMessage
<1>2. PICK sent \in SendOutcomes :
          c2s' = c2s \o ms \o (IF tls_is_connected /\ sent /\ ~gap
                               THEN <<"CLOSE_NOTIFY">> ELSE <<>>)
  BY DEF tls_close
<1>3. PICK cn \in {<<>>, <<"CLOSE_NOTIFY">>} : c2s' = c2s \o ms \o cn
  BY <1>2
<1>4. c2s' = c2s \o (ms \o cn)
  BY <1>1, <1>3, ConcatAssociative
<1>5. DOMAIN <<>> = {} /\ DOMAIN <<"ALERT">> = {1} /\ DOMAIN <<"CLOSE_NOTIFY">> = {1}
      /\ <<"ALERT">>[1] = "ALERT" /\ <<"CLOSE_NOTIFY">>[1] = "CLOSE_NOTIFY"
  BY OneMessage DEF ClientMessage
<1>6. /\ ms \o cn \in Seq(ClientMessage)
      /\ \A i, j \in DOMAIN (ms \o cn) : i < j =>
             (ms \o cn)[i] # "CLOSE_NOTIFY" /\ ((ms \o cn)[i] = "ALERT" => (ms \o cn)[j] = "CLOSE_NOTIFY")
      /\ \A i \in DOMAIN (ms \o cn) : (ms \o cn)[i] \notin {"DATA", "KEY_UPDATE"}
  <2>1. CASE ms = <<>>
    <3>1. ms \o cn = cn
      BY <1>1, <2>1, ConcatEmptySeq
    <3> QED
      BY <1>1, <1>5, <3>1
  <2>2. CASE cn = <<>>
    <3>1. ms \o cn = ms
      BY <1>1, <2>2, ConcatEmptySeq
    <3> QED
      BY <1>1, <1>5, <3>1
  <2>3. CASE ms = <<"ALERT">> /\ cn = <<"CLOSE_NOTIFY">>
    <3>1. Len(ms) = 1 /\ Len(cn) = 1 /\ ms[1] = "ALERT" /\ cn[1] = "CLOSE_NOTIFY"
      BY <1>5, <2>3
    <3>2. cn \in Seq(ClientMessage)
      BY <1>1, <2>3
    <3>3. /\ ms \o cn \in Seq(ClientMessage) /\ Len(ms \o cn) = Len(ms) + Len(cn)
          /\ \A i \in 1..Len(ms) + Len(cn) :
                 (ms \o cn)[i] = IF i <= Len(ms) THEN ms[i] ELSE cn[i - Len(ms)]
      BY <1>1, <3>2, ConcatProperties
    <3>4. /\ ms \o cn \in Seq(ClientMessage) /\ Len(ms \o cn) = 2
          /\ (ms \o cn)[1] = ms[1] /\ (ms \o cn)[2] = cn[1]
      BY <3>1, <3>3
    <3>5. DOMAIN (ms \o cn) = 1..2
      BY <3>4, LenProperties
    <3> QED
      BY <3>1, <3>4, <3>5
  <2> QED
    BY <2>1, <2>2, <2>3
<1>7. Orderly(c2s')
  BY <1>1, <1>4, <1>6, SaysMore DEF Conversation
<1>8. tls' = NoTls /\ sendbuf' = <<>> /\ srv' = NoServer
  BY DEF tls_close, FreshTls, Hangup
<1>9. tls'.st = "NULL" /\ tls'.wantKU = FALSE /\ srv'.phase = "none" /\ srv'.bytes = 0
  BY <1>8, NewTls, NewServer DEF NoTls, NewClient
<1> QED
  BY <1>7, <1>8, <1>9, OneMessage DEF Conversation, OpenNow, Starting, Served, HandshakeStates

\* Before its end the handshake asks for no key update and has only
\* ClientHellos to send; at its end it has the client's Finished.
LEMMA HandshakeSays ==
    ASSUME TlsTyped, InputTyped, tls.st \in HandshakeStates, Hellos(sendbuf), HandleMessage
    PROVE  /\ tls'.wantKU = tls.wantKU /\ tls'.st # "NULL"
           /\ \A i \in DOMAIN sendbuf' : sendbuf'[i] \in {"CLIENT_HELLO", "CERTIFICATE", "FINISHED"}
           /\ tls'.st \in HandshakeStates => Hellos(sendbuf')
           /\ tls'.st = "POST_HANDSHAKE" => Finished(sendbuf')
<1> DEFINE m == Head(tls.mess)
<1>0. tls \in TlsState /\ sendbuf \in Seq(ClientMessage) /\ tls.st # "POST_HANDSHAKE"
  BY DEF TlsTyped, InputTyped, HandshakeStates
<1>1. CASE client_handle_hello(m) /\ sendbuf' = Append(sendbuf, "CLIENT_HELLO")
  <2>1. tls'.st \in HandshakeStates /\ tls'.wantKU = tls.wantKU
    BY <1>0, <1>1 DEF client_handle_hello, Accept, TlsState, HandshakeStates
  <2>2. Hellos(sendbuf')
    BY <1>0, <1>1, AppendProperties DEF Hellos, ClientMessage
  <2> QED
    BY <2>1, <2>2 DEF Hellos, HandshakeStates
<1>2. CASE client_handle_finished(m)
  <2> DEFINE cert == IF tls.cr THEN <<"CERTIFICATE">> ELSE <<>>
  <2>1. tls'.st = "POST_HANDSHAKE" /\ tls'.wantKU = tls.wantKU
        /\ sendbuf' = sendbuf \o cert \o <<"FINISHED">>
    BY <1>0, <1>2 DEF client_handle_finished, TlsState
  <2>2. /\ cert \in Seq(ClientMessage) /\ \A i \in DOMAIN cert : cert[i] = "CERTIFICATE"
        /\ <<"FINISHED">> \in Seq(ClientMessage)
        /\ \A i \in DOMAIN <<"FINISHED">> : <<"FINISHED">>[i] = "FINISHED"
        /\ 1 \in DOMAIN <<"FINISHED">>
    BY Empty, OneMessage DEF ClientMessage
  <2> HIDE DEF cert
  <2>3. /\ sendbuf \o cert \in Seq(ClientMessage)
        /\ \A i \in DOMAIN (sendbuf \o cert) : (sendbuf \o cert)[i] \in {"CLIENT_HELLO", "CERTIFICATE"}
    BY <1>0, <2>2, ConcatProperties, LenProperties DEF Hellos
  <2>4. \A i \in DOMAIN sendbuf' : sendbuf'[i] \in {"CLIENT_HELLO", "CERTIFICATE", "FINISHED"}
    BY <2>1, <2>2, <2>3, ConcatProperties, LenProperties
  <2>5. Finished(sendbuf')
    BY <2>1, <2>2, <2>3, BothParts DEF Finished
  <2> QED
    BY <2>1, <2>4, <2>5 DEF HandshakeStates
<1>3. CASE sendbuf' = sendbuf /\ ~client_handle_finished(m)
  <2>1. tls'.st \in HandshakeStates /\ tls'.wantKU = tls.wantKU
    BY <1>0, <1>3
    DEF HandleMessage, KeepPart, client_handle_hello, client_handle_encrypted_extensions,
        client_handle_certificate_request, client_handle_certificate,
        client_handle_certificate_verify, client_handle_new_session_ticket, handle_key_update,
        UnexpectedMessage, Accept, TlsState, HandshakeStates
  <2> QED
    BY <1>3, <2>1 DEF Hellos, HandshakeStates
<1> QED
  BY <1>1, <1>2, <1>3
  DEF HandleMessage, KeepPart, client_handle_hello, client_handle_encrypted_extensions,
      client_handle_certificate_request, client_handle_certificate,
      client_handle_certificate_verify, client_handle_new_session_ticket, handle_key_update,
      UnexpectedMessage

\* Reading a record says nothing, and after the handshake no message does.
LEMMA SaysNothing ==
    ASSUME TlsTyped
    PROVE  /\ HandleUnit => sendbuf' = sendbuf /\ tls'.wantKU = tls.wantKU /\ tls'.st = tls.st
           /\ tls.st = "POST_HANDSHAKE" /\ HandleMessage => sendbuf' = sendbuf /\ tls'.st = tls.st
<1>0. tls \in TlsState
  BY DEF TlsTyped
<1>1. ASSUME HandleUnit
      PROVE  sendbuf' = sendbuf /\ tls'.wantKU = tls.wantKU /\ tls'.st = tls.st
  BY <1>0, <1>1
  DEF HandleUnit, ReadHeader, RejectJunk, CollectJunk, FinishJunk, FailRecord, RetryFailedRecord,
      ReadFragment, ChangeCipherSpec, BadRecord, TooEarly, AppData, Alert, StrayRecord,
      HandshakeRecord, RecordDone, TlsState
<1>2. ASSUME tls.st = "POST_HANDSHAKE", HandleMessage
      PROVE  sendbuf' = sendbuf /\ tls'.st = tls.st
  BY <1>0, <1>2
  DEF HandleMessage, KeepPart, client_handle_hello, client_handle_encrypted_extensions,
      client_handle_certificate_request, client_handle_certificate,
      client_handle_certificate_verify, client_handle_finished,
      client_handle_new_session_ticket, handle_key_update, UnexpectedMessage, TlsState
<1> QED
  BY <1>1, <1>2

-----------------------------------------------------------------------------
(* What the client says: the steps of a session.                           *)

LEMMA TalkInit == Init => Conversation /\ Served
  BY NewTls, NewServer, OneMessage
  DEF Init, Conversation, Served, OpenNow, Starting, NoTls, NewClient, HandshakeStates

LEMMA TalkEnvironment ==
    ASSUME Typed, Conversation, Served, Environment
    PROVE  Conversation' /\ Served'
<1>1. ServerKeeps
  BY EnvironmentLeaves
<1>2. UNCHANGED <<tls, sendbuf, pc, c2s>>
  BY <1>1 DEF ServerKeeps, ptlsVars, clientVars
<1>3. Conversation' /\ OpenNow' = OpenNow
  BY <1>2 DEF Conversation, OpenNow, Starting
<1>4. srv \in ServerState
  BY DEF Typed, PeerTyped
<1>5. CASE ServerEstablished
  <2>1. srv.phase = "wait_finished" /\ Count("FINISHED") = 1 /\ srv' = [srv EXCEPT !.phase = "up"]
    BY <1>5 DEF ServerEstablished
  <2>2. OpenNow
    <3>1. SUFFICES ASSUME ~OpenNow PROVE FALSE
      OBVIOUS
    <3>2. Hellos(c2s)
      BY <2>1, <3>1, OneMessage DEF Served, Conversation, Starting
    <3>3. {i \in DOMAIN c2s : c2s[i] = "FINISHED"} = {}
      BY <3>2 DEF Hellos
    <3> QED
      BY <2>1, <3>3, FS_EmptySet DEF Count
  <2>3. srv' \in ServerState /\ srv'.phase = "up"
    BY <1>4, <2>1 DEF ServerState
  <2> QED
    BY <1>2, <1>3, <2>1, <2>2, <2>3 DEF Served
<1>6. CASE ~ServerEstablished
  <2>1. /\ srv'.phase = srv.phase \/ (srv.phase = "wait_hello" /\ srv'.phase = "wait_finished")
        /\ srv'.bytes = srv.bytes \/ srv.phase = "up"
    BY <1>4, <1>6
    DEF Environment, ServerFlight, ServerTicket, ServerCloses, NetFin, NetReset, ServerApp,
        ServerKeyUpdate, ServerState
  <2> QED
    BY <1>2, <1>3, <2>1 DEF Served
<1> QED
  BY <1>5, <1>6

\* tls_connect up to the ClientHello: there is nothing to hear of the client, or
\* the close_notify of a session that is given up.
LEMMA TalkConnect ==
    ASSUME SessionInv, Typed, Conversation, Served,
           Connect \/ ConnectNew \/ ConnectName \/ ConnectBuffer \/ HandshakeStarts
    PROVE  Conversation' /\ Served'
<1>1. CASE Connect
  <2>1. /\ tls' = tls /\ sendbuf' = sendbuf /\ c2s' = <<>> /\ pc = "idle" /\ pc' = "connect_new"
        /\ srv' = [NoServer EXCEPT !.phase = "wait_hello"] /\ ~tls_is_connected
    BY <1>1 DEF Connect, ptlsVars
  <2>2. tls.st = "NULL"
    BY <2>1 DEF tls_is_connected, SessionInv, Together, Connecting
  <2>3. Conversation'
    BY <2>1, <2>2, OneMessage DEF Conversation, OpenNow, Starting, HandshakeStates
  <2>4. Served'
    BY <2>1, NewServer DEF Served, OpenNow
  <2> QED
    BY <2>3, <2>4
<1>2. CASE ConnectNew
  <2>1. pc = "connect_new" /\ tls.st = "NULL" /\ c2s' = c2s /\ c2s = <<>>
    BY <1>2 DEF ConnectNew, SessionInv, Stages, Conversation, Starting
  <2>2. CASE /\ FreshTls(NewClient, "OK") /\ pc' = "connect_name" /\ srv' = srv
    <3>1. /\ tls'.st = "HANDSHAKE_START" /\ tls'.wantKU = FALSE /\ sendbuf' = <<>>
      BY <2>2, NewTls DEF FreshTls, NewClient
    <3>2. Conversation'
      BY <2>1, <2>2, <3>1, OneMessage DEF Conversation, OpenNow, Starting, HandshakeStates
    <3>3. Served'
      BY <2>1, <2>2, <3>1 DEF Served, OpenNow
    <3> QED
      BY <3>2, <3>3
  <2>3. CASE /\ UNCHANGED <<tls, sendbuf>> /\ pc' = "idle" /\ srv' = NoServer
    <3>1. Conversation'
      BY <2>1, <2>3, OneMessage DEF Conversation, OpenNow, Starting, HandshakeStates
    <3>2. Served'
      BY <2>1, <2>3, NewServer DEF Served, OpenNow
    <3> QED
      BY <3>1, <3>2
  <2> QED
    BY <1>2, <2>2, <2>3 DEF ConnectNew, Hangup, Return, ptlsVars
<1>3. CASE ConnectName
  <2>1. /\ pc = "connect_name" /\ tls.st = "HANDSHAKE_START" /\ c2s' = c2s /\ c2s = <<>>
        /\ sendbuf = <<>> /\ tls.wantKU = FALSE
    BY <1>3 DEF ConnectName, SessionInv, Stages, Conversation, Starting, OpenNow
  <2>2. CASE UNCHANGED <<tls, sendbuf, srv>> /\ pc' = "connect_buf"
    <3>1. Conversation'
      BY <2>1, <2>2, OneMessage DEF Conversation, OpenNow, Starting, HandshakeStates
    <3>2. Served'
      BY <2>1, <2>2 DEF Served, OpenNow
    <3> QED
      BY <3>1, <3>2
  <2>3. CASE FreshTls(NoTls, "OK") /\ srv' = NoServer /\ pc' = "idle"
    <3>1. /\ tls'.st = "NULL" /\ tls'.wantKU = FALSE /\ sendbuf' = <<>>
      BY <2>3, NewTls DEF FreshTls, NoTls, NewClient
    <3>2. Conversation'
      BY <2>1, <2>3, <3>1, OneMessage DEF Conversation, OpenNow, Starting, HandshakeStates
    <3>3. Served'
      BY <2>3, <3>1, NewServer DEF Served, OpenNow
    <3> QED
      BY <3>2, <3>3
  <2> QED
    BY <1>3, <2>2, <2>3 DEF ConnectName, Hangup, Return, ptlsVars
<1>4. CASE ConnectBuffer
  <2>1. pc = "connect_buf" /\ tls.st = "HANDSHAKE_START"
    BY <1>4 DEF ConnectBuffer, SessionInv, Stages
  <2>2. CASE UNCHANGED <<tls, sendbuf, c2s, srv>> /\ pc' = "hs_start"
    <3>1. Conversation'
      BY <2>1, <2>2 DEF Conversation, OpenNow, Starting, HandshakeStates
    <3>2. Served'
      BY <2>1, <2>2 DEF Served, OpenNow
    <3> QED
      BY <3>1, <3>2
  <2>3. CASE tls_close(<<>>, heap) /\ pc' = "idle"
    BY <2>1, <2>3, ConversationClosed
  <2> QED
    BY <1>4, <2>2, <2>3 DEF ConnectBuffer, Return, ptlsVars
<1>5. CASE HandshakeStarts
  <2>1. /\ pc = "hs_start" /\ tls.st = "HANDSHAKE_START" /\ c2s = <<>> /\ sendbuf = <<>>
        /\ tls.wantKU = FALSE /\ tls \in TlsState
    BY <1>5
    DEF HandshakeStarts, SessionInv, Stages, Conversation, Starting, OpenNow, Typed, TlsTyped
  <2>2. CASE /\ c2s' = Append(c2s, "CLIENT_HELLO") /\ pc' = "hs_recv"
             /\ tls' = [tls EXCEPT !.st = "EXPECT_SERVER_HELLO"] /\ UNCHANGED <<sendbuf, srv>>
    <3>1. c2s' = <<"CLIENT_HELLO">>
      BY <2>1, <2>2
    <3>2. DOMAIN <<"CLIENT_HELLO">> = {1} /\ <<"CLIENT_HELLO">>[1] = "CLIENT_HELLO"
      BY OneMessage DEF ClientMessage
    <3>3. Orderly(c2s') /\ Unended(c2s') /\ Hellos(c2s')
      BY <3>1, <3>2 DEF Orderly, Unended, Hellos
    <3>4. tls'.st = "EXPECT_SERVER_HELLO" /\ tls'.wantKU = FALSE
      BY <2>1, <2>2 DEF TlsState
    <3>5. Conversation'
      BY <2>1, <2>2, <3>3, <3>4, OneMessage DEF Conversation, OpenNow, Starting
    <3>6. Served'
      BY <2>1, <2>2, <3>4 DEF Served, OpenNow
    <3> QED
      BY <3>5, <3>6
  <2>3. CASE tls_close(<<>>, heap \ {"raw_in"}) /\ pc' = "idle"
    BY <2>1, <2>3, ConversationClosed
  <2> QED
    BY <1>5, <2>2, <2>3 DEF HandshakeStarts, Return
<1> QED
  BY <1>1, <1>2, <1>3, <1>4, <1>5

LEMMA TalkSend ==
    ASSUME SessionInv, Typed, Conversation, Served, Send \/ SendFails
    PROVE  Conversation' /\ Served'
<1>1. /\ pc = "idle" /\ pc' = "idle" /\ tls.st = "POST_HANDSHAKE"
      /\ tls' = tls \/ tls' = [tls EXCEPT !.wantKU = FALSE]
      /\ UNCHANGED <<sendbuf, srv>>
  BY DEF Send, SendFails, SendKeeps, Return, tls_is_connected, SessionInv, Stages
<1>2. PICK ms \in {<<>>, PendingUpdate, PendingUpdate \o <<"DATA">>} : Says(ms)
  BY DEF Send, SendFails
<1>3. OpenNow /\ c2s \in Seq(ClientMessage) /\ tls \in TlsState
      /\ Orderly(c2s) /\ Unended(c2s) /\ Finished(c2s)
  BY <1>1 DEF OpenNow, Typed, PeerTyped, TlsTyped, Conversation
<1>4. ms \in Seq({"KEY_UPDATE", "DATA"})
  <2>1. /\ <<>> \in Seq({"KEY_UPDATE", "DATA"}) /\ <<"KEY_UPDATE">> \in Seq({"KEY_UPDATE", "DATA"})
        /\ <<"DATA">> \in Seq({"KEY_UPDATE", "DATA"})
    BY OneType
  <2>2. PendingUpdate \in Seq({"KEY_UPDATE", "DATA"})
    BY <2>1 DEF PendingUpdate
  <2>3. PendingUpdate \o <<"DATA">> \in Seq({"KEY_UPDATE", "DATA"})
    BY <2>1, <2>2, ConcatProperties
  <2> QED
    BY <1>2, <2>1, <2>2, <2>3
<1>5. /\ \A i \in DOMAIN ms : ms[i] \in {"KEY_UPDATE", "DATA"}
      /\ ms \in Seq(ClientMessage)
  <2>1. \A i \in DOMAIN ms : ms[i] \in {"KEY_UPDATE", "DATA"}
    BY <1>4, ElementOfSeq, LenProperties
  <2>2. {"KEY_UPDATE", "DATA"} \subseteq ClientMessage
    BY DEF ClientMessage
  <2>3. ms \in Seq(ClientMessage)
    BY <1>4, <2>2, SeqMonotonic
  <2> QED
    BY <2>1, <2>3
<1>6. Orderly(c2s \o ms) /\ Unended(c2s \o ms) /\ Finished(c2s \o ms)
  <2>1. Unended(ms)
    BY <1>5 DEF Unended
  <2>2. \A i, j \in DOMAIN ms : i < j =>
            ms[i] # "CLOSE_NOTIFY" /\ (ms[i] = "ALERT" => ms[j] = "CLOSE_NOTIFY")
    BY <1>5
  <2>3. Orderly(c2s \o ms)
    BY <1>3, <1>5, <2>2, SaysMore
  <2> QED
    BY <1>3, <1>5, <2>1, <2>3, BothParts
<1>7. Orderly(c2s') /\ Unended(c2s') /\ Finished(c2s')
  BY <1>2, <1>3, <1>6 DEF Says
<1>8. tls'.st = "POST_HANDSHAKE" /\ OpenNow'
  BY <1>1, <1>3 DEF TlsState, OpenNow
<1>9. Conversation'
  BY <1>1, <1>3, <1>7, <1>8 DEF Conversation, HandshakeStates, Starting
<1>10. Served'
  BY <1>1, <1>8 DEF Served
<1> QED
  BY <1>9, <1>10

LEMMA TalkCalls ==
    ASSUME SessionInv, Typed, Conversation, Served, Calls
    PROVE  Conversation' /\ Served'
<1>1. CASE ConnectRefused
  BY <1>1 DEF ConnectRefused, Return, ptlsVars, Conversation, Served, OpenNow, Starting
<1>2. CASE Connect
  BY <1>2, TalkConnect
<1>3. CASE Send \/ SendFails
  BY <1>3, TalkSend
<1>4. CASE Close
  BY <1>4, ConversationClosed DEF Close, Return, tls_is_connected
<1>5. ASSUME NEW a \in Args, ReceiveCall(a)
      PROVE  Conversation' /\ Served'
  <2>1. /\ pc = "idle" /\ pc' = "recv_call" /\ UNCHANGED <<tls, sendbuf, c2s, srv>>
    BY <1>5 DEF ReceiveCall, ReceiveKeeps, ptlsVars
  <2> QED
    BY <2>1 DEF Conversation, Served, OpenNow, Starting
<1> QED
  BY <1>1, <1>2, <1>3, <1>4, <1>5 DEF Calls

LEMMA TalkHandshake ==
    ASSUME SessionInv, Typed, Conversation, Served,
           \/ \E n \in 1..RawCapacity : HandshakeRead(n)
           \/ HandshakeInput \/ HandshakeContinues \/ HandshakeCompletes
           \/ HandshakeFails \/ HandshakeAborts
    PROVE  Conversation' /\ Served'
<1>0. /\ TlsTyped /\ InputTyped /\ PeerTyped
      /\ c2s \in Seq(ClientMessage) /\ sendbuf \in Seq(ClientMessage) /\ tls \in TlsState
  BY DEF Typed, InputTyped, PeerTyped, TlsTyped
<1>1. ASSUME NEW n \in 1..RawCapacity, HandshakeRead(n) PROVE Conversation' /\ Served'
  <2>1. /\ pc = "hs_recv" /\ pc' = "hs_input" /\ ReadSome(n) /\ UNCHANGED <<sendbuf, c2s, srv>>
    BY <1>1 DEF HandshakeRead
  <2>2. tls'.st = tls.st /\ tls'.wantKU = tls.wantKU /\ tls.st \in HandshakeStates
    BY <1>0, <2>1 DEF ReadSome, TlsState, SessionInv, Stages
  <2> QED
    BY <2>1, <2>2 DEF Conversation, Served, OpenNow, Starting, HandshakeStates
<1>2. CASE HandshakeInput
  <2>1. pc = "hs_input" /\ pc' = pc /\ handle_input /\ UNCHANGED <<c2s, srv>> /\ tls.st # "NULL"
    BY <1>2 DEF HandshakeInput, clientVars, SessionInv, Stages, Underway, Complete, HandshakeStates
  <2>2. tls.st \in HandshakeStates
    <3>1. ~Complete
      BY <1>2 DEF HandshakeInput, HandshakeGoesOn, Complete
    <3> QED
      BY <2>1, <3>1 DEF SessionInv, Stages, Underway
  <2>3. /\ tls'.wantKU = tls.wantKU /\ tls'.st # "NULL"
        /\ \A i \in DOMAIN sendbuf' : sendbuf'[i] \in {"CLIENT_HELLO", "CERTIFICATE", "FINISHED"}
        /\ tls'.st \in HandshakeStates => Hellos(sendbuf')
        /\ tls'.st = "POST_HANDSHAKE" => Finished(sendbuf')
    <3>1. CASE tls.mess # <<>>
      BY <1>0, <2>1, <2>2, <3>1, HandshakeSays DEF handle_input, Conversation
    <3>2. CASE tls.mess = <<>>
      <4>1. sendbuf' = sendbuf /\ tls'.wantKU = tls.wantKU /\ tls'.st = tls.st
        BY <1>0, <2>1, <3>2, SaysNothing DEF handle_input
      <4> QED
        BY <2>1, <2>2, <4>1 DEF Conversation, HandshakeStates
    <3> QED
      BY <3>1, <3>2
  <2> QED
    BY <2>1, <2>3 DEF Conversation, Served, OpenNow, Starting
<1>3. CASE HandshakeContinues
  <2>1. /\ pc = "hs_input" /\ pc' = "hs_recv" /\ res = "IN_PROGRESS" /\ c2s' = c2s \o Flight
        /\ sendbuf' = <<>> /\ UNCHANGED <<tls, srv>>
    BY <1>3 DEF HandshakeContinues
  <2>2. Flight = sendbuf /\ tls.st \in HandshakeStates
    BY <2>1 DEF Flight, SessionInv, Stages, Underway, Complete
  <2>3. Orderly(c2s) /\ Unended(c2s) /\ Hellos(c2s) /\ Hellos(sendbuf)
    BY <2>1, <2>2 DEF Conversation, OpenNow, HandshakeStates
  <2>4. Unended(sendbuf)
    BY <2>3 DEF Hellos, Unended
  <2>5. Orderly(c2s') /\ Unended(c2s') /\ Hellos(c2s')
    <3>1. \A i \in DOMAIN sendbuf : sendbuf[i] = "CLIENT_HELLO"
      BY <2>3 DEF Hellos
    <3>2. Orderly(c2s \o sendbuf)
      BY <1>0, <2>3, <3>1, SaysMore
    <3> QED
      BY <1>0, <2>1, <2>2, <2>3, <2>4, <3>2, BothParts
  <2> QED
    BY <2>1, <2>2, <2>5, OneMessage DEF Conversation, Served, OpenNow, Starting, HandshakeStates
<1>4. CASE HandshakeCompletes
  <2>1. /\ pc = "hs_input" /\ pc' = "idle" /\ res = "OK" /\ c2s' = c2s \o Flight
        /\ sendbuf' = <<>> /\ UNCHANGED <<tls, srv>>
    BY <1>4 DEF HandshakeCompletes, Return
  <2>2. Flight = sendbuf /\ tls.st = "POST_HANDSHAKE"
    BY <2>1 DEF Flight, SessionInv, Stages, Underway, Complete
  <2>3. /\ Orderly(c2s) /\ Unended(c2s) /\ Finished(sendbuf)
        /\ \A i \in DOMAIN sendbuf : sendbuf[i] \in {"CLIENT_HELLO", "CERTIFICATE", "FINISHED"}
    BY <2>1, <2>2 DEF Conversation
  <2>4. Unended(sendbuf)
    BY <2>3 DEF Unended
  <2>5. Orderly(c2s') /\ Unended(c2s') /\ Finished(c2s')
    <3>1. Orderly(c2s \o sendbuf)
      <4>1. \A i \in DOMAIN sendbuf : sendbuf[i] # "CLOSE_NOTIFY" /\ sendbuf[i] # "ALERT"
                                       /\ sendbuf[i] \notin {"DATA", "KEY_UPDATE"}
        BY <2>3
      <4> QED
        BY <1>0, <2>3, <4>1, SaysMore
    <3> QED
      BY <1>0, <2>1, <2>2, <2>3, <2>4, <3>1, BothParts
  <2>6. OpenNow'
    BY <2>1, <2>2 DEF OpenNow
  <2>7. Conversation'
    BY <2>1, <2>2, <2>5, <2>6, OneMessage DEF Conversation, Starting, HandshakeStates
  <2>8. Served'
    BY <2>1, <2>2, <2>6 DEF Served
  <2> QED
    BY <2>7, <2>8
<1>5. CASE HandshakeFails
  <2>1. /\ \E ms \in {<<>>, <<"ALERT">>} : tls_close(ms, heap \ {"hs_buf", "raw_in"})
        /\ pc' = "idle" /\ pc = "hs_input"
    BY <1>5 DEF HandshakeFails, Return, Flight
  <2>2. tls.st # "NULL"
    BY <2>1 DEF SessionInv, Stages, Underway, Complete, HandshakeStates
  <2> QED
    BY <2>1, <2>2, ConversationClosed
<1>6. CASE HandshakeAborts
  <2>1. tls_close(<<>>, heap \ {"raw_in"}) /\ pc' = "idle" /\ tls.st # "NULL"
    BY <1>6 DEF HandshakeAborts, Return, SessionInv, Stages, HandshakeStates
  <2> QED
    BY <2>1, ConversationClosed
<1> QED
  BY <1>1, <1>2, <1>3, <1>4, <1>5, <1>6

LEMMA TalkReceive ==
    ASSUME SessionInv, Typed, Conversation, Served,
           \/ \E n \in 1..RawCapacity : ReceiveRead(n)
           \/ ReceiveBuffered \/ ReceiveAllocates \/ ReceiveInput \/ ReceiveDelivers \/ ReceiveReadsOn \/ ReceiveFails
           \/ ReceiveDisconnected \/ ReceiveTimesOut
    PROVE  Conversation' /\ Served'
<1>0. tls \in TlsState /\ TlsTyped
  BY DEF Typed, TlsTyped
<1>1. /\ pc \in {"recv_call", "recv", "recv_input"}
      /\ pc' \in {"idle", "recv_call", "recv", "recv_input"}
      /\ UNCHANGED <<c2s, srv>>
  BY DEF ReceiveRead, ReceiveBuffered, ReceiveAllocates, ReceiveInput, ReceiveDelivers, ReceiveReadsOn, ReceiveFails,
         ReceiveDisconnected, ReceiveTimesOut, ReceiveKeeps, Delivered, Return
<1>2. tls.st = "POST_HANDSHAKE"
  BY <1>1 DEF SessionInv, Stages
<1>3. tls'.st = "POST_HANDSHAKE" /\ sendbuf' = sendbuf
  <2>1. ASSUME NEW n \in 1..RawCapacity, ReceiveRead(n)
        PROVE  tls'.st = tls.st /\ sendbuf' = sendbuf
    BY <1>0, <2>1 DEF ReceiveRead, ReadSome, TlsState
  <2>2. CASE ReceiveInput
    BY <1>0, <1>2, <2>2, SaysNothing DEF ReceiveInput, handle_input
  <2>3. ReceiveDelivers \/ ReceiveReadsOn \/ ReceiveFails => tls' = tls /\ sendbuf' = sendbuf
    BY DEF ReceiveDelivers, ReceiveReadsOn, ReceiveFails
  <2>4. \/ ReceiveDisconnected \/ ReceiveTimesOut \/ ReceiveBuffered \/ ReceiveAllocates
           => tls' = tls /\ sendbuf' = sendbuf
    BY DEF ReceiveDisconnected, ReceiveTimesOut, ReceiveBuffered, ReceiveAllocates, ptlsVars
  <2> QED
    BY <1>2, <2>1, <2>2, <2>3, <2>4
<1>4. OpenNow /\ OpenNow'
  BY <1>1, <1>2, <1>3 DEF OpenNow
<1>5. Conversation'
  BY <1>1, <1>3, <1>4 DEF Conversation, HandshakeStates, OpenNow, Starting
<1>6. Served'
  BY <1>1, <1>3, <1>4 DEF Served
<1> QED
  BY <1>5, <1>6

LEMMA StepTalk ==
    SessionInv /\ Typed /\ Conversation /\ Served /\ [Next]_vars => Conversation' /\ Served'
<1> SUFFICES ASSUME SessionInv, Typed, Conversation, Served, [Next]_vars
             PROVE  Conversation' /\ Served'
  OBVIOUS
<1>1. CASE UNCHANGED vars
  BY <1>1 DEF vars, ptlsVars, clientVars, Conversation, Served, OpenNow, Starting
<1> QED
  BY <1>1, TalkEnvironment, TalkCalls, TalkConnect, TalkHandshake, TalkReceive DEF Next, Running

LEMMA TalkInvariant == Spec => [](SessionInv /\ Typed /\ Conversation /\ Served)
<1>1. Init => Conversation /\ Served
  BY TalkInit
<1>2. SessionInv /\ Typed /\ Conversation /\ Served /\ [Next]_vars => Conversation' /\ Served'
  BY StepTalk
<1> QED
  BY <1>1, <1>2, TypedInvariant, PTL DEF Spec

\* Whatever the server does and wherever a call fails: the client sends
\* application data and key updates only behind its Finished, nothing behind a
\* close_notify, and only that behind a fatal alert (the error paths of
\* tls_connect, and tls_close).
THEOREM ConversationInOrder == Spec => []ClientMessagesInOrder
<1>1. Conversation => ClientMessagesInOrder
  BY DEF Conversation, Orderly, ClientMessagesInOrder
<1> QED
  BY <1>1, TalkInvariant, PTL

\* A key update that is due is still wanted by picotls, or no record of the client
\* can be read any more; and it is due only while the session is open.
Owed ==
    /\ ~OpenNow => ~due
    /\ due => tls.wantKU \/ gap

\* Steps outside an open session, and those that end it.
LEMMA OwedNothing ==
    ASSUME SessionInv, Owed, ~OpenNow, due' => due
    PROVE  Owed'
  BY Zenon DEF Owed

\* A key update in front of data.
LEMMA UpdateFirst ==
    LET ms == <<"KEY_UPDATE">> \o <<"DATA">> IN
    Len(ms) = 2 /\ ms # <<>> /\ ms[1] = "KEY_UPDATE" /\ Head(ms) = "KEY_UPDATE"
<1> DEFINE ms == <<"KEY_UPDATE">> \o <<"DATA">>
<1>1. /\ <<"KEY_UPDATE">> \in Seq(ClientMessage) /\ Len(<<"KEY_UPDATE">>) = 1
      /\ <<"DATA">> \in Seq(ClientMessage) /\ Len(<<"DATA">>) = 1
  BY OneMessage, OneType DEF ClientMessage
<1>2. /\ ms \in Seq(ClientMessage) /\ Len(ms) = 2
      /\ \A i \in 1..1 : ms[i] = <<"KEY_UPDATE">>[i]
  BY <1>1, ConcatProperties
<1>3. ms[1] = "KEY_UPDATE"
  BY <1>2
<1> HIDE DEF ms
<1>4. ms # <<>> /\ Head(ms) = ms[1]
  BY <1>2
<1> QED
  BY <1>2, <1>3, <1>4 DEF ms

LEMMA OwedConnect ==
    ASSUME SessionInv, Owed,
           \/ Connect \/ ConnectNew \/ ConnectName \/ ConnectBuffer \/ HandshakeStarts
           \/ \E n \in 1..RawCapacity : HandshakeRead(n)
           \/ HandshakeInput \/ HandshakeContinues \/ HandshakeCompletes
           \/ HandshakeFails \/ HandshakeAborts
    PROVE  Owed'
<1>1. /\ pc \in {"idle", "connect_new", "connect_name", "connect_buf", "hs_start", "hs_recv",
                "hs_input"}
      /\ pc = "idle" => ~tls_is_connected
  BY DEF Connect, ConnectNew, ConnectName, ConnectBuffer, HandshakeStarts, HandshakeRead,
         HandshakeInput, HandshakeContinues, HandshakeCompletes, HandshakeFails, HandshakeAborts
<1>2. ~OpenNow
  BY <1>1 DEF OpenNow, SessionInv, Stages, Together, Connecting, HandshakeStates, tls_is_connected
<1>3. due' => due
  <2>1. CASE Connect \/ ConnectNew \/ ConnectName
    BY <2>1 DEF Connect, ConnectNew, ConnectName
  <2>2. CASE ConnectBuffer \/ HandshakeStarts
    BY <2>2 DEF ConnectBuffer, HandshakeStarts, tls_close
  <2>3. CASE HandshakeInput \/ \E n \in 1..RawCapacity : HandshakeRead(n)
    BY <2>3 DEF HandshakeRead, HandshakeInput, clientVars
  <2>4. CASE HandshakeContinues \/ HandshakeCompletes
    BY <2>4 DEF HandshakeContinues, HandshakeCompletes
  <2>5. CASE HandshakeFails \/ HandshakeAborts
    BY <2>5 DEF HandshakeFails, HandshakeAborts, tls_close
  <2> QED
    BY <2>1, <2>2, <2>3, <2>4, <2>5
<1> QED
  BY <1>2, <1>3, OwedNothing

\* tls_send: a message is readable only if all before it were, and picotls puts
\* the key update that it wants in front of all others.
LEMMA OwedSend ==
    ASSUME SessionInv, Typed, Owed, Send \/ SendFails
    PROVE  Owed'
<1>1. /\ pc = "idle" /\ pc' = "idle" /\ tls.st = "POST_HANDSHAKE" /\ tls \in TlsState
  BY DEF Send, SendFails, Return, tls_is_connected, SessionInv, Stages, Typed, TlsTyped
<1>2. OpenNow'
  BY <1>1 DEF Send, SendFails, TlsState, OpenNow
<1>3. CASE Send
  <2>1. Says(PendingUpdate \o <<"DATA">>) /\ gap' = gap
    BY <1>3 DEF Send
  <2>2. ASSUME due', ~gap PROVE FALSE
    <3>1. \/ PendingUpdate \o <<"DATA">> = <<>>
          \/ Head(PendingUpdate \o <<"DATA">>) # "KEY_UPDATE"
      BY <2>1, <2>2, Zenon DEF Says
    <3>2. due
      BY <2>1, <2>2, Zenon DEF Says
    <3>3. tls.wantKU
      BY <2>2, <3>2, Zenon DEF Owed
    <3>4. PendingUpdate = <<"KEY_UPDATE">>
      BY <3>3 DEF PendingUpdate
    <3> QED
      BY <3>1, <3>4, UpdateFirst
  <2> QED
    BY <1>2, <2>1, <2>2, Zenon DEF Owed
<1>4. CASE SendFails
  <2>1. CASE Says(<<>>) /\ gap' = gap /\ tls' = tls
    <3>1. due' => due
      BY <2>1, Zenon DEF Says
    <3> QED
      BY <1>2, <2>1, <3>1, Zenon DEF Owed
  <2>2. CASE gap' = TRUE
    BY <1>2, <2>2, Zenon DEF Owed
  <2> QED
    BY <1>4, <2>1, <2>2, Zenon DEF SendFails
<1> QED
  BY <1>3, <1>4

LEMMA OwedReceive ==
    ASSUME SessionInv, Typed, Owed,
           \/ \E n \in 1..RawCapacity : ReceiveRead(n)
           \/ ReceiveBuffered \/ ReceiveAllocates \/ ReceiveInput \/ ReceiveDelivers
           \/ ReceiveReadsOn \/ ReceiveFails \/ ReceiveDisconnected \/ ReceiveTimesOut
    PROVE  Owed'
<1>0. tls \in TlsState /\ TlsTyped
  BY DEF Typed, TlsTyped
<1>1. /\ pc \in {"recv_call", "recv", "recv_input"} /\ pc' # "hs_input" /\ gap' = gap
  BY DEF ReceiveRead, ReceiveBuffered, ReceiveAllocates, ReceiveInput, ReceiveDelivers,
         ReceiveReadsOn, ReceiveFails, ReceiveDisconnected, ReceiveTimesOut, ReceiveKeeps,
         Delivered, Return
<1>2. tls.st = "POST_HANDSHAKE"
  BY <1>1 DEF SessionInv, Stages
<1>3. CASE ReceiveInput
  <2>1. handle_input /\ due' = (due \/ (tls.mess # <<>> /\ Head(tls.mess) = "KU_REQUEST"))
    BY <1>3 DEF ReceiveInput
  <2>2. tls'.st = "POST_HANDSHAKE"
    BY <1>0, <1>2, <2>1, SaysNothing DEF handle_input
  <2>3. CASE tls.mess = <<>>
    <3>1. tls'.wantKU = tls.wantKU
      BY <1>0, <2>1, <2>3, SaysNothing DEF handle_input
    <3>2. due' => due
      BY <2>1, <2>3, Zenon
    <3> QED
      BY <1>1, <2>2, <3>1, <3>2, Zenon DEF Owed, OpenNow
  <2>4. CASE tls.mess # <<>>
    <3>1. CASE Head(tls.mess) = "KU_REQUEST"
      <4>1. handle_key_update("KU_REQUEST")
        BY <1>2, <2>1, <2>4, <3>1
        DEF handle_input, HandleMessage, KeepPart, Cuts, client_handle_hello,
            client_handle_encrypted_extensions, client_handle_certificate_request,
            client_handle_certificate, client_handle_certificate_verify, client_handle_finished,
            client_handle_new_session_ticket, UnexpectedMessage, Expected, EndOfRecord
      <4>2. tls'.wantKU = TRUE
        BY <1>0, <4>1 DEF handle_key_update, TlsState
      <4> QED
        BY <1>1, <2>2, <4>2, Zenon DEF Owed, OpenNow
    <3>2. CASE Head(tls.mess) # "KU_REQUEST"
      <4>1. due' => due
        BY <2>1, <3>2, Zenon
      <4>2. tls'.wantKU = tls.wantKU
        <5>1. CASE \E m \in {"KU", "KU_REQUEST"} : m = Head(tls.mess) /\ handle_key_update(m)
          <6>1. tls' = [tls EXCEPT !.mess = Tail(@), !.dec = [ep |-> @.ep + 1, sq |-> 0],
                                   !.wantKU = @ \/ FALSE]
            BY <3>2, <5>1 DEF handle_key_update
          <6> QED
            BY <1>0, <6>1 DEF TlsState
        <5>2. CASE ~handle_key_update(Head(tls.mess))
          BY <1>0, <1>2, <2>1, <2>4, <5>2
          DEF handle_input, HandleMessage, KeepPart, client_handle_hello,
              client_handle_encrypted_extensions, client_handle_certificate_request,
              client_handle_certificate, client_handle_certificate_verify,
              client_handle_finished, client_handle_new_session_ticket, UnexpectedMessage,
              TlsState
        <5> QED
          BY <5>1, <5>2 DEF handle_key_update
      <4> QED
        BY <1>1, <2>2, <4>1, <4>2, Zenon DEF Owed, OpenNow
    <3> QED
      BY <3>1, <3>2
  <2> QED
    BY <2>3, <2>4
<1>4. CASE ~ReceiveInput
  <2>1. due' = due
    BY <1>4
    DEF ReceiveRead, ReceiveBuffered, ReceiveAllocates, ReceiveDelivers,
        ReceiveReadsOn, ReceiveFails, ReceiveDisconnected, ReceiveTimesOut, ReceiveKeeps
  <2>2. tls'.wantKU = tls.wantKU /\ tls'.st = tls.st
    <3>1. ASSUME NEW n \in 1..RawCapacity, ReceiveRead(n)
          PROVE  tls'.wantKU = tls.wantKU /\ tls'.st = tls.st
      BY <1>0, <3>1 DEF ReceiveRead, ReadSome, TlsState
    <3>2. ReceiveDelivers \/ ReceiveReadsOn \/ ReceiveFails => tls' = tls
      BY DEF ReceiveDelivers, ReceiveReadsOn, ReceiveFails
    <3>3. \/ ReceiveDisconnected \/ ReceiveTimesOut \/ ReceiveBuffered \/ ReceiveAllocates
             => tls' = tls
      BY DEF ReceiveDisconnected, ReceiveTimesOut, ReceiveBuffered, ReceiveAllocates, ptlsVars
    <3> QED
      BY <1>4, <3>1, <3>2, <3>3
  <2> QED
    BY <1>1, <1>2, <2>1, <2>2, Zenon DEF Owed, OpenNow
<1> QED
  BY <1>3, <1>4

LEMMA StepOwed == SessionInv /\ Typed /\ Owed /\ [Next]_vars => Owed'
<1> SUFFICES ASSUME SessionInv, Typed, Owed, [Next]_vars PROVE Owed'
  OBVIOUS
<1>1. CASE UNCHANGED <<tls, gap, due>> /\ OpenNow' = OpenNow
  BY <1>1, Zenon DEF Owed
<1>2. CASE UNCHANGED vars
  BY <1>1, <1>2 DEF vars, ptlsVars, clientVars, OpenNow
<1>3. CASE Environment
  BY <1>1, <1>3, EnvironmentLeaves DEF ServerKeeps, ptlsVars, clientVars, OpenNow
<1>4. CASE Calls
  <2>1. CASE ConnectRefused
    BY <1>1, <2>1
    DEF ConnectRefused, ptlsVars, Return, OpenNow
  <2>2. CASE Close
    <3>1. due' = FALSE
      BY <2>2 DEF Close, tls_close
    <3> QED
      BY <3>1, Zenon DEF Owed
  <2>3. CASE \E a \in Args : ReceiveCall(a)
    <3>1. UNCHANGED <<tls, gap, due>> /\ pc = "idle" /\ pc' = "recv_call"
      BY <2>3 DEF ReceiveCall, ReceiveKeeps, ptlsVars
    <3> QED
      BY <1>1, <3>1 DEF OpenNow
  <2> QED
    BY <1>4, <2>1, <2>2, <2>3, OwedSend, OwedConnect DEF Calls
<1> QED
  BY <1>2, <1>3, <1>4, OwedConnect, OwedReceive DEF Next, Running

\* A server that has asked for a key update reads the client's own before
\* anything else, but for a close_notify: whichever calls come in between and
\* wherever tls_send fails (ptls_send and needs_key_update, tls_send).
THEOREM KeyUpdateIsAnswered == Spec => KeyUpdateAnswered
<1> DEFINE Answer == due /\ Len(c2s') > Len(c2s) =>
                        c2s'[Len(c2s) + 1] \in {"KEY_UPDATE", "CLOSE_NOTIFY"}
<1>1. SessionInv /\ Typed /\ Owed /\ [Next]_vars => [Answer]_vars
  <2> SUFFICES ASSUME SessionInv, Typed, Owed, Next, due, Len(c2s') > Len(c2s)
               PROVE  c2s'[Len(c2s) + 1] \in {"KEY_UPDATE", "CLOSE_NOTIFY"}
    OBVIOUS
  <2>0. /\ c2s \in Seq(ClientMessage) /\ Len(c2s) \in Nat
        /\ <<"KEY_UPDATE">> \in Seq(ClientMessage) /\ <<"DATA">> \in Seq(ClientMessage)
        /\ <<"CLOSE_NOTIFY">> \in Seq(ClientMessage) /\ <<>> \in Seq(ClientMessage)
    BY OneMessage, Empty DEF Typed, PeerTyped, ClientMessage
  <2>1. OpenNow /\ (tls.wantKU \/ gap)
    <3>1. due # FALSE
      OBVIOUS
    <3> QED
      BY <3>1, Zenon DEF Owed
  <2>2. pc \in {"idle", "recv_call", "recv", "recv_input"}
    BY <2>1 DEF OpenNow, SessionInv, Stages, Locations, HandshakeStates
  <2>3. c2s' # c2s
    BY <2>0
  <2>4. Send \/ SendFails \/ Close
    <3>1. ~Environment
      BY <2>3, EnvironmentLeaves DEF ServerKeeps
    <3>2. ~ConnectRefused /\ ~Connect /\ \A a \in Args : ~ReceiveCall(a)
      <4>1. tls_is_connected \/ pc # "idle"
        BY <2>1 DEF OpenNow, SessionInv, Together, Connecting, Stages, tls_is_connected
      <4> QED
        BY <2>3, <4>1 DEF ConnectRefused, Connect, ReceiveCall, ReceiveKeeps
    <3>3. ~Running
      BY <2>2, <2>3
      DEF Running, ConnectNew, ConnectName, ConnectBuffer, HandshakeStarts, HandshakeRead,
          HandshakeInput, HandshakeContinues, HandshakeCompletes, HandshakeFails,
          HandshakeAborts, ReceiveRead, ReceiveBuffered, ReceiveAllocates, ReceiveInput,
          ReceiveDelivers, ReceiveReadsOn, ReceiveFails, ReceiveDisconnected, ReceiveTimesOut,
          ReceiveKeeps
    <3> QED
      BY <3>1, <3>2, <3>3 DEF Next, Calls
  <2>5. CASE Send \/ SendFails
    <3>1. PICK ms \in {<<>>, PendingUpdate, PendingUpdate \o <<"DATA">>} : Says(ms)
      BY <2>5 DEF Send, SendFails
    <3>2. ~gap /\ c2s' = c2s \o ms
      BY <2>3, <3>1 DEF Says
    <3>3. PendingUpdate = <<"KEY_UPDATE">>
      BY <2>1, <3>2 DEF PendingUpdate
    <3>4. ms # <<>>
      BY <2>0, <2>3, <3>2, ConcatEmptySeq
    <3>5. ms \in Seq(ClientMessage) /\ Len(ms) >= 1 /\ ms[1] = "KEY_UPDATE"
      <4>1. CASE ms = <<"KEY_UPDATE">>
        BY <2>0, <4>1, OneType
      <4>2. CASE ms = <<"KEY_UPDATE">> \o <<"DATA">>
        <5>1. ms \in Seq(ClientMessage)
          BY <2>0, <4>2, ConcatProperties
        <5> QED
          BY <4>2, <5>1, UpdateFirst
      <4> QED
        BY <3>1, <3>3, <3>4, <4>1, <4>2
    <3> QED
      BY <2>0, <3>2, <3>5, ConcatProperties
  <2>6. CASE Close
    <3>1. PICK cn \in {<<>>, <<"CLOSE_NOTIFY">>} : c2s' = c2s \o <<>> \o cn
      BY <2>6 DEF Close, tls_close
    <3>2. c2s \o <<>> = c2s
      BY <2>0, ConcatEmptySeq
    <3>3. cn = <<"CLOSE_NOTIFY">>
      BY <2>0, <2>3, <3>1, <3>2, ConcatEmptySeq
    <3> QED
      BY <2>0, <3>1, <3>2, <3>3, ConcatProperties
  <2> QED
    BY <2>4, <2>5, <2>6
<1>2. Init => Owed
  BY Zenon DEF Init, Owed
<1>3. SessionInv /\ Typed /\ Owed /\ [Next]_vars => Owed'
  BY StepOwed
<1> QED
  BY <1>1, <1>2, <1>3, TypedInvariant, PTL DEF Spec, KeyUpdateAnswered
-----------------------------------------------------------------------------
(* The byte stream.                                                        *)
(*                                                                         *)
(* The state does not remember what the server has sent under its          *)
(* application keys once TCP or picotls has dropped it.  The invariant     *)
(* says that some log of those records fits the state: every record that   *)
(* is under way is in it, and the client has got as far as the place of    *)
(* one of its entries, or of the record that the server sends next.        *)

\* A record and the number of stream bytes sent before it.
Entry == [rec : AppRecord \cup ControlRecord, at : Nat]

\* A place in what the server sends: epoch, number, bytes so far.
Place == [ep : AppEpoch, sq : Nat, at : Nat]

First == [ep |-> 3, sq |-> 0, at |-> 0]
PlaceOf(e) == [ep |-> e.rec.ep, sq |-> e.rec.sq, at |-> e.at]

\* The place behind an entry: a KeyUpdate ends its epoch.
EndsEpoch(r) == r.ct = "hs" /\ r.body \in {<<"KU">>, <<"KU_REQUEST">>}
Onward(e) ==
    IF EndsEpoch(e.rec) THEN [ep |-> e.rec.ep + 1, sq |-> 0, at |-> e.at]
    ELSE [ep |-> e.rec.ep, sq |-> e.rec.sq + 1,
          at |-> e.at + (IF e.rec.ct = "app" THEN Len(e.rec.body) ELSE 0)]

Earlier(p, q) == p.at <= q.at /\ (p.ep < q.ep \/ (p.ep = q.ep /\ p.sq < q.sq))

\* Place q is that of an entry of log L or the place behind its last one, p.
Marked(L, p, q) == q = p \/ \E e \in L : q = PlaceOf(e)

\* What the handshake records of an application epoch carry.
ControlBodies == {<<"NST">>, <<"NST-">>, <<"-NST">>, <<"KU">>, <<"KU_REQUEST">>}

\* An entry carries the bytes of connection c from its place on, or control.
Fits(e, c) ==
    /\ e.rec.ct = "app" => \A k \in 1..Len(e.rec.body) : e.rec.body[k] = StreamByte(c, e.at + k)
    /\ e.rec.ct = "hs" => e.rec.body \in ControlBodies

\* L is a log of connection c that ends before place p: it starts at the first
\* place, no number is used twice, and behind every entry is another or the end.
LogOk(L, c, p) ==
    /\ Marked(L, p, First)
    /\ \A e, f \in L : e.rec.ep = f.rec.ep /\ e.rec.sq = f.rec.sq => e = f
    /\ \A e \in L : Earlier(PlaceOf(e), p) /\ Marked(L, p, Onward(e)) /\ Fits(e, c)

\* The second record of a ticket that is cut in two, at epoch ep and number sq.
Rest(L, ep, sq) ==
    \E f \in L : f.rec.ct = "hs" /\ f.rec.ep = ep /\ f.rec.sq = sq /\ f.rec.body = <<"-NST">>

TicketsWhole(L) ==
    \A e \in L : e.rec.ct = "hs" /\ e.rec.body = <<"NST-">> => Rest(L, e.rec.ep, e.rec.sq + 1)

\* The records among units q that a client after the handshake could decrypt.
Known(L, q) == \A i \in DOMAIN q : q[i].rec.ep >= 3 => \E e \in L : e.rec = q[i].rec

ServerPlace == [ep |-> IF srv.ep = 0 THEN 3 ELSE srv.ep, sq |-> srv.sq, at |-> srv.bytes]

\* The bytes that have come out of picotls, in their order.
Handed == (got \o rbuf) \o plain

\* Where the client is, with the KeyUpdate in hand taken for handled.
ClientPlace ==
    [ep |-> IF tls.mess \in {<<"KU">>, <<"KU_REQUEST">>} THEN tls.dec.ep + 1 ELSE tls.dec.ep,
     sq |-> IF tls.mess \in {<<"KU">>, <<"KU_REQUEST">>} THEN 0 ELSE tls.dec.sq,
     at |-> Len(Handed)]

InSync(L) ==
    /\ Marked(L, ServerPlace, ClientPlace)
    /\ tls.mess \in {<<>>} \cup ControlBodies
    /\ tls.part \in {<<>>, <<"NST-">>}
    /\ tls.part # <<>> \/ tls.mess = <<"NST-">> => Rest(L, tls.dec.ep, tls.dec.sq)
    /\ \A k \in 1..Len(Handed) : Handed[k] = StreamByte(conn, k)

Logged(L) ==
    /\ LogOk(L, conn, ServerPlace) /\ TicketsWhole(L)
    /\ tls.st # "NULL" => Known(L, tls.rec)
    /\ Known(L, raw) /\ Known(L, wire)
    /\ tls.st = "POST_HANDSHAKE" => InSync(L)

InStream == \E L \in SUBSET Entry : Logged(L)

\* Places are places.
LEMMA PlaceType ==
    ASSUME NEW e \in Entry
    PROVE  /\ PlaceOf(e) \in Place /\ Onward(e) \in Place
           /\ Earlier(PlaceOf(e), Onward(e))
           /\ e.rec \in AppRecord \cup ControlRecord /\ e.at \in Nat
           /\ e.rec.ep \in AppEpoch /\ e.rec.sq \in Nat
           /\ e.rec.ct = "app" => /\ e.rec.body \in Seq(StreamBytes)
                                  /\ Len(e.rec.body) \in 1..MaxRecord
<1>1. /\ e.rec \in AppRecord \cup ControlRecord /\ e.at \in Nat
      /\ e.rec.ep \in AppEpoch /\ e.rec.sq \in Nat
      /\ e.rec.ct \in {"app", "hs", "alert"}
  BY DEF Entry, AppRecord, ControlRecord
<1>2. e.rec.ct = "app" => /\ e.rec.body \in Seq(StreamBytes)
                          /\ Len(e.rec.body) \in 1..MaxRecord
  BY <1>1 DEF AppRecord, ControlRecord
<1>3. PlaceOf(e) \in Place
  BY <1>1 DEF PlaceOf, Place
<1>4. CASE EndsEpoch(e.rec)
  BY <1>1, <1>2, <1>3, <1>4 DEF Onward, PlaceOf, Place, AppEpoch, Earlier
<1>5. CASE ~EndsEpoch(e.rec)
  <2> DEFINE more == IF e.rec.ct = "app" THEN Len(e.rec.body) ELSE 0
  <2>1. more \in Nat
    BY <1>2, SizesAssumption
  <2> HIDE DEF more
  <2>2. Onward(e) = [ep |-> e.rec.ep, sq |-> e.rec.sq + 1, at |-> e.at + more]
    BY <1>5 DEF Onward, more
  <2> QED
    BY <1>1, <1>2, <1>3, <2>1, <2>2 DEF PlaceOf, Place, AppEpoch, Earlier
<1> QED
  BY <1>4, <1>5

\* A place that was marked stays so when the log grows by the next record.
LEMMA MarkedStays ==
    ASSUME NEW L, NEW e, NEW q, Marked(L, PlaceOf(e), q)
    PROVE  Marked(L \cup {e}, Onward(e), q)
  BY DEF Marked

\* The server sends its next record.
LEMMA Extends ==
    ASSUME NEW L \in SUBSET Entry, NEW c, NEW e \in Entry, LogOk(L, c, PlaceOf(e)), Fits(e, c)
    PROVE  LogOk(L \cup {e}, c, Onward(e))
<1> DEFINE p == PlaceOf(e)
<1> DEFINE n == Onward(e)
<1>1. p \in Place /\ n \in Place /\ Earlier(p, n)
  BY PlaceType
<1>2. Marked(L \cup {e}, n, First)
  BY MarkedStays DEF LogOk
<1>3. ASSUME NEW f \in L
      PROVE  /\ Earlier(PlaceOf(f), p) /\ PlaceOf(f) \in Place
             /\ Marked(L \cup {e}, n, Onward(f)) /\ Fits(f, c)
             /\ ~(f.rec.ep = e.rec.ep /\ f.rec.sq = e.rec.sq)
  <2>1. Earlier(PlaceOf(f), p) /\ PlaceOf(f) \in Place /\ Fits(f, c)
    BY PlaceType DEF LogOk
  <2>2. Marked(L \cup {e}, n, Onward(f))
    BY MarkedStays DEF LogOk
  <2>3. ~(f.rec.ep = e.rec.ep /\ f.rec.sq = e.rec.sq)
    BY <1>1, <2>1 DEF Earlier, PlaceOf, Place, AppEpoch
  <2> QED
    BY <2>1, <2>2, <2>3
<1>4. ASSUME NEW f \in L \cup {e}, NEW g \in L \cup {e},
             f.rec.ep = g.rec.ep, f.rec.sq = g.rec.sq
      PROVE  f = g
  BY <1>3, <1>4 DEF LogOk
<1>5. ASSUME NEW f \in L
      PROVE  Earlier(PlaceOf(f), n)
  <2> HIDE DEF p, n
  <2> QED
    BY <1>1, <1>3 DEF Earlier, Place, AppEpoch
<1>6. Marked(L \cup {e}, n, n)
  BY DEF Marked
<1> QED
  BY <1>1, <1>2, <1>3, <1>4, <1>5, <1>6 DEF LogOk

\* The client and an entry with the number it expects are at the same place.
LEMMA SamePlace ==
    ASSUME NEW L \in SUBSET Entry, NEW c, NEW p \in Place, LogOk(L, c, p), NEW e \in L,
           NEW q, Marked(L, p, q), q.ep = e.rec.ep, q.sq = e.rec.sq
    PROVE  q = PlaceOf(e)
<1>1. Earlier(PlaceOf(e), p) /\ PlaceOf(e) \in Place
  BY PlaceType DEF LogOk
<1>2. q # p
  BY <1>1 DEF Earlier, Place, PlaceOf, AppEpoch
<1>3. PICK f \in L : q = PlaceOf(f)
  BY <1>2 DEF Marked
<1>4. f = e
  BY <1>3 DEF PlaceOf, LogOk
<1> QED
  BY <1>3, <1>4

\* No place is marked beyond the end of the log.
LEMMA MarkedBytes ==
    ASSUME NEW L \in SUBSET Entry, NEW c, NEW p \in Place, LogOk(L, c, p), NEW q,
           Marked(L, p, q)
    PROVE  q.at <= p.at
  BY DEF Marked, LogOk, Earlier, Place

\* Before the server sends anything the log is empty.
LEMMA EmptyLog ==
    ASSUME NEW c
    PROVE  LogOk({}, c, First) /\ TicketsWhole({}) /\ Known({}, <<>>)
<1>1. LogOk({}, c, First) /\ TicketsWhole({})
  BY DEF LogOk, TicketsWhole, Marked
<1>2. DOMAIN <<>> = {}
  BY OneMessage
<1> QED
  BY <1>1, <1>2 DEF Known

LEMMA PlacesTyped ==
    ASSUME Typed
    PROVE  /\ ServerPlace \in Place
           /\ srv.phase \in {"wait_finished", "up"} =>
                 ServerPlace = [ep |-> srv.ep, sq |-> srv.sq, at |-> srv.bytes]
           /\ Handed \in Seq(StreamBytes) /\ got \o rbuf \in Seq(StreamBytes)
<1>1. srv \in ServerState /\ (srv.phase \in {"wait_finished", "up"} => srv.ep >= 3)
  BY DEF Typed, PeerTyped
<1>2. got \o rbuf \in Seq(StreamBytes)
  BY ConcatProperties DEF Typed, BytesTyped
<1>3. Handed \in Seq(StreamBytes)
  BY <1>2, ConcatProperties DEF Handed, Typed, BytesTyped
<1> QED
  BY <1>1, <1>2, <1>3 DEF ServerPlace, ServerState, Place, AppEpoch

-----------------------------------------------------------------------------
(* The byte stream: what is known of the units under way.                  *)

LEMMA KnownGrows ==
    ASSUME NEW L, NEW e, NEW q, Known(L, q)
    PROVE  Known(L \cup {e}, q)
  BY DEF Known

LEMMA KnownBoth ==
    ASSUME NEW L, NEW q \in Seq(Unit), NEW t \in Seq(Unit), Known(L, q), Known(L, t)
    PROVE  Known(L, q \o t)
<1> DEFINE s == q \o t
<1>1. /\ s \in Seq(Unit) /\ Len(s) = Len(q) + Len(t)
      /\ \A i \in 1..Len(q) + Len(t) : s[i] = IF i <= Len(q) THEN q[i] ELSE t[i - Len(q)]
  BY ConcatProperties
<1>2. /\ DOMAIN s = 1..Len(q) + Len(t) /\ DOMAIN q = 1..Len(q) /\ DOMAIN t = 1..Len(t)
      /\ Len(q) \in Nat /\ Len(t) \in Nat
  BY <1>1, LenProperties
<1> HIDE DEF s
<1>3. ASSUME NEW i \in DOMAIN s
      PROVE  (i \in DOMAIN q /\ s[i] = q[i]) \/ (i - Len(q) \in DOMAIN t /\ s[i] = t[i - Len(q)])
  BY <1>1, <1>2
<1>4. Known(L, s)
  BY <1>3 DEF Known
<1> QED
  BY <1>4 DEF s

\* A part of what is known.
LEMMA KnownPart ==
    ASSUME NEW L, NEW q \in Seq(Unit), Known(L, q), NEW n \in 0..Len(q)
    PROVE  Known(L, SubSeq(q, 1, n)) /\ Known(L, SubSeq(q, n + 1, Len(q)))
<1> DEFINE a == SubSeq(q, 1, n)
<1> DEFINE b == SubSeq(q, n + 1, Len(q))
<1>1. /\ a \in Seq(Unit) /\ Len(a) = n /\ b \in Seq(Unit) /\ Len(b) = Len(q) - n
      /\ Len(q) \in Nat
  BY SubSeqType, LenProperties
<1>2. /\ \A i \in 1..n : a[i] = q[i]
      /\ \A i \in 1..Len(q) - n : b[i] = q[i + n]
  BY <1>1
<1>3. DOMAIN a = 1..n /\ DOMAIN b = 1..Len(q) - n /\ DOMAIN q = 1..Len(q)
  BY <1>1, LenProperties
<1> HIDE DEF a, b
<1>4. Known(L, a)
  BY <1>1, <1>2, <1>3 DEF Known
<1>5. Known(L, b)
  <2>1. ASSUME NEW i \in DOMAIN b
        PROVE  i + n \in DOMAIN q /\ b[i] = q[i + n]
    BY <1>1, <1>2, <1>3
  <2> QED
    BY <2>1 DEF Known
<1> QED
  BY <1>4, <1>5 DEF a, b

LEMMA KnownOne ==
    ASSUME NEW L, NEW u, NEW v
    PROVE  /\ (u.rec.ep >= 3 => \E e \in L : e.rec = u.rec) => Known(L, <<u>>)
           /\ Known(L, <<u>>) /\ Known(L, <<v>>) => Known(L, <<u, v>>)
<1>1. DOMAIN <<u>> = {1} /\ <<u>>[1] = u /\ DOMAIN <<v>> = {1} /\ <<v>>[1] = v
  OBVIOUS
<1>2. DOMAIN <<u, v>> = {1, 2} /\ <<u, v>>[1] = u /\ <<u, v>>[2] = v
  OBVIOUS
<1> QED
  BY <1>1, <1>2 DEF Known

\* The units of records that are in the log, or of none of its epochs.
LEMMA KnownUnits ==
    ASSUME NEW L, NEW fs \in Seq(WireRecord),
           \A j \in 1..Len(fs) : fs[j].ep >= 3 => \E e \in L : e.rec = fs[j]
    PROVE  Known(L, Units(fs)) /\ Units(fs) \in Seq(Unit)
<1>1. /\ Units(fs) \in Seq(Unit)
      /\ \A i \in 1..Len(Units(fs)) : \E j \in 1..Len(fs) : Units(fs)[i].rec = fs[j]
  BY UnitsType
<1>2. DOMAIN Units(fs) = 1..Len(Units(fs))
  BY <1>1, LenProperties
<1> QED
  BY <1>1, <1>2 DEF Known

-----------------------------------------------------------------------------
(* The byte stream: the server sends.                                      *)

\* The log grows, and the client does not move.
LEMMA ServerWrites ==
    ASSUME Typed, NEW L \in SUBSET Entry, Logged(L), ServerKeeps, NEW M \in SUBSET Entry,
           L \subseteq M, LogOk(M, conn, ServerPlace'), TicketsWhole(M), Known(M, wire'),
           \A q : Marked(L, ServerPlace, q) => Marked(M, ServerPlace', q)
    PROVE  InStream'
<1>1. UNCHANGED <<tls, raw, plain, got, rbuf, conn>>
  BY DEF ServerKeeps, ptlsVars, clientVars
<1>2. (tls.st # "NULL" => Known(M, tls.rec)) /\ Known(M, raw)
  BY DEF Logged, Known
<1>3. ClientPlace' = ClientPlace /\ Handed' = Handed
  BY <1>1 DEF ClientPlace, Handed
<1>4. ASSUME tls.st = "POST_HANDSHAKE" PROVE InSync(M)'
  <2>1. InSync(L)
    BY <1>4 DEF Logged
  <2>2. Rest(L, tls.dec.ep, tls.dec.sq) => Rest(M, tls.dec.ep, tls.dec.sq)
    BY DEF Rest
  <2> QED
    BY <1>1, <1>3, <2>1, <2>2 DEF InSync
<1>5. Logged(M)'
  BY <1>1, <1>2, <1>4 DEF Logged
<1> QED
  BY <1>5 DEF InStream

\* One record more.
LEMMA ServerWritesOne ==
    ASSUME Typed, NEW L \in SUBSET Entry, Logged(L), ServerKeeps,
           srv.phase \in {"wait_finished", "up"},
           NEW r \in AppRecord \cup ControlRecord, r.ep = srv.ep, r.sq = srv.sq, ServerSends(r),
           Fits([rec |-> r, at |-> srv.bytes], conn),
           ServerPlace' = Onward([rec |-> r, at |-> srv.bytes]),
           r.ct # "hs" \/ r.body # <<"NST-">>
    PROVE  InStream'
<1> DEFINE e == [rec |-> r, at |-> srv.bytes]
<1> DEFINE M == L \cup {e}
<1>1. e \in Entry /\ e.rec = r
  BY DEF Typed, PeerTyped, ServerState, Entry
<1>2. PlaceOf(e) = ServerPlace
  BY PlacesTyped DEF PlaceOf
<1>3. LogOk(M, conn, ServerPlace')
  BY <1>1, <1>2, Extends DEF Logged
<1>4. TicketsWhole(M)
  BY <1>1 DEF Logged, TicketsWhole, Rest
<1>5. Known(M, wire')
  <2>1. <<r>> \in Seq(WireRecord) /\ Len(<<r>>) = 1 /\ <<r>>[1] = r
    BY OneType DEF WireRecord
  <2>2. Known(M, Units(<<r>>)) /\ Units(<<r>>) \in Seq(Unit)
    <3>1. \A j \in 1..Len(<<r>>) : \E g \in M : g.rec = <<r>>[j]
      BY <1>1, <2>1
    <3> HIDE DEF M
    <3> QED
      BY <2>1, <3>1, KnownUnits
  <2>3. Known(M, wire) /\ wire \in Seq(Unit)
    BY KnownGrows DEF Logged, Typed, PeerTyped
  <2> QED
    BY <2>2, <2>3, KnownBoth DEF ServerSends
<1>6. ASSUME NEW q, Marked(L, ServerPlace, q) PROVE Marked(M, ServerPlace', q)
  BY <1>2, <1>6, MarkedStays
<1> HIDE DEF e
<1> QED
  BY <1>1, <1>3, <1>4, <1>5, <1>6, ServerWrites

\* A ticket that is cut in two.
LEMMA ServerWritesTicket ==
    ASSUME Typed, NEW L \in SUBSET Entry, Logged(L), ServerTicket(2)
    PROVE  InStream'
<1>0. srv.phase \in {"wait_finished", "up"} /\ ServerKeeps
  BY DEF ServerTicket
<1>1. /\ srv \in ServerState /\ srv.ep >= 3 /\ srv.ep \in Nat /\ srv.sq \in Nat
      /\ srv.bytes \in Nat /\ wire \in Seq(Unit)
  BY <1>0 DEF Typed, PeerTyped, ServerState, AppEpoch
<1> DEFINE r == [ct |-> "hs", ep |-> srv.ep, sq |-> srv.sq, body |-> <<"NST-">>]
<1> DEFINE t == [ct |-> "hs", ep |-> srv.ep, sq |-> srv.sq + 1, body |-> <<"-NST">>]
<1> DEFINE e == [rec |-> r, at |-> srv.bytes]
<1> DEFINE f == [rec |-> t, at |-> srv.bytes]
<1> DEFINE N == (L \cup {e}) \cup {f}
<1>2. r \in ControlRecord /\ t \in ControlRecord
  <2>1. <<"NST-">> \in Seq(Contents) /\ <<"-NST">> \in Seq(Contents)
    BY OneType DEF Contents
  <2>2. srv.ep \in AppEpoch /\ srv.sq + 1 \in Nat
    BY <1>1 DEF AppEpoch
  <2> QED
    BY <1>1, <2>1, <2>2 DEF ControlRecord
<1>3. e \in Entry /\ f \in Entry /\ e.rec = r /\ f.rec = t
  BY <1>1, <1>2 DEF Entry
<1>4. wire' = wire \o Units(<<r, t>>)
  <2>1. Sealed("hs", <<"NST-">>) = r /\ [Sealed("hs", <<"-NST">>) EXCEPT !.sq = @ + 1] = t
    BY DEF Sealed
  <2>2. wire' = wire \o Units(<<Sealed("hs", <<"NST-">>),
                               [Sealed("hs", <<"-NST">>) EXCEPT !.sq = @ + 1]>>)
    BY DEF ServerTicket
  <2> HIDE DEF r, t
  <2> QED
    BY <2>1, <2>2, Zenon
<1>5. srv'.ep = srv.ep /\ srv'.sq = srv.sq + 2 /\ srv'.bytes = srv.bytes
  BY <1>1 DEF ServerTicket, ServerState
<1>6. /\ PlaceOf(e) = ServerPlace /\ Onward(e) = PlaceOf(f) /\ Onward(f) = ServerPlace'
  <2>1. ~EndsEpoch(r) /\ ~EndsEpoch(t)
    BY DEF EndsEpoch
  <2>2. ServerPlace' = [ep |-> srv.ep, sq |-> srv.sq + 2, at |-> srv.bytes]
    BY <1>1, <1>5 DEF ServerPlace
  <2>3. PlaceOf(e) = ServerPlace
    BY <1>1 DEF PlaceOf, ServerPlace
  <2>4. Onward(e) = PlaceOf(f)
    BY <1>1, <2>1 DEF PlaceOf, Onward
  <2>5. Onward(f) = ServerPlace'
    BY <1>1, <2>1, <2>2 DEF Onward
  <2> QED
    BY <2>3, <2>4, <2>5
<1>7. Fits(e, conn) /\ Fits(f, conn)
  BY DEF Fits, ControlBodies
<1>8. r.ct = "hs" /\ t.ct = "hs" /\ t.ep = r.ep /\ t.sq = r.sq + 1
      /\ t.body = <<"-NST">> /\ t.body # <<"NST-">>
  OBVIOUS
<1> HIDE DEF r, t, e, f
<1>9. LogOk(L \cup {e}, conn, PlaceOf(f))
  BY <1>3, <1>6, <1>7, Extends DEF Logged
<1>10. LogOk(N, conn, ServerPlace')
  <2>1. L \cup {e} \in SUBSET Entry
    BY <1>3
  <2> QED
    BY <1>3, <1>6, <1>7, <1>9, <2>1, Extends
<1>11. TicketsWhole(N)
  <2>1. Rest(N, e.rec.ep, e.rec.sq + 1)
    BY <1>3, <1>8 DEF Rest
  <2>2. ASSUME NEW g \in L, g.rec.ct = "hs", g.rec.body = <<"NST-">>
        PROVE  Rest(N, g.rec.ep, g.rec.sq + 1)
    BY <2>2 DEF Logged, TicketsWhole, Rest
  <2> QED
    BY <1>3, <1>8, <2>1, <2>2 DEF TicketsWhole
<1>12. Known(N, wire')
  <2>1. <<r, t>> \in Seq(WireRecord) /\ Len(<<r, t>>) = 2 /\ <<r, t>>[1] = r /\ <<r, t>>[2] = t
    BY <1>2 DEF WireRecord
  <2>2. \A j \in 1..2 : \E g \in N : g.rec = <<r, t>>[j]
    BY <1>3, <2>1
  <2>3. Known(N, Units(<<r, t>>)) /\ Units(<<r, t>>) \in Seq(Unit)
    BY <2>1, <2>2, KnownUnits
  <2>4. Known(N, wire)
    BY KnownGrows DEF Logged
  <2> QED
    BY <1>1, <1>4, <2>3, <2>4, KnownBoth
<1>13. ASSUME NEW q, Marked(L, ServerPlace, q) PROVE Marked(N, ServerPlace', q)
  <2>1. Marked(L \cup {e}, PlaceOf(f), q)
    BY <1>6, <1>13, MarkedStays
  <2> QED
    BY <1>6, <2>1, MarkedStays
<1> QED
  BY <1>0, <1>3, <1>10, <1>11, <1>12, <1>13, ServerWrites

\* The records of the handshake are of no application epoch.
LEMMA FlightKnown ==
    ASSUME NEW L, NEW f \in Flights
    PROVE  Known(L, Units(Numbered(f))) /\ Units(Numbered(f)) \in Seq(Unit)
<1>1. Numbered(f) \in Seq(FlightRecord)
  BY NumberedType
<1>2. Numbered(f) \in Seq(WireRecord)
  BY <1>1 DEF WireRecord
<1>3. \A j \in 1..Len(Numbered(f)) : Numbered(f)[j] \in FlightRecord
  BY <1>1
<1>4. \A j \in 1..Len(Numbered(f)) : ~(Numbered(f)[j].ep >= 3)
  BY <1>3 DEF FlightRecord
<1> QED
  BY <1>2, <1>4, KnownUnits

\* What the server and the network do keeps the log a log.
LEMMA StreamEnvironment ==
    ASSUME Typed, InStream, Environment
    PROVE  InStream'
<1>0. /\ wire \in Seq(Unit) /\ srv \in ServerState /\ srv.ep \in Nat /\ srv.sq \in Nat
      /\ srv.bytes \in Nat /\ PeerTyped /\ CallTyped
      /\ srv.phase = "wait_hello" => srv.ep = 0
      /\ srv.phase \in {"wait_finished", "up"} => srv.ep >= 3
  BY DEF Typed, PeerTyped, ServerState, AppEpoch
<1>1. PICK L \in SUBSET Entry : Logged(L)
  BY DEF InStream
<1>2. LogOk(L, conn, ServerPlace) /\ TicketsWhole(L) /\ Known(L, wire)
  BY <1>1 DEF Logged
<1>3. ASSUME ServerKeeps, ServerPlace' = ServerPlace, Known(L, wire') PROVE InStream'
  BY <1>1, <1>2, <1>3, ServerWrites
<1>4. ASSUME NEW f \in Flights, ServerFlight(f) PROVE InStream'
  <2>1. ServerKeeps /\ srv.phase = "wait_hello" /\ wire' = wire \o Units(Numbered(f))
    BY <1>4 DEF ServerFlight
  <2>2. srv'.sq = srv.sq /\ srv'.bytes = srv.bytes /\ srv'.ep \in {srv.ep, 3}
    BY <1>0, <1>4 DEF ServerFlight, ServerState
  <2>3. ServerPlace' = ServerPlace
    BY <1>0, <2>1, <2>2 DEF ServerPlace
  <2>4. Known(L, wire')
    BY <1>0, <1>2, <2>1, FlightKnown, KnownBoth
  <2> QED
    BY <1>3, <2>1, <2>3, <2>4
<1>5. CASE ServerEstablished
  <2>1. ServerKeeps /\ wire' = wire /\ srv' = [srv EXCEPT !.phase = "up"]
    BY <1>5 DEF ServerEstablished
  <2>2. ServerPlace' = ServerPlace
    BY <1>0, <2>1 DEF ServerPlace, ServerState
  <2> QED
    BY <1>2, <1>3, <2>1, <2>2
<1>6. CASE NetFin \/ NetReset
  <2>1. ServerKeeps /\ srv' = srv /\ wire' \in {wire, <<>>}
    BY <1>6 DEF NetFin, NetReset
  <2>2. Known(L, <<>>)
    BY OneMessage DEF Known
  <2> QED
    BY <1>2, <1>3, <2>1, <2>2 DEF ServerPlace
<1>7. CASE ServerCloses
  <2> DEFINE r == Sealed("alert", <<"close_notify">>)
  <2>1. r \in ControlRecord
    BY <1>0, <1>7, ControlRecordType DEF ServerCloses, Contents
  <2>2. r.ct = "alert" /\ r.ep = srv.ep /\ r.sq = srv.sq
    BY DEF Sealed
  <2>3. srv'.ep = srv.ep /\ srv'.sq = srv.sq + 1 /\ srv'.bytes = srv.bytes
    BY <1>0, <1>7 DEF ServerCloses, ServerState
  <2>4. ServerKeeps /\ ServerSends(r) /\ srv.phase = "up"
    BY <1>7 DEF ServerCloses
  <2> HIDE DEF r
  <2>5. ServerPlace' = Onward([rec |-> r, at |-> srv.bytes])
    BY <1>0, <2>2, <2>3, <2>4 DEF ServerPlace, Onward, EndsEpoch
  <2>6. Fits([rec |-> r, at |-> srv.bytes], conn)
    BY <2>2 DEF Fits
  <2> QED
    BY <1>1, <2>1, <2>2, <2>4, <2>5, <2>6, ServerWritesOne
<1>8. ASSUME NEW n \in TicketRecords, ServerTicket(n) PROVE InStream'
  <2>1. CASE n = 1
    <3> DEFINE r == Sealed("hs", <<"NST">>)
    <3>1. srv.phase \in {"wait_finished", "up"} /\ ServerKeeps /\ ServerSends(r)
      BY <1>8, <2>1 DEF ServerTicket, ServerSends
    <3>2. r \in ControlRecord
      BY <1>0, <3>1, ControlRecordType DEF Contents
    <3>3. r.ct = "hs" /\ r.ep = srv.ep /\ r.sq = srv.sq /\ r.body = <<"NST">> /\ r.body # <<"NST-">>
      BY DEF Sealed
    <3>4. srv'.ep = srv.ep /\ srv'.sq = srv.sq + 1 /\ srv'.bytes = srv.bytes
      BY <1>0, <1>8, <2>1 DEF ServerTicket, ServerState
    <3>5. ~EndsEpoch(r)
      BY DEF EndsEpoch, Sealed
    <3> HIDE DEF r
    <3>6. ServerPlace' = Onward([rec |-> r, at |-> srv.bytes])
      BY <1>0, <3>1, <3>3, <3>4, <3>5 DEF ServerPlace, Onward
    <3>7. Fits([rec |-> r, at |-> srv.bytes], conn)
      BY <3>3 DEF Fits, ControlBodies
    <3> QED
      BY <1>1, <3>1, <3>2, <3>3, <3>6, <3>7, ServerWritesOne
  <2>2. CASE n = 2
    BY <1>1, <1>8, <2>2, ServerWritesTicket
  <2> QED
    BY <2>1, <2>2, TicketAssumption
<1>9. ASSUME NEW n \in 1..MaxRecord, ServerApp(n) PROVE InStream'
  <2> DEFINE body == [k \in 1..n |-> StreamByte(conn, srv.bytes + k)]
  <2> DEFINE r == Sealed("app", body)
  <2>1. srv.phase = "up" /\ ServerKeeps /\ ServerSends(r)
    BY <1>9 DEF ServerApp
  <2>2. r.ct = "app" /\ r.ep = srv.ep /\ r.sq = srv.sq /\ r.body = body
    BY DEF Sealed
  <2>3. r \in WireRecord
    BY <1>0, <1>9, <2>1, AppRecordType
  <2>4. Len(body) = n /\ \A k \in 1..n : body[k] = StreamByte(conn, srv.bytes + k)
    <3>1. n \in Nat
      BY SizesAssumption
    <3> QED
      BY <3>1
  <2>5. srv'.ep = srv.ep /\ srv'.sq = srv.sq + 1 /\ srv'.bytes = srv.bytes + n
    BY <1>0, <1>9 DEF ServerApp, ServerState
  <2> HIDE DEF r, body
  <2>6. r \in AppRecord
    BY <1>0, <2>1, <2>2, <2>3 DEF WireRecord, FlightRecord, ControlRecord
  <2>7. ServerPlace' = Onward([rec |-> r, at |-> srv.bytes])
    BY <1>0, <2>1, <2>2, <2>4, <2>5 DEF ServerPlace, Onward, EndsEpoch
  <2>8. Fits([rec |-> r, at |-> srv.bytes], conn)
    BY <2>2, <2>4 DEF Fits
  <2> QED
    BY <1>1, <2>1, <2>2, <2>6, <2>7, <2>8, ServerWritesOne
<1>10. ASSUME NEW m \in {"KU", "KU_REQUEST"}, ServerKeyUpdate(m) PROVE InStream'
  <2> DEFINE r == Sealed("hs", <<m>>)
  <2>1. srv.phase = "up" /\ ServerKeeps /\ ServerSends(r)
    BY <1>10 DEF ServerKeyUpdate
  <2>2. r \in ControlRecord
    BY <1>0, <2>1, ControlRecordType DEF Contents
  <2>3. r.ct = "hs" /\ r.ep = srv.ep /\ r.sq = srv.sq /\ r.body = <<m>> /\ r.body # <<"NST-">>
    BY DEF Sealed
  <2>4. srv'.ep = srv.ep + 1 /\ srv'.sq = 0 /\ srv'.bytes = srv.bytes
    BY <1>0, <1>10 DEF ServerKeyUpdate, ServerState
  <2>5. EndsEpoch(r) /\ r.body \in ControlBodies
    BY <2>3 DEF EndsEpoch, ControlBodies
  <2> HIDE DEF r
  <2>6. ServerPlace' = Onward([rec |-> r, at |-> srv.bytes])
    BY <1>0, <2>1, <2>3, <2>4, <2>5 DEF ServerPlace, Onward
  <2>7. Fits([rec |-> r, at |-> srv.bytes], conn)
    BY <2>3, <2>5 DEF Fits
  <2> QED
    BY <1>1, <2>1, <2>2, <2>3, <2>6, <2>7, ServerWritesOne
<1> QED
  BY <1>4, <1>5, <1>6, <1>7, <1>8, <1>9, <1>10 DEF Environment

-----------------------------------------------------------------------------
(* The byte stream: the client takes a record.                             *)

\* A connection that is new, or none.
LEMMA StreamFresh ==
    ASSUME tls'.st # "NULL" => tls'.rec = <<>>, tls'.st # "POST_HANDSHAKE",
           raw' = <<>>, wire' = <<>>,
           srv'.ep = 0, srv'.sq = 0, srv'.bytes = 0
    PROVE  InStream'
<1>1. ServerPlace' = First
  BY DEF ServerPlace, First
<1>2. Logged({})'
  BY <1>1, EmptyLog DEF Logged
<1> QED
  BY <1>2 DEF InStream

\* The log is the same, and the units under way are known.
LEMMA StreamStays ==
    ASSUME NEW L \in SUBSET Entry, Logged(L), srv' = srv, conn' = conn,
           tls'.st # "NULL" => Known(L, tls'.rec), Known(L, raw'), Known(L, wire'),
           tls'.st = "POST_HANDSHAKE" => InSync(L)'
    PROVE  InStream'
<1>1. ServerPlace' = ServerPlace
  BY DEF ServerPlace
<1>2. Logged(L)'
  BY <1>1 DEF Logged
<1> QED
  BY <1>2 DEF InStream

\* Neither the keys nor the messages in hand nor the bytes handed out change.
LEMMA SyncStays ==
    ASSUME NEW L, InSync(L), srv' = srv, conn' = conn, tls'.dec = tls.dec,
           tls'.mess = tls.mess, tls'.part = tls.part, Handed' = Handed
    PROVE  InSync(L)'
<1>1. ServerPlace' = ServerPlace /\ ClientPlace' = ClientPlace
  BY DEF ServerPlace, ClientPlace
<1> QED
  BY <1>1 DEF InSync

\* What is done with a record beyond reading it: nothing, or it is decrypted.
RecordLeft == /\ tls'.dec = tls.dec /\ tls'.mess = tls.mess /\ tls'.part = tls.part
              /\ plain' = plain

RecordTaken(r) ==
    /\ Readable(r) /\ tls'.dec = Advanced(r)
    /\ \/ /\ r.ct \in {"app", "alert"}
          /\ r.ct = "app" => tls.st # "POST_HANDSHAKE" \/ tls.part # <<>>
          /\ tls'.mess = <<>> /\ tls'.part = tls.part /\ plain' = plain
       \/ /\ r.ct = "app" /\ tls.part = <<>>
          /\ tls'.mess = <<>> /\ tls'.part = <<>> /\ plain' = plain \o r.body
       \/ /\ r.ct = "hs"
          /\ tls'.mess = Collected(r.body) /\ tls'.part = <<>> /\ plain' = plain

\* Where the units go that are read.
UnitsKept ==
    /\ raw' \in {raw, Tail(raw)}
    /\ \/ tls'.rec \in {tls.rec, <<>>, <<Head(raw)>>}
       \/ Len(tls.rec) = 1 /\ tls'.rec = <<tls.rec[1], Head(raw)>>

LEMMA UnitSteps ==
    ASSUME TlsTyped, InputTyped, raw # <<>>, tls.mess = <<>>, HandleUnit
    PROVE  UnitsKept /\ (RecordLeft \/ (Len(tls.rec) = 1 /\ RecordTaken(tls.rec[1].rec)))
<1>0. tls \in TlsState
  BY DEF TlsTyped
<1> DEFINE u == Head(raw)
<1>1. ASSUME NEW units, FailRecord(units)
      PROVE  raw' = Tail(raw) /\ tls'.rec \in {units, <<>>} /\ RecordLeft
  BY <1>0, <1>1 DEF FailRecord, TlsState, RecordLeft
<1>2. CASE ReadHeader \/ RejectJunk \/ CollectJunk \/ RetryFailedRecord
  BY <1>0, <1>2
  DEF ReadHeader, RejectJunk, CollectJunk, RetryFailedRecord, TlsState, RecordLeft, UnitsKept
<1>3. CASE FinishJunk
  <2>1. Len(tls.rec) = 1 /\ FailRecord(<<tls.rec[1], u>>)
    BY <1>3 DEF FinishJunk
  <2> QED
    BY <1>1, <2>1 DEF UnitsKept
<1>4. CASE ReadFragment
  <2> DEFINE r == tls.rec[1].rec
  <2>1. Len(tls.rec) = 1
    BY <1>4 DEF ReadFragment
  <2>2. CASE FailRecord(<<tls.rec[1], u>>)
    BY <1>1, <2>1, <2>2 DEF UnitsKept
  <2>3. ASSUME NEW result, raw' = Tail(raw), RecordDone(result)
        PROVE  UnitsKept /\ RecordLeft
    BY <1>0, <2>3 DEF RecordDone, TlsState, RecordLeft, UnitsKept
  <2>4. CASE ChangeCipherSpec(r) \/ BadRecord(r) \/ TooEarly(r)
    <3>1. FailRecord(<<tls.rec[1], u>>) \/ \E result : raw' = Tail(raw) /\ RecordDone(result)
      BY <2>4 DEF ChangeCipherSpec, BadRecord, TooEarly
    <3> QED
      BY <2>2, <2>3, <3>1
  <2>5. CASE AppData(r)
    <3>1. tls' = [tls EXCEPT !.rec = <<>>, !.dec = Advanced(r)] /\ raw' = Tail(raw)
      BY <2>5 DEF AppData
    <3>2. /\ tls'.rec = <<>> /\ tls'.dec = Advanced(r) /\ tls'.mess = <<>>
          /\ tls'.part = tls.part
      BY <1>0, <3>1 DEF TlsState
    <3>3. /\ r.ct = "app" /\ Readable(r) /\ tls.part = <<>>
          /\ tls.st = "POST_HANDSHAKE" => plain' = plain \o r.body
          /\ tls.st # "POST_HANDSHAKE" => plain' = plain
      BY <2>5 DEF AppData
    <3> HIDE DEF r
    <3>4. RecordTaken(r)
      BY <3>2, <3>3 DEF RecordTaken
    <3> QED
      BY <2>1, <3>1, <3>2, <3>4 DEF UnitsKept, r
  <2>6. CASE Alert(r) \/ StrayRecord(r)
    <3>1. tls' = [tls EXCEPT !.rec = <<>>, !.dec = Advanced(r)] /\ raw' = Tail(raw)
      BY <2>6 DEF Alert, StrayRecord
    <3>2. /\ tls'.rec = <<>> /\ tls'.dec = Advanced(r) /\ tls'.mess = <<>>
          /\ tls'.part = tls.part
      BY <1>0, <3>1 DEF TlsState
    <3>3. /\ r.ct \in {"app", "alert"} /\ Readable(r) /\ plain' = plain
          /\ r.ct = "app" => tls.part # <<>>
      BY <2>6 DEF Alert, StrayRecord
    <3> HIDE DEF r
    <3>4. RecordTaken(r)
      BY <3>2, <3>3 DEF RecordTaken
    <3> QED
      BY <2>1, <3>1, <3>2, <3>4 DEF UnitsKept, r
  <2>7. CASE HandshakeRecord(r)
    <3>1. tls' = [tls EXCEPT !.rec = <<>>, !.dec = Advanced(r),
                             !.mess = Collected(r.body), !.part = <<>>] /\ raw' = Tail(raw)
      BY <2>7 DEF HandshakeRecord
    <3>2. /\ tls'.rec = <<>> /\ tls'.dec = Advanced(r) /\ tls'.mess = Collected(r.body)
          /\ tls'.part = <<>>
      BY <1>0, <3>1 DEF TlsState
    <3>3. r.ct = "hs" /\ Readable(r) /\ plain' = plain
      BY <2>7 DEF HandshakeRecord
    <3> HIDE DEF r
    <3>4. RecordTaken(r)
      BY <3>2, <3>3 DEF RecordTaken
    <3> QED
      BY <2>1, <3>1, <3>2, <3>4 DEF UnitsKept, r
  <2> QED
    BY <1>4, <2>4, <2>5, <2>6, <2>7 DEF ReadFragment
<1> QED
  BY <1>2, <1>3, <1>4 DEF HandleUnit

\* Units that are kept are as well known as before.
LEMMA KeptKnown ==
    ASSUME TlsTyped, InputTyped, raw # <<>>, UnitsKept, NEW L, Known(L, tls.rec), Known(L, raw)
    PROVE  Known(L, tls'.rec) /\ Known(L, raw')
<1>0. raw \in Seq(Unit) /\ tls.rec \in Seq(Unit) /\ Len(raw) >= 1
  BY TailType DEF TlsTyped, TlsState, InputTyped
<1>1. Known(L, <<>>)
  BY OneMessage DEF Known
<1>2. Tail(raw) = SubSeq(raw, 1 + 1, Len(raw))
  BY <1>0, HeadTailProperties
<1>3. Known(L, Tail(raw))
  <2>1. 1 \in 0..Len(raw)
    BY <1>0
  <2> QED
    BY <1>0, <1>2, <2>1, KnownPart
<1>4. Known(L, <<Head(raw)>>)
  <2>1. 1 \in DOMAIN raw /\ Head(raw) = raw[1]
    BY <1>0
  <2> QED
    BY <2>1, KnownOne DEF Known
<1>5. ASSUME Len(tls.rec) = 1 PROVE Known(L, <<tls.rec[1], Head(raw)>>)
  <2>1. 1 \in DOMAIN tls.rec
    BY <1>0, <1>5
  <2>2. Known(L, <<tls.rec[1]>>)
    BY <2>1, KnownOne DEF Known
  <2> QED
    BY <1>4, <2>2, KnownOne
<1> QED
  BY <1>1, <1>3, <1>4, <1>5 DEF UnitsKept

\* Sequences of control messages are different from each other.
LEMMA Controls ==
    /\ \A a, b \in Contents : <<a>> = <<b>> => a = b
    /\ \A a \in Contents : <<a>> # <<>> /\ Head(<<a>>) = a /\ Tail(<<a>>) = <<>> /\ Len(<<a>>) = 1
    /\ \A q \in ControlBodies :
          \E m \in {"NST", "NST-", "-NST", "KU", "KU_REQUEST"} : q = <<m>> /\ m \in Contents
    /\ ControlBodies \subseteq Seq(Contents)
<1>1. ASSUME NEW a \in Contents, NEW b \in Contents, <<a>> = <<b>> PROVE a = b
  BY <1>1
<1>2. ASSUME NEW a \in Contents
      PROVE  <<a>> # <<>> /\ Head(<<a>>) = a /\ Tail(<<a>>) = <<>> /\ Len(<<a>>) = 1
  OBVIOUS
<1>3. ASSUME NEW q \in ControlBodies
      PROVE  \E m \in {"NST", "NST-", "-NST", "KU", "KU_REQUEST"} : q = <<m>> /\ m \in Contents
  BY DEF ControlBodies, Contents
<1>4. \A a \in Contents : <<a>> \in Seq(Contents)
  BY OneType
<1>5. ControlBodies \subseteq Seq(Contents)
  BY <1>3, <1>4
<1> QED
  BY <1>1, <1>2, <1>3, <1>5

\* The two records of a ticket make one message.
LEMMA TicketCollected ==
    /\ tls.part = <<"NST-">> => Collected(<<"-NST">>) = <<"NST">>
    /\ tls.part = <<>> => \A q \in Seq(Contents) : Collected(q) = q
<1>1. ASSUME tls.part = <<"NST-">> PROVE Collected(<<"-NST">>) = <<"NST">>
  <2> DEFINE d == CHOOSE c \in Cuts : tls.part = <<c[1]>>
  <2> DEFINE n == <<"NST-", "-NST", "NST">>
  <2>1. n \in Cuts /\ tls.part = <<n[1]>> /\ n[2] = "-NST" /\ n[3] = "NST"
    BY <1>1 DEF Cuts
  <2>2. d \in Cuts /\ tls.part = <<d[1]>>
    BY <2>1
  <2>3. d[3] = "NST"
    <3> HIDE DEF d, n
    <3>1. d[1] = "NST-"
      BY <1>1, <2>2 DEF Cuts
    <3> QED
      BY <2>2, <3>1 DEF Cuts
  <2>4. /\ tls.part # <<>> /\ <<"-NST">> # <<>> /\ Head(<<"-NST">>) = "-NST"
        /\ Tail(<<"-NST">>) = <<>>
    BY <1>1
  <2>5. <<d[3]>> \o <<>> = <<"NST">>
    <3>1. <<"NST">> \in Seq(Contents)
      BY OneType DEF Contents
    <3> HIDE DEF d
    <3> QED
      BY <2>3, <3>1, ConcatEmptySeq
  <2>6. \E c \in Cuts : tls.part = <<c[1]>> /\ Head(<<"-NST">>) = c[2]
    <3> HIDE DEF n
    <3> QED
      BY <2>1, <2>4
  <2>7. Collected(<<"-NST">>) = <<d[3]>> \o Tail(<<"-NST">>)
    BY <2>4, <2>6 DEF Collected
  <2> HIDE DEF d
  <2> QED
    BY <2>4, <2>5, <2>7
<1>2. ASSUME tls.part = <<>>, NEW q \in Seq(Contents) PROVE Collected(q) = q
  <2>1. Collected(q) = tls.part \o q
    BY <1>2 DEF Collected
  <2> QED
    BY <1>2, <2>1, ConcatEmptySeq
<1> QED
  BY <1>1, <1>2

\* More bytes of the stream behind those that have come so far.
LEMMA StreamContinues ==
    ASSUME NEW h \in Seq(StreamBytes), NEW b \in Seq(StreamBytes),
           \A k \in 1..Len(h) : h[k] = StreamByte(conn, k),
           \A k \in 1..Len(b) : b[k] = StreamByte(conn, Len(h) + k)
    PROVE  /\ Len(h \o b) = Len(h) + Len(b)
           /\ \A k \in 1..Len(h \o b) : (h \o b)[k] = StreamByte(conn, k)
<1> DEFINE t == h \o b
<1>1. /\ Len(t) = Len(h) + Len(b) /\ Len(h) \in Nat /\ Len(b) \in Nat
      /\ \A k \in 1..Len(h) + Len(b) : t[k] = IF k <= Len(h) THEN h[k] ELSE b[k - Len(h)]
  BY ConcatProperties, LenProperties
<1> HIDE DEF t
<1>2. ASSUME NEW k \in 1..Len(t) PROVE t[k] = StreamByte(conn, k)
  <2>1. CASE k <= Len(h)
    BY <1>1, <2>1
  <2>2. CASE ~(k <= Len(h))
    <3>1. k - Len(h) \in 1..Len(b) /\ Len(h) + (k - Len(h)) = k /\ t[k] = b[k - Len(h)]
      BY <1>1, <2>2
    <3>2. b[k - Len(h)] = StreamByte(conn, Len(h) + (k - Len(h)))
      BY <3>1
    <3> QED
      BY <3>1, <3>2
  <2> QED
    BY <2>1, <2>2
<1> QED
  BY <1>1, <1>2 DEF t

\* The record that the client decrypts is the entry at its place, and takes it
\* to the place behind.
LEMMA SyncTaken ==
    ASSUME Typed, NEW L \in SUBSET Entry, Logged(L), tls.st = "POST_HANDSHAKE",
           tls.mess = <<>>, plain = <<>>, UNCHANGED <<got, rbuf, srv, conn>>,
           Len(tls.rec) = 1, RecordTaken(tls.rec[1].rec)
    PROVE  InSync(L)'
<1> DEFINE r == tls.rec[1].rec
<1>0. /\ tls \in TlsState /\ tls.dec \in [ep : Nat, sq : Nat] /\ tls.dec.ep >= 3
      /\ tls.rec \in Seq(Unit) /\ r \in WireRecord
  <2>1. /\ tls \in TlsState /\ tls.dec \in [ep : Nat, sq : Nat] /\ tls.dec.ep >= 3
        /\ tls.rec \in Seq(Unit)
    BY DEF Typed, TlsTyped, TlsState
  <2>2. tls.rec[1] \in Unit
    BY <2>1
  <2> QED
    BY <2>1, <2>2 DEF Unit
<1>1. /\ InSync(L) /\ LogOk(L, conn, ServerPlace) /\ TicketsWhole(L) /\ Known(L, tls.rec)
      /\ ServerPlace \in Place /\ ServerPlace' = ServerPlace
  BY PlacesTyped DEF Logged, ServerPlace
<1>2. /\ Handed \in Seq(StreamBytes) /\ got \o rbuf \in Seq(StreamBytes)
      /\ Handed = got \o rbuf /\ Len(Handed) \in Nat
  <2>1. Handed \in Seq(StreamBytes) /\ got \o rbuf \in Seq(StreamBytes)
    BY PlacesTyped
  <2>2. Handed = got \o rbuf
    BY <2>1, ConcatEmptySeq DEF Handed
  <2> QED
    BY <2>1, <2>2, LenProperties
<1>3. Readable(r) /\ tls'.dec = Advanced(r)
  BY DEF RecordTaken
<1>4. CASE r.ep = 0
  <2>1. r.ct = "alert" /\ tls'.dec = tls.dec
    BY <1>0, <1>3, <1>4 DEF Readable, Advanced
  <2>2. tls'.mess = tls.mess /\ tls'.part = tls.part /\ plain' = plain
    BY <2>1 DEF RecordTaken
  <2> QED
    BY <1>1, <2>1, <2>2, SyncStays DEF Handed
<1>5. CASE r.ep # 0
  <2>1. r.ep = tls.dec.ep /\ r.sq = tls.dec.sq
    BY <1>3, <1>5 DEF Readable, Decrypts
  <2>2. tls'.dec = [ep |-> r.ep, sq |-> r.sq + 1]
    BY <1>0, <1>3, <1>5, <2>1 DEF Advanced
  <2>3. PICK e \in L : e.rec = r
    <3>1. 1 \in DOMAIN tls.rec
      BY <1>0
    <3> QED
      BY <1>0, <1>1, <2>1, <3>1 DEF Known
  <2>4. e \in Entry /\ e.at \in Nat /\ Marked(L, ServerPlace, Onward(e)) /\ Fits(e, conn)
        /\ (r.ct = "app" => r.body \in Seq(StreamBytes) /\ Len(r.body) \in Nat)
    BY <1>1, <2>3, PlaceType, SizesAssumption DEF LogOk
  <2>5. ClientPlace = [ep |-> r.ep, sq |-> r.sq, at |-> Len(Handed)]
    <3>1. tls.mess # <<"KU">> /\ tls.mess # <<"KU_REQUEST">>
      OBVIOUS
    <3> QED
      BY <2>1, <3>1 DEF ClientPlace
  <2>6. ClientPlace = PlaceOf(e)
    BY <1>1, <2>3, <2>5, SamePlace DEF InSync
  <2>7. e.at = Len(Handed)
    BY <2>5, <2>6 DEF PlaceOf
  <2>8. tls.part # <<>> => r.ct = "hs" /\ r.body = <<"-NST">> /\ tls.part = <<"NST-">>
    <3> SUFFICES ASSUME tls.part # <<>>
                 PROVE  r.ct = "hs" /\ r.body = <<"-NST">> /\ tls.part = <<"NST-">>
      OBVIOUS
    <3>1. Rest(L, r.ep, r.sq) /\ tls.part = <<"NST-">>
      BY <1>1, <2>1 DEF InSync
    <3>2. PICK f \in L : f.rec.ct = "hs" /\ f.rec.ep = r.ep /\ f.rec.sq = r.sq
                         /\ f.rec.body = <<"-NST">>
      BY <3>1 DEF Rest
    <3>3. f = e
      BY <1>1, <2>3, <3>2 DEF LogOk
    <3> QED
      BY <2>3, <3>1, <3>2, <3>3
  <2> HIDE DEF r
  <2>9. CASE r.ct = "app"
    <3>1. tls'.mess = <<>> /\ tls'.part = <<>> /\ plain' = plain \o r.body
      BY <2>8, <2>9 DEF RecordTaken, r
    <3>2. Handed' = Handed \o r.body
      <4>1. plain' = r.body
        BY <2>4, <2>9, <3>1, ConcatEmptySeq
      <4> QED
        BY <1>2, <4>1 DEF Handed
    <3>3. \A k \in 1..Len(r.body) : r.body[k] = StreamByte(conn, Len(Handed) + k)
      BY <2>3, <2>4, <2>7, <2>9 DEF Fits
    <3>4. \A k \in 1..Len(Handed) : Handed[k] = StreamByte(conn, k)
      BY <1>1 DEF InSync
    <3>5. /\ Len(Handed \o r.body) = Len(Handed) + Len(r.body)
          /\ \A k \in 1..Len(Handed \o r.body) : (Handed \o r.body)[k] = StreamByte(conn, k)
      <4>1. r.body \in Seq(StreamBytes)
        BY <2>4, <2>9
      <4> QED
        BY <1>2, <3>3, <3>4, <4>1, StreamContinues
    <3>6. /\ Len(Handed') = Len(Handed) + Len(r.body)
          /\ \A k \in 1..Len(Handed') : Handed'[k] = StreamByte(conn, k)
      BY <3>2, <3>5
    <3>7. ClientPlace' = Onward(e)
      <4>1. tls'.mess # <<"KU">> /\ tls'.mess # <<"KU_REQUEST">>
        BY <3>1
      <4>2. ClientPlace' = [ep |-> r.ep, sq |-> r.sq + 1, at |-> Len(Handed')]
        BY <2>2, <4>1 DEF ClientPlace
      <4>3. ~EndsEpoch(r)
        BY <2>9 DEF EndsEpoch
      <4> QED
        BY <2>3, <2>7, <2>9, <3>6, <4>2, <4>3 DEF Onward
    <3> QED
      BY <1>1, <2>4, <3>1, <3>6, <3>7 DEF InSync
  <2>10. CASE r.ct = "alert"
    <3>1. tls'.mess = <<>> /\ tls'.part = <<>> /\ plain' = plain
      BY <2>8, <2>10 DEF RecordTaken, r
    <3>2. Handed' = Handed
      BY <3>1 DEF Handed
    <3>3. ClientPlace' = Onward(e)
      <4>1. tls'.mess # <<"KU">> /\ tls'.mess # <<"KU_REQUEST">>
        BY <3>1
      <4>2. ClientPlace' = [ep |-> r.ep, sq |-> r.sq + 1, at |-> Len(Handed)]
        BY <2>2, <3>2, <4>1 DEF ClientPlace
      <4>3. ~EndsEpoch(r)
        BY <2>10 DEF EndsEpoch
      <4> QED
        BY <2>3, <2>4, <2>7, <2>10, <4>2, <4>3 DEF Onward
    <3> QED
      BY <1>1, <2>4, <3>1, <3>2, <3>3 DEF InSync
  <2>11. CASE r.ct = "hs"
    <3>1. tls'.mess = Collected(r.body) /\ tls'.part = <<>> /\ plain' = plain
      BY <2>11 DEF RecordTaken, r
    <3>2. Handed' = Handed /\ r.body \in ControlBodies
      BY <2>3, <2>4, <2>11, <3>1 DEF Handed, Fits
    <3>3. CASE tls.part # <<>>
      <4>1. r.body = <<"-NST">> /\ tls'.mess = <<"NST">>
        BY <2>8, <3>1, <3>3, TicketCollected
      <4>2. tls'.mess # <<"KU">> /\ tls'.mess # <<"KU_REQUEST">> /\ tls'.mess # <<"NST-">>
            /\ r.body # <<"KU">> /\ r.body # <<"KU_REQUEST">> /\ tls'.mess \in ControlBodies
        BY <4>1 DEF ControlBodies
      <4>3. ClientPlace' = [ep |-> r.ep, sq |-> r.sq + 1, at |-> Len(Handed)]
        BY <2>2, <3>2, <4>2 DEF ClientPlace
      <4>4. ClientPlace' = Onward(e)
        BY <2>3, <2>4, <2>7, <2>11, <4>2, <4>3 DEF Onward, EndsEpoch
      <4> QED
        BY <1>1, <2>4, <3>1, <3>2, <4>2, <4>4 DEF InSync
    <3>4. CASE tls.part = <<>>
      <4>1. tls'.mess = r.body
        <5>1. r.body \in Seq(Contents)
          BY <3>2, Controls
        <5> QED
          BY <3>1, <3>4, <5>1, TicketCollected
      <4>2. ClientPlace' = Onward(e)
        <5>1. CASE r.body \in {<<"KU">>, <<"KU_REQUEST">>}
          <6>1. ClientPlace' = [ep |-> r.ep + 1, sq |-> 0, at |-> Len(Handed)]
            BY <2>2, <3>2, <4>1, <5>1 DEF ClientPlace
          <6> QED
            BY <2>3, <2>7, <2>11, <5>1, <6>1 DEF Onward, EndsEpoch
        <5>2. CASE r.body \notin {<<"KU">>, <<"KU_REQUEST">>}
          <6>1. ClientPlace' = [ep |-> r.ep, sq |-> r.sq + 1, at |-> Len(Handed)]
            BY <2>2, <3>2, <4>1, <5>2 DEF ClientPlace
          <6> QED
            BY <2>3, <2>4, <2>7, <2>11, <5>2, <6>1 DEF Onward, EndsEpoch
        <5> QED
          BY <5>1, <5>2
      <4>3. tls'.mess = <<"NST-">> => Rest(L, tls'.dec.ep, tls'.dec.sq)
        <5>1. tls'.dec.ep = r.ep /\ tls'.dec.sq = r.sq + 1
          BY <2>2
        <5>2. r.body = <<"NST-">> => Rest(L, r.ep, r.sq + 1)
          BY <1>1, <2>3, <2>11 DEF TicketsWhole
        <5> QED
          BY <4>1, <5>1, <5>2
      <4> QED
        BY <1>1, <2>4, <3>1, <3>2, <4>1, <4>2, <4>3 DEF InSync
    <3> QED
      BY <3>3, <3>4
  <2> QED
    BY <2>9, <2>10, <2>11 DEF RecordTaken, r
<1> QED
  BY <1>4, <1>5

\* A message in hand is handled: a KeyUpdate brings the key that the client's
\* place already counts on.
LEMMA SyncMessage ==
    ASSUME Typed, NEW L \in SUBSET Entry, Logged(L), tls.st = "POST_HANDSHAKE",
           tls.mess # <<>>, UNCHANGED <<got, rbuf, plain, srv, conn>>, HandleMessage
    PROVE  InSync(L)'
<1>0. tls \in TlsState /\ tls.dec \in [ep : Nat, sq : Nat] /\ tls.part = <<>>
  BY DEF Typed, TlsTyped, TlsState
<1>1. InSync(L) /\ ServerPlace' = ServerPlace /\ Handed' = Handed
  BY DEF Logged, ServerPlace, Handed
<1>2. PICK m \in {"NST", "NST-", "-NST", "KU", "KU_REQUEST"} : tls.mess = <<m>> /\ m \in Contents
  BY <1>1, Controls DEF InSync
<1>3. Head(tls.mess) = m /\ Tail(tls.mess) = <<>>
  BY <1>2, Controls
<1>4. ~(tls.st \in HandshakeStates)
  BY DEF HandshakeStates
<1>5. \/ KeepPart(m) \/ client_handle_new_session_ticket(m) \/ handle_key_update(m)
      \/ UnexpectedMessage(m)
  BY <1>3, <1>4
  DEF HandleMessage, client_handle_hello, client_handle_encrypted_extensions,
      client_handle_certificate_request, client_handle_certificate,
      client_handle_certificate_verify, client_handle_finished, HandshakeStates
<1>6. CASE KeepPart(m)
  <2>1. m = "NST-"
    BY <1>2, <1>6 DEF KeepPart, Cuts
  <2>2. tls'.mess = <<>> /\ tls'.part = <<"NST-">> /\ tls'.dec = tls.dec
    BY <1>0, <1>2, <1>6, <2>1 DEF KeepPart, TlsState
  <2>3. Rest(L, tls'.dec.ep, tls'.dec.sq)
    BY <1>1, <1>2, <2>1, <2>2 DEF InSync
  <2>4. tls.mess # <<"KU">> /\ tls.mess # <<"KU_REQUEST">>
        /\ tls'.mess # <<"KU">> /\ tls'.mess # <<"KU_REQUEST">>
    BY <1>2, <2>1, <2>2
  <2>5. ClientPlace' = ClientPlace
    BY <1>1, <2>2, <2>4 DEF ClientPlace
  <2> QED
    BY <1>1, <2>2, <2>3, <2>5 DEF InSync
<1>7. CASE client_handle_new_session_ticket(m) \/ UnexpectedMessage(m)
  <2>1. tls'.mess = <<>> /\ tls'.part = <<>> /\ tls'.dec = tls.dec
    BY <1>0, <1>3, <1>7 DEF client_handle_new_session_ticket, UnexpectedMessage, TlsState
  <2>2. m # "KU" /\ m # "KU_REQUEST"
    BY <1>7 DEF client_handle_new_session_ticket, UnexpectedMessage, Expected
  <2>3. tls.mess # <<"KU">> /\ tls.mess # <<"KU_REQUEST">>
        /\ tls'.mess # <<"KU">> /\ tls'.mess # <<"KU_REQUEST">> /\ tls'.mess # <<"NST-">>
    BY <1>2, <2>1, <2>2
  <2>4. ClientPlace' = ClientPlace
    BY <1>1, <2>1, <2>3 DEF ClientPlace
  <2> QED
    BY <1>1, <2>1, <2>3, <2>4 DEF InSync
<1>8. CASE handle_key_update(m)
  <2>1. m \in {"KU", "KU_REQUEST"}
    BY <1>8 DEF handle_key_update
  <2>2. tls'.mess = <<>> /\ tls'.part = <<>> /\ tls'.dec = [ep |-> tls.dec.ep + 1, sq |-> 0]
    BY <1>0, <1>3, <1>8 DEF handle_key_update, TlsState
  <2>3. tls.mess \in {<<"KU">>, <<"KU_REQUEST">>}
    BY <1>2, <2>1
  <2>4. tls'.mess # <<"KU">> /\ tls'.mess # <<"KU_REQUEST">> /\ tls'.mess # <<"NST-">>
    BY <2>2
  <2>5. ClientPlace' = ClientPlace
    BY <1>1, <2>2, <2>3, <2>4 DEF ClientPlace
  <2> QED
    BY <1>1, <2>2, <2>4, <2>5 DEF InSync
<1> QED
  BY <1>5, <1>6, <1>7, <1>8

\* The handshake comes to its end: the client expects the first record.
LEMMA SyncFinished ==
    ASSUME Typed, NEW L, Logged(L), tls.st \in HandshakeStates, tls.mess # <<>>, HandleMessage,
           got = <<>>, rbuf = <<>>, plain = <<>>, UNCHANGED <<got, rbuf, plain, srv, conn>>,
           tls'.st = "POST_HANDSHAKE"
    PROVE  InSync(L)'
<1>0. tls \in TlsState /\ tls.part = <<>> /\ tls.st # "POST_HANDSHAKE"
  BY DEF Typed, TlsTyped, HandshakeStates
<1>1. client_handle_finished(Head(tls.mess))
  BY <1>0
  DEF HandleMessage, KeepPart, client_handle_hello, client_handle_encrypted_extensions,
      client_handle_certificate_request, client_handle_certificate,
      client_handle_certificate_verify, client_handle_new_session_ticket, handle_key_update,
      UnexpectedMessage, Accept, TlsState, HandshakeStates
<1>2. tls'.mess = <<>> /\ tls'.part = <<>> /\ tls'.dec = [ep |-> 3, sq |-> 0]
  BY <1>0, <1>1 DEF client_handle_finished, TlsState
<1>3. Handed' = <<>>
  <2>1. <<>> \o <<>> = <<>>
    BY Empty, ConcatEmptySeq
  <2> QED
    BY <2>1 DEF Handed
<1>4. ClientPlace' = First
  <2>1. tls'.mess # <<"KU">> /\ tls'.mess # <<"KU_REQUEST">>
    BY <1>2
  <2> QED
    BY <1>2, <1>3, <2>1, Empty DEF ClientPlace, First
<1>5. Marked(L, ServerPlace', ClientPlace')
  BY <1>4 DEF Logged, LogOk, ServerPlace
<1>6. tls'.mess # <<"NST-">> /\ Len(Handed') = 0
  BY <1>2, <1>3
<1> QED
  BY <1>2, <1>5, <1>6 DEF InSync

-----------------------------------------------------------------------------
(* The byte stream: the steps of a session.                                *)

\* A sequence that is cut in two and put together.
LEMMA CutInTwo ==
    ASSUME NEW q \in Seq(StreamBytes), NEW n \in 0..Len(q)
    PROVE  SubSeq(q, 1, n) \o SubSeq(q, n + 1, Len(q)) = q
<1>1. 1 \in 1..Len(q) + 1 /\ n \in 1 - 1..Len(q) /\ Len(q) \in n..Len(q)
  BY LenProperties
<1>2. SubSeq(q, 1, n) \o SubSeq(q, n + 1, Len(q)) = SubSeq(q, 1, Len(q))
  BY <1>1, ConcatAdjacentSubSeq
<1> QED
  BY <1>2, SubSeqFull

\* Bytes that are handed to the caller move from the buffer, or from what was
\* just decrypted, behind those handed out before; the rest is kept.
LEMMA HandedOut ==
    ASSUME SessionInv, Typed, ReceiveBuffered \/ ReceiveDelivers
    PROVE  /\ Handed' = Handed
           /\ \E more \in Seq(StreamBytes) : got' = got \o more
           /\ UNCHANGED <<tls, wire, srv, conn>> /\ raw' \in {raw, <<>>}
           /\ tls.st = "POST_HANDSHAKE" /\ pc \in {"recv_call", "recv_input"}
           /\ pc' \in {"idle", "recv_call"}
<1>0. /\ rbuf \in Seq(StreamBytes) /\ got \in Seq(StreamBytes) /\ plain \in Seq(StreamBytes)
      /\ Len(rbuf) <= PlainCapacity /\ Len(plain) <= PlainCapacity
      /\ Drained /\ CallTyped /\ <<>> \in Seq(StreamBytes)
  BY FitsAssumption, SizesAssumption, Empty DEF Typed, BytesTyped
<1>1. CASE ReceiveBuffered
  <2> DEFINE more == SubSeq(rbuf, 1, Taken(rbuf))
  <2> DEFINE rest == SubSeq(rbuf, Taken(rbuf) + 1, Len(rbuf))
  <2>1. /\ pc = "recv_call" /\ got' = got \o more
        /\ rbuf' = rest /\ Delivered(Taken(rbuf))
        /\ UNCHANGED <<tls, raw, plain, conn, wire, srv>>
    BY <1>1 DEF ReceiveBuffered, ReceiveKeeps, ptlsVars
  <2>2. Taken(rbuf) \in 0..Len(rbuf)
    BY <1>0, TakenIs
  <2>3. /\ more \in Seq(StreamBytes) /\ rest \in Seq(StreamBytes) /\ more \o rest = rbuf
    BY <1>0, <2>2, SubSeqType, CutInTwo
  <2> HIDE DEF more, rest
  <2>4. got' \o rbuf' = got \o rbuf
    <3>1. (got \o more) \o rest = got \o (more \o rest)
      <4>1. /\ got \in Seq(StreamBytes) /\ more \in Seq(StreamBytes)
            /\ rest \in Seq(StreamBytes)
        BY <1>0, <2>3
      <4> QED
        BY <4>1, ConcatAssociative
    <3> QED
      BY <2>1, <2>3, <3>1
  <2>5. tls.st = "POST_HANDSHAKE"
    BY <2>1 DEF SessionInv, Stages
  <2>6. pc' \in {"idle", "recv_call"}
    BY <2>1 DEF Delivered, Return
  <2> QED
    BY <2>1, <2>3, <2>4, <2>5, <2>6 DEF Handed
<1>2. CASE ReceiveDelivers
  <2> DEFINE take == Taken(plain)
  <2> DEFINE more == SubSeq(plain, 1, take)
  <2> DEFINE rest == SubSeq(plain, take + 1, Len(plain))
  <2>1. /\ pc = "recv_input" /\ got' = got \o more
        /\ rbuf' = IF Len(rbuf) + Len(rest) <= PlainCapacity THEN rbuf \o rest ELSE rbuf
        /\ Delivered(take) /\ raw' = <<>> /\ plain' = <<>>
        /\ UNCHANGED <<tls, conn, wire, srv>>
    BY <1>2 DEF ReceiveDelivers, ReceiveKeeps
  <2>2. take \in 0..Len(plain)
    BY <1>0, TakenIs
  <2> HIDE DEF take
  <2>3. /\ more \in Seq(StreamBytes) /\ rest \in Seq(StreamBytes) /\ more \o rest = plain
        /\ Len(rest) = Len(plain) - take
    BY <1>0, <2>2, SubSeqType, CutInTwo
  <2> HIDE DEF more, rest
  <2>4. rbuf = <<>> /\ Len(rbuf) = 0
    BY <1>0, <2>1, Empty DEF Drained
  <2>5. Len(rbuf) + Len(rest) <= PlainCapacity
    BY <1>0, <2>2, <2>3, <2>4, SizesAssumption
  <2>6. rbuf' = rest
    <3>1. rbuf' = <<>> \o rest
      BY <2>1, <2>4, <2>5
    <3> QED
      BY <2>3, <3>1, ConcatEmptySeq
  <2>7. Handed = got \o plain
    BY <1>0, <2>4, ConcatEmptySeq DEF Handed
  <2>8. Handed' = got \o plain
    <3>1. got \o more \in Seq(StreamBytes) /\ (got \o more) \o rest \in Seq(StreamBytes)
      BY <1>0, <2>3, ConcatProperties
    <3>2. Handed' = ((got \o more) \o rest) \o <<>>
      BY <2>1, <2>6 DEF Handed
    <3>3. Handed' = (got \o more) \o rest
      BY <3>1, <3>2, ConcatEmptySeq
    <3>4. (got \o more) \o rest = got \o (more \o rest)
      <4>1. /\ got \in Seq(StreamBytes) /\ more \in Seq(StreamBytes)
            /\ rest \in Seq(StreamBytes)
        BY <1>0, <2>3
      <4> QED
        BY <4>1, ConcatAssociative
    <3> QED
      BY <2>3, <3>3, <3>4
  <2>9. tls.st = "POST_HANDSHAKE"
    BY <2>1 DEF SessionInv, Stages
  <2>10. pc' \in {"idle", "recv_call"}
    BY <2>1 DEF Delivered, Return
  <2> QED
    BY <2>1, <2>3, <2>7, <2>8, <2>9, <2>10
<1> QED
  BY <1>1, <1>2

\* A step that leaves the connection alone, or drops what is left of a read.
LEMMA StreamKeeps ==
    ASSUME InStream, UNCHANGED <<wire, srv, conn>>, raw' \in {raw, <<>>}, Handed' = Handed,
           tls'.rec = tls.rec, tls'.st = tls.st, tls'.dec = tls.dec, tls'.mess = tls.mess,
           tls'.part = tls.part
    PROVE  InStream'
<1>1. PICK L \in SUBSET Entry : Logged(L)
  BY DEF InStream
<1>2. Known(L, <<>>)
  BY OneMessage DEF Known
<1>3. (tls'.st # "NULL" => Known(L, tls'.rec)) /\ Known(L, raw') /\ Known(L, wire')
  BY <1>1, <1>2 DEF Logged
<1>4. tls'.st = "POST_HANDSHAKE" => InSync(L)'
  BY <1>1, SyncStays DEF Logged
<1> QED
  BY <1>1, <1>3, <1>4, StreamStays

\* tls_close ends the stream.
LEMMA StreamClosed ==
    ASSUME NEW ms, NEW held, tls_close(ms, held)
    PROVE  InStream'
<1>1. tls' = NoTls /\ raw' = <<>> /\ wire' = <<>> /\ srv' = NoServer
  BY DEF tls_close, FreshTls, Hangup
<1> QED
  BY <1>1, NewTls, NewServer, StreamFresh

\* A connection starts with an empty stream.
LEMMA StreamConnect ==
    ASSUME SessionInv, Typed, InStream, Connect \/ ConnectNew \/ ConnectName
    PROVE  InStream'
<1>0. Drained
  BY DEF Typed
<1>1. CASE Connect
  <2>1. /\ pc = "idle" /\ ~tls_is_connected /\ wire' = <<>> /\ UNCHANGED <<tls, raw>>
        /\ srv' = [NoServer EXCEPT !.phase = "wait_hello"]
    BY <1>1 DEF Connect, ptlsVars
  <2>2. tls.st = "NULL" /\ raw = <<>>
    BY <1>0, <2>1 DEF SessionInv, Stages, Together, Connecting, tls_is_connected, Drained
  <2> QED
    BY <2>1, <2>2, NewServer, StreamFresh
<1>2. CASE Hangup /\ FreshTls(NoTls, "OK")
  BY <1>2, NewTls, NewServer, StreamFresh DEF FreshTls, Hangup
<1>3. CASE ConnectNew
  <2>1. CASE FreshTls(NewClient, "OK") /\ UNCHANGED <<conn, wire, srv>>
    <3>1. PICK L \in SUBSET Entry : Logged(L)
      BY DEF InStream
    <3>2. Known(L, <<>>)
      BY OneMessage DEF Known
    <3>3. /\ tls'.st = "HANDSHAKE_START" /\ tls'.rec = <<>> /\ raw' = <<>>
      BY <2>1, NewTls DEF FreshTls
    <3>4. (tls'.st # "NULL" => Known(L, tls'.rec)) /\ Known(L, raw') /\ Known(L, wire')
      BY <2>1, <3>1, <3>2, <3>3 DEF Logged
    <3> QED
      BY <2>1, <3>1, <3>3, <3>4, StreamStays
  <2>2. CASE Hangup /\ UNCHANGED ptlsVars
    <3>1. tls' = tls /\ raw' = raw /\ tls.st = "NULL" /\ raw = <<>>
      BY <1>0, <1>3, <2>2 DEF ConnectNew, SessionInv, Stages, Drained, ptlsVars
    <3> QED
      BY <2>2, <3>1, NewServer, StreamFresh DEF Hangup
  <2> QED
    BY <1>3, <2>1, <2>2 DEF ConnectNew
<1>4. CASE ConnectName
  <2>1. CASE UNCHANGED <<ptlsVars, wire, srv>> /\ rbuf' = <<>>
    <3>1. rbuf = <<>> /\ UNCHANGED <<got, conn>>
      BY <1>0, <1>4 DEF ConnectName, SessionInv, Stages, Drained
    <3> QED
      BY <2>1, <3>1, StreamKeeps DEF Handed, ptlsVars
  <2> QED
    BY <1>2, <1>4, <2>1 DEF ConnectName
<1> QED
  BY <1>1, <1>3, <1>4

\* A TCP read moves units from the wire to the input.
LEMMA StreamRead ==
    ASSUME Typed, InStream, NEW n \in 1..RawCapacity, ReadSome(n), Handed' = Handed,
           UNCHANGED <<srv, conn>>
    PROVE  InStream'
<1>1. PICK L \in SUBSET Entry : Logged(L)
  BY DEF InStream
<1>2. /\ tls'.st = tls.st /\ tls'.mess = tls.mess /\ tls'.part = tls.part
      /\ tls'.dec = tls.dec /\ tls'.rec = tls.rec
  BY TypedRead DEF Typed, PeerTyped
<1>3. /\ n \in 0..Len(wire) /\ raw' = SubSeq(wire, 1, n) /\ wire' = SubSeq(wire, n + 1, Len(wire))
      /\ wire \in Seq(Unit)
  BY SizesAssumption DEF ReadSome, Typed, PeerTyped
<1>4. Known(L, raw') /\ Known(L, wire') /\ (tls'.st # "NULL" => Known(L, tls'.rec))
  <2>1. Known(L, wire)
    BY <1>1 DEF Logged
  <2> QED
    BY <1>1, <1>2, <1>3, <2>1, KnownPart DEF Logged
<1>5. tls'.st = "POST_HANDSHAKE" => InSync(L)'
  BY <1>1, <1>2, SyncStays DEF Logged
<1> QED
  BY <1>1, <1>4, <1>5, StreamStays

\* Messages are taken from the record in hand, not from the input.
LEMMA MessageKeepsUnits ==
    ASSUME TlsTyped, HandleMessage
    PROVE  tls'.rec = tls.rec /\ raw' = raw /\ plain' = plain
<1>0. tls \in TlsState
  BY DEF TlsTyped
<1> QED
  BY <1>0
  DEF HandleMessage, KeepPart, client_handle_hello, client_handle_encrypted_extensions,
      client_handle_certificate_request, client_handle_certificate,
      client_handle_certificate_verify, client_handle_finished,
      client_handle_new_session_ticket, handle_key_update, UnexpectedMessage, Accept, TlsState

\* One iteration of a picotls loop.
LEMMA StreamInput ==
    ASSUME Typed, InStream, handle_input, UNCHANGED <<got, rbuf, wire, srv, conn>>,
           tls.mess = <<>> => plain = <<>>,
           tls.st # "POST_HANDSHAKE" => tls.st \in HandshakeStates /\ plain = <<>>,
           tls.st # "POST_HANDSHAKE" => got = <<>> /\ rbuf = <<>>
    PROVE  InStream'
<1>0. TlsTyped /\ InputTyped
  BY DEF Typed
<1>1. PICK L \in SUBSET Entry : Logged(L)
  BY DEF InStream
<1>2. Known(L, tls.rec) /\ Known(L, raw) /\ Known(L, wire)
  BY <1>1 DEF Logged, HandshakeStates
<1>3. CASE tls.mess # <<>>
  <2>1. HandleMessage
    BY <1>3 DEF handle_input
  <2>2. tls'.rec = tls.rec /\ raw' = raw /\ plain' = plain
    BY <1>0, <2>1, MessageKeepsUnits
  <2>3. ASSUME tls'.st = "POST_HANDSHAKE" PROVE InSync(L)'
    <3>1. CASE tls.st = "POST_HANDSHAKE"
      BY <1>1, <1>3, <2>1, <2>2, <3>1, SyncMessage
    <3>2. CASE tls.st # "POST_HANDSHAKE"
      BY <1>1, <1>3, <2>1, <2>2, <2>3, <3>2, SyncFinished
    <3> QED
      BY <3>1, <3>2
  <2> QED
    BY <1>1, <1>2, <2>2, <2>3, StreamStays
<1>4. CASE tls.mess = <<>>
  <2>1. raw # <<>> /\ HandleUnit /\ plain = <<>>
    BY <1>4 DEF handle_input
  <2>2. UnitsKept /\ (RecordLeft \/ (Len(tls.rec) = 1 /\ RecordTaken(tls.rec[1].rec)))
    BY <1>0, <1>4, <2>1, UnitSteps
  <2>3. Known(L, tls'.rec) /\ Known(L, raw')
    BY <1>0, <1>2, <2>1, <2>2, KeptKnown
  <2>4. tls'.st = tls.st
    BY <1>0, <2>1, SaysNothing
  <2>5. ASSUME tls'.st = "POST_HANDSHAKE" PROVE InSync(L)'
    <3>1. InSync(L) /\ tls.st = "POST_HANDSHAKE"
      BY <1>1, <2>4, <2>5 DEF Logged
    <3>2. CASE RecordLeft
      BY <3>1, <3>2, SyncStays DEF RecordLeft, Handed
    <3>3. CASE Len(tls.rec) = 1 /\ RecordTaken(tls.rec[1].rec)
      BY <1>1, <1>4, <2>1, <3>1, <3>3, SyncTaken
    <3> QED
      BY <2>2, <3>2, <3>3
  <2> QED
    BY <1>1, <1>2, <2>3, <2>5, StreamStays
<1> QED
  BY <1>3, <1>4

LEMMA StreamCalls ==
    ASSUME SessionInv, Typed, InStream, Calls
    PROVE  InStream'
<1>0. tls \in TlsState
  BY DEF Typed, TlsTyped
<1>1. CASE ConnectRefused
  BY <1>1, StreamKeeps DEF ConnectRefused, ptlsVars, Handed
<1>2. CASE Connect
  BY <1>2, StreamConnect
<1>3. CASE Send \/ SendFails
  <2>1. /\ UNCHANGED <<raw, plain, rbuf, got, conn, wire, srv>>
        /\ tls' = tls \/ tls' = [tls EXCEPT !.wantKU = FALSE]
    BY <1>3 DEF Send, SendFails, SendKeeps
  <2>2. /\ tls'.rec = tls.rec /\ tls'.st = tls.st /\ tls'.dec = tls.dec /\ tls'.mess = tls.mess
        /\ tls'.part = tls.part
    BY <1>0, <2>1 DEF TlsState
  <2> QED
    BY <2>1, <2>2, StreamKeeps DEF Handed
<1>4. CASE Close
  BY <1>4, StreamClosed DEF Close
<1>5. ASSUME NEW a \in Args, ReceiveCall(a) PROVE InStream'
  BY <1>5, StreamKeeps DEF ReceiveCall, ReceiveKeeps, ptlsVars, Handed
<1> QED
  BY <1>1, <1>2, <1>3, <1>4, <1>5 DEF Calls

LEMMA StreamRunning ==
    ASSUME SessionInv, Typed, InStream, Running
    PROVE  InStream'
<1>0. Drained
  BY DEF Typed
<1>1. ASSUME NEW n \in 1..RawCapacity, HandshakeRead(n) PROVE InStream'
  BY <1>1, StreamRead DEF HandshakeRead, Handed
<1>2. ASSUME NEW n \in 1..RawCapacity, ReceiveRead(n) PROVE InStream'
  <2>1. ReadSome(n) /\ UNCHANGED <<rbuf, got, srv, conn>> /\ plain' = <<>> /\ pc = "recv"
    BY <1>2 DEF ReceiveRead, ReceiveKeeps
  <2>2. plain' = plain
    BY <1>0, <2>1 DEF Drained
  <2> QED
    BY <2>1, <2>2, StreamRead DEF Handed
<1>3. CASE HandshakeInput
  <2>1. /\ pc = "hs_input" /\ handle_input /\ HandshakeGoesOn
        /\ UNCHANGED <<got, rbuf, wire, srv, conn>>
    BY <1>3 DEF HandshakeInput, clientVars
  <2>2. plain = <<>> /\ got = <<>> /\ rbuf = <<>>
    BY <1>0, <2>1 DEF Drained
  <2>3. tls.st # "POST_HANDSHAKE" => tls.st \in HandshakeStates
    BY <2>1 DEF SessionInv, Stages, Underway, Complete
  <2> QED
    BY <2>1, <2>2, <2>3, StreamInput
<1>4. CASE HandshakeContinues \/ HandshakeCompletes
  <2>1. /\ UNCHANGED <<tls, plain, rbuf, got, conn, wire, srv>> /\ raw' \in {raw, <<>>}
    BY <1>4 DEF HandshakeContinues, HandshakeCompletes
  <2> QED
    BY <2>1, StreamKeeps DEF Handed
<1>5. CASE HandshakeFails \/ HandshakeAborts
  BY <1>5, StreamClosed DEF HandshakeFails, HandshakeAborts
<1>6. CASE ReceiveInput
  <2>1. /\ pc = "recv_input" /\ handle_input /\ ReceiveGoesOn
        /\ UNCHANGED <<got, rbuf, wire, srv, conn>>
    BY <1>6 DEF ReceiveInput
  <2>2. tls.st = "POST_HANDSHAKE"
    BY <2>1 DEF SessionInv, Stages
  <2>3. tls.mess = <<>> => plain = <<>>
    BY <2>1 DEF ReceiveGoesOn
  <2> QED
    BY <2>1, <2>2, <2>3, StreamInput
<1>7. CASE ReceiveBuffered \/ ReceiveDelivers
  BY <1>7, HandedOut, StreamKeeps
<1>8. CASE ReceiveReadsOn \/ ReceiveFails
  <2>1. UNCHANGED <<tls, plain, rbuf, got, conn, wire, srv>> /\ raw' = <<>>
    BY <1>8 DEF ReceiveReadsOn, ReceiveFails, ReceiveKeeps
  <2> QED
    BY <2>1, StreamKeeps DEF Handed
<1>9. CASE ReceiveAllocates \/ ReceiveDisconnected \/ ReceiveTimesOut
  <2>1. UNCHANGED <<tls, raw, plain, rbuf, got, conn, wire, srv>>
    BY <1>9 DEF ReceiveAllocates, ReceiveDisconnected, ReceiveTimesOut, ReceiveKeeps, ptlsVars
  <2> QED
    BY <2>1, StreamKeeps DEF Handed
<1>10. CASE ConnectBuffer \/ HandshakeStarts
  <2>1. CASE \E held : tls_close(<<>>, held)
    BY <2>1, StreamClosed
  <2>2. CASE UNCHANGED ptlsVars /\ UNCHANGED <<rbuf, got, conn, wire, srv>>
    BY <2>2, StreamKeeps DEF ptlsVars, Handed
  <2>3. CASE /\ HandshakeStarts /\ tls' = [tls EXCEPT !.st = "EXPECT_SERVER_HELLO"]
             /\ UNCHANGED <<raw, plain, rbuf, got, conn, wire, srv>>
    <3>1. tls.st = "HANDSHAKE_START" /\ tls \in TlsState
      BY <2>3 DEF HandshakeStarts, SessionInv, Stages, Typed, TlsTyped
    <3>2. tls'.st = "EXPECT_SERVER_HELLO" /\ tls'.rec = tls.rec
      BY <2>3, <3>1 DEF TlsState
    <3>3. PICK L \in SUBSET Entry : Logged(L)
      BY DEF InStream
    <3>4. (tls'.st # "NULL" => Known(L, tls'.rec)) /\ Known(L, raw') /\ Known(L, wire')
      BY <2>3, <3>1, <3>2, <3>3 DEF Logged
    <3> QED
      BY <2>3, <3>2, <3>3, <3>4, StreamStays
  <2> QED
    BY <1>10, <2>1, <2>2, <2>3 DEF ConnectBuffer, HandshakeStarts
<1> QED
  BY <1>1, <1>2, <1>3, <1>4, <1>5, <1>6, <1>7, <1>8, <1>9, <1>10, StreamConnect DEF Running

LEMMA StepStream == SessionInv /\ Typed /\ InStream /\ [Next]_vars => InStream'
<1> SUFFICES ASSUME SessionInv, Typed, InStream, [Next]_vars PROVE InStream'
  OBVIOUS
<1>1. CASE UNCHANGED vars
  BY <1>1, StreamKeeps DEF vars, ptlsVars, clientVars, Handed
<1> QED
  BY <1>1, StreamEnvironment, StreamCalls, StreamRunning DEF Next

LEMMA StreamInvariant == Spec => [](SessionInv /\ Typed /\ Conversation /\ Served /\ InStream)
<1>1. Init => InStream
  <2> SUFFICES ASSUME Init PROVE InStream
    OBVIOUS
  <2>1. ServerPlace = First
    BY NewServer DEF Init, ServerPlace, First
  <2>2. /\ tls = NoTls /\ tls.st = "NULL" /\ raw = <<>> /\ wire = <<>>
    BY NewTls DEF Init
  <2>3. Logged({})
    BY <2>1, <2>2, EmptyLog DEF Logged
  <2> QED
    BY <2>3 DEF InStream
<1>2. SessionInv /\ Typed /\ InStream /\ [Next]_vars => InStream'
  BY StepStream
<1> QED
  BY <1>1, <1>2, TalkInvariant, PTL DEF Spec

\* What has come out of picotls is a prefix of what the server has sent.
LEMMA HandedIsPrefix ==
    ASSUME Typed, InStream, tls.st = "POST_HANDSHAKE"
    PROVE  /\ Handed \in Seq(StreamBytes) /\ Len(Handed) <= srv.bytes /\ srv.bytes \in Nat
           /\ \A k \in 1..Len(Handed) : Handed[k] = StreamByte(conn, k)
<1>1. PICK L \in SUBSET Entry : Logged(L)
  BY DEF InStream
<1>2. InSync(L) /\ LogOk(L, conn, ServerPlace) /\ ServerPlace \in Place
      /\ Handed \in Seq(StreamBytes)
  BY <1>1, PlacesTyped DEF Logged
<1>3. ClientPlace.at <= ServerPlace.at
  BY <1>2, MarkedBytes DEF InSync
<1>4. ClientPlace.at = Len(Handed) /\ ServerPlace.at = srv.bytes /\ srv.bytes \in Nat
  BY DEF ClientPlace, ServerPlace, Typed, PeerTyped, ServerState
<1> QED
  BY <1>2, <1>3, <1>4 DEF InSync

\* A sequence that begins like the stream is a prefix of it.
LEMMA BeginsStream ==
    ASSUME NEW q \in Seq(StreamBytes), srv.bytes \in Nat, Len(q) <= srv.bytes,
           \A k \in 1..Len(q) : q[k] = StreamByte(conn, k)
    PROVE  q = SubSeq(Stream, 1, Len(q))
<1>1. Len(q) \in Nat
  BY LenProperties
<1>2. \A k \in 1..srv.bytes : Stream[k] = StreamByte(conn, k)
  BY DEF Stream
<1>3. \A k \in 1..Len(q) : Stream[k] = q[k] /\ q[k] \in StreamBytes
  BY <1>1, <1>2
<1> DEFINE t == SubSeq(Stream, 1, Len(q))
<1>4. t \in Seq(StreamBytes) /\ Len(t) = Len(q) /\ \A k \in 1..Len(q) : t[k] = Stream[k]
  <2>1. \A k \in 1..Len(q) : Stream[k] \in StreamBytes
    BY <1>3
  <2>2. /\ SubSeq(Stream, 1, Len(q)) \in Seq(StreamBytes)
        /\ Len(SubSeq(Stream, 1, Len(q))) = IF 1 <= Len(q) THEN Len(q) - 1 + 1 ELSE 0
        /\ \A i \in 1..Len(q) - 1 + 1 : SubSeq(Stream, 1, Len(q))[i] = Stream[1 + i - 1]
    BY <1>1, <2>1, SubSeqProperties
  <2> QED
    BY <1>1, <2>2
<1> HIDE DEF t
<1>5. q = t
  BY <1>3, <1>4, SeqEqual
<1> QED
  BY <1>5 DEF t

\* Whatever way TCP cuts the records, whatever control records come in between
\* and whatever part of a read is dropped: what tls_recv has handed out and
\* what waits in g_rbuf is what the server sent, from its first byte on.
THEOREM BytesInOrder == Spec => []InOrder
<1>1. Typed /\ InStream => InOrder
  <2> SUFFICES ASSUME Typed, InStream, tls.st = "POST_HANDSHAKE"
               PROVE  /\ Len(got \o rbuf) <= srv.bytes
                      /\ got \o rbuf = SubSeq(Stream, 1, Len(got \o rbuf))
    BY DEF InOrder
  <2>1. /\ Len(Handed) <= srv.bytes /\ srv.bytes \in Nat
        /\ \A k \in 1..Len(Handed) : Handed[k] = StreamByte(conn, k)
    BY HandedIsPrefix
  <2> DEFINE q == got \o rbuf
  <2>2. q \in Seq(StreamBytes) /\ plain \in Seq(StreamBytes) /\ Handed = q \o plain
    BY PlacesTyped DEF Handed, Typed, BytesTyped
  <2> HIDE DEF q
  <2>3. /\ Len(Handed) = Len(q) + Len(plain) /\ Len(q) \in Nat /\ Len(plain) \in Nat
        /\ \A k \in 1..Len(q) : Handed[k] = q[k]
    BY <2>2, ConcatProperties, LenProperties
  <2>4. Len(q) <= srv.bytes /\ \A k \in 1..Len(q) : q[k] = StreamByte(conn, k)
    BY <2>1, <2>3
  <2>5. q = SubSeq(Stream, 1, Len(q))
    BY <2>1, <2>2, <2>4, BeginsStream
  <2> QED
    BY <2>4, <2>5 DEF q
<1> QED
  BY <1>1, StreamInvariant, PTL

-----------------------------------------------------------------------------
(* The byte stream: TlsChannel.                                            *)

\* The channel keeps its state.
LEMMA ChannelStutters ==
    ASSUME OpenNow' = OpenNow, OpenNow => got' = got /\ srv'.bytes = srv.bytes /\ conn' = conn
    PROVE  UNCHANGED Channel!vars
<1>1. OpenNow => Stream' = Stream
  BY DEF Stream
<1> QED
  BY <1>1 DEF OpenNow, Channel!vars

\* The streams of two states of a connection.
LEMMA StreamGrows ==
    ASSUME NEW m \in Nat, NEW n \in Nat, NEW c \in Nat
    PROVE  LET s == [k \in 1..m |-> StreamByte(c, k)]
               t == [k \in 1..m + n |-> StreamByte(c, k)]
           IN  Len(s) = m /\ Len(t) = m + n /\ s = SubSeq(t, 1, m)
<1> DEFINE s == [k \in 1..m |-> StreamByte(c, k)]
<1> DEFINE t == [k \in 1..m + n |-> StreamByte(c, k)]
<1>1. s \in [1..m -> StreamBytes] /\ t \in [1..m + n -> StreamBytes]
  BY StreamByteType
<1>2. s \in Seq(StreamBytes) /\ Len(s) = m /\ t \in Seq(StreamBytes) /\ Len(t) = m + n
  BY <1>1
<1>3. \A k \in 1..m : s[k] = t[k]
  OBVIOUS
<1> HIDE DEF s, t
<1>4. SubSeq(t, 1, m) \in Seq(StreamBytes) /\ Len(SubSeq(t, 1, m)) = m
      /\ \A k \in 1..m : SubSeq(t, 1, m)[k] = t[k]
  BY <1>2
<1>5. s = SubSeq(t, 1, m)
  BY <1>2, <1>3, <1>4, SeqEqual
<1> QED
  BY <1>2, <1>5 DEF s, t

\* What the caller gets is behind what it had, and of the stream.
LEMMA ChannelDelivers ==
    ASSUME SessionInv, Typed, InStream, ReceiveBuffered \/ ReceiveDelivers
    PROVE  Channel!Deliver
<1>1. /\ Handed' = Handed /\ UNCHANGED <<tls, srv, conn>> /\ tls.st = "POST_HANDSHAKE"
      /\ pc # "hs_input" /\ pc' # "hs_input"
  BY HandedOut
<1>2. PICK more \in Seq(StreamBytes) : got' = got \o more
  BY HandedOut
<1>3. /\ Len(Handed) <= srv.bytes /\ srv.bytes \in Nat
      /\ \A k \in 1..Len(Handed) : Handed[k] = StreamByte(conn, k)
  BY <1>1, HandedIsPrefix
<1>4. got \in Seq(StreamBytes) /\ Typed'
  <2>1. CASE ReceiveBuffered
    BY <2>1, TypedBuffered DEF Typed, BytesTyped
  <2>2. CASE ReceiveDelivers
    BY <2>2, TypedReceive DEF Typed, BytesTyped
  <2> QED
    BY <2>1, <2>2
<1>5. /\ got' \in Seq(StreamBytes) /\ rbuf' \in Seq(StreamBytes) /\ plain' \in Seq(StreamBytes)
  BY <1>4 DEF Typed, BytesTyped
<1>6. Channel!IsPrefix(got, got')
  <2>1. /\ Len(got \o more) = Len(got) + Len(more) /\ Len(got) \in Nat /\ Len(more) \in Nat
        /\ got \o more \in Seq(StreamBytes)
        /\ \A i \in 1..Len(got) : (got \o more)[i] = got[i]
    BY <1>4, ConcatProperties, LenProperties
  <2> DEFINE t == SubSeq(got \o more, 1, Len(got))
  <2>2. t \in Seq(StreamBytes) /\ Len(t) = Len(got) /\ \A i \in 1..Len(got) : t[i] = got[i]
    <3>1. t \in Seq(StreamBytes) /\ Len(t) = Len(got)
      BY <2>1, SubSeqType
    <3>2. \A i \in 1..Len(got) : t[i] = (got \o more)[i]
      BY <2>1
    <3> QED
      BY <2>1, <3>1, <3>2
  <2> HIDE DEF t
  <2>3. got = t
    BY <1>4, <2>2, SeqEqual
  <2> QED
    BY <1>2, <2>1, <2>3 DEF Channel!IsPrefix, t
<1>7. Channel!IsPrefix(got', Stream)
  <2> DEFINE q == got' \o rbuf'
  <2>1. /\ q \in Seq(StreamBytes) /\ Len(q) = Len(got') + Len(rbuf')
        /\ Len(got') \in Nat /\ Len(rbuf') \in Nat
        /\ \A k \in 1..Len(got') : q[k] = got'[k]
    BY <1>5, ConcatProperties, LenProperties
  <2>2. Handed = q \o plain'
    BY <1>1 DEF Handed
  <2> HIDE DEF q
  <2>3. /\ Len(q \o plain') = Len(q) + Len(plain') /\ Len(plain') \in Nat /\ Len(q) \in Nat
        /\ \A k \in 1..Len(q) : (q \o plain')[k] = q[k]
    <3>1. q \in Seq(StreamBytes) /\ plain' \in Seq(StreamBytes)
      BY <1>5, <2>1
    <3>2. Len(plain') \in Nat /\ Len(q) \in Nat
      BY <3>1
    <3> DEFINE p == plain'
    <3> HIDE DEF p
    <3>3. p \in Seq(StreamBytes) /\ Len(p) \in Nat
      BY <3>1, <3>2 DEF p
    <3>4. /\ Len(q \o p) = Len(q) + Len(p)
          /\ \A k \in 1..Len(q) + Len(p) : (q \o p)[k] = IF k <= Len(q) THEN q[k] ELSE p[k - Len(q)]
      BY <3>1, <3>3, ConcatProperties
    <3>5. \A k \in 1..Len(q) : (q \o p)[k] = q[k]
      BY <3>2, <3>3, <3>4
    <3> QED
      BY <3>2, <3>4, <3>5 DEF p
  <2>4. Len(got') <= srv.bytes /\ \A k \in 1..Len(got') : got'[k] = StreamByte(conn, k)
    <3>1. Len(Handed) = Len(q) + Len(plain')
      BY <2>2, <2>3
    <3>2. Len(got') <= Len(q) /\ Len(q) <= Len(Handed)
      BY <2>1, <2>3, <3>1
    <3>3. ASSUME NEW k \in 1..Len(got') PROVE got'[k] = StreamByte(conn, k)
      <4>1. k \in 1..Len(q) /\ k \in 1..Len(Handed)
        BY <1>3, <2>1, <2>3, <3>1, <3>2
      <4>2. Handed[k] = q[k] /\ q[k] = got'[k]
        BY <2>1, <2>2, <2>3, <4>1
      <4> QED
        BY <1>3, <4>1, <4>2
    <3> QED
      BY <1>3, <2>1, <2>3, <3>1, <3>2, <3>3
  <2>5. got' = SubSeq(Stream, 1, Len(got'))
    BY <1>3, <1>5, <2>4, BeginsStream
  <2>6. Len(Stream) = srv.bytes
    BY <1>3 DEF Stream
  <2> QED
    BY <2>4, <2>5, <2>6 DEF Channel!IsPrefix
<1>8. Stream' = Stream
  BY <1>1 DEF Stream
<1> QED
  BY <1>1, <1>6, <1>7, <1>8 DEF Channel!Deliver

\* What the server sends on an open session makes the stream longer.
LEMMA ChannelEnvironment ==
    ASSUME Typed, Environment
    PROVE  Channel!PeerSends \/ UNCHANGED Channel!vars
<1>0. srv \in ServerState /\ srv.bytes \in Nat /\ conn \in Nat
  BY SizesAssumption DEF Typed, PeerTyped, CallTyped, ServerState
<1>1. UNCHANGED <<tls, pc, got, conn>>
  BY EnvironmentLeaves DEF ServerKeeps, ptlsVars, clientVars
<1>2. OpenNow' = OpenNow
  BY <1>1 DEF OpenNow
<1>3. ASSUME NEW n \in 1..MaxRecord, ServerApp(n)
      PROVE  Channel!PeerSends \/ UNCHANGED Channel!vars
  <2>1. srv'.bytes = srv.bytes + n /\ n \in Nat /\ n # 0
    BY <1>0, <1>3, SizesAssumption DEF ServerApp, ServerState
  <2>2. CASE OpenNow
    <3>1. Len(Stream) = srv.bytes /\ Len(Stream') = srv.bytes + n
          /\ Stream = SubSeq(Stream', 1, srv.bytes)
      BY <1>0, <1>1, <2>1, StreamGrows DEF Stream
    <3>2. Channel!IsPrefix(Stream, Stream') /\ Stream # Stream'
      BY <1>0, <2>1, <3>1 DEF Channel!IsPrefix
    <3> QED
      BY <1>1, <1>2, <2>2, <3>2 DEF Channel!PeerSends, OpenNow
  <2>3. CASE ~OpenNow
    BY <1>2, <2>3, ChannelStutters
  <2> QED
    BY <2>2, <2>3
<1>4. ASSUME ~\E n \in 1..MaxRecord : ServerApp(n)
      PROVE  srv'.bytes = srv.bytes
  BY <1>0, <1>4
  DEF Environment, ServerFlight, ServerEstablished, ServerTicket, ServerCloses, NetFin, NetReset,
      ServerKeyUpdate, ServerState
<1> QED
  BY <1>1, <1>2, <1>3, <1>4, ChannelStutters

LEMMA ChannelCalls ==
    ASSUME SessionInv, Typed, InStream, Calls
    PROVE  Channel!Close \/ UNCHANGED Channel!vars
<1>0. tls \in TlsState
  BY DEF Typed, TlsTyped
<1>1. CASE ConnectRefused \/ \E a \in Args : ReceiveCall(a)
  <2>1. /\ pc = "idle" /\ pc' \in {"idle", "recv_call"} /\ UNCHANGED <<tls, got, conn, srv>>
    BY <1>1 DEF ConnectRefused, ReceiveCall, ReceiveKeeps, Return, ptlsVars
  <2> QED
    BY <2>1, ChannelStutters DEF OpenNow
<1>2. CASE Connect
  <2>1. ~tls_is_connected /\ tls' = tls /\ pc = "idle"
    BY <1>2 DEF Connect, ptlsVars
  <2>2. tls.st = "NULL"
    BY <2>1 DEF tls_is_connected, SessionInv, Stages, Together, Connecting
  <2> QED
    BY <2>1, <2>2, ChannelStutters DEF OpenNow
<1>3. CASE Send \/ SendFails
  <2>1. /\ UNCHANGED <<got, conn, srv>> /\ pc = "idle" /\ pc' = "idle"
        /\ tls' = tls \/ tls' = [tls EXCEPT !.wantKU = FALSE]
    BY <1>3 DEF Send, SendFails, SendKeeps, Return
  <2>2. tls'.st = tls.st
    BY <1>0, <2>1 DEF TlsState
  <2> QED
    BY <2>1, <2>2, ChannelStutters DEF OpenNow
<1>4. CASE Close
  <2>1. pc = "idle" /\ tls_is_connected /\ tls' = NoTls
    BY <1>4 DEF Close, tls_close, FreshTls
  <2>2. OpenNow /\ ~OpenNow'
    BY <2>1, NewTls DEF SessionInv, Stages, tls_is_connected, OpenNow
  <2> QED
    BY <2>2 DEF Channel!Close, OpenNow
<1> QED
  BY <1>1, <1>2, <1>3, <1>4 DEF Calls

LEMMA ChannelRunning ==
    ASSUME SessionInv, Typed, Served, InStream, Running
    PROVE  Channel!Open \/ Channel!Deliver \/ UNCHANGED Channel!vars
<1>0. TlsTyped /\ wire \in Seq(Unit) /\ Drained /\ srv.bytes \in Nat
  BY DEF Typed, PeerTyped, ServerState
<1>1. ASSUME NEW n \in 1..RawCapacity, HandshakeRead(n) \/ ReceiveRead(n)
      PROVE  UNCHANGED Channel!vars
  <2>1. /\ ReadSome(n) /\ UNCHANGED <<got, conn, srv>> /\ pc \in {"hs_recv", "recv"}
        /\ pc = "hs_recv" => tls.st # "POST_HANDSHAKE"
        /\ pc = "recv" => pc' = "recv_input"
    BY <1>1 DEF HandshakeRead, ReceiveRead, ReceiveKeeps, SessionInv, Stages, HandshakeStates
  <2>2. tls'.st = tls.st
    BY <1>0, <2>1, TypedRead
  <2> QED
    BY <2>1, <2>2, ChannelStutters DEF OpenNow
<1>2. CASE HandshakeInput
  BY <1>2, ChannelStutters DEF HandshakeInput, clientVars, OpenNow
<1>3. CASE HandshakeContinues
  <2>1. pc = "hs_input" /\ UNCHANGED <<tls, got, conn, srv>> /\ tls.st # "POST_HANDSHAKE"
    BY <1>3 DEF HandshakeContinues, SessionInv, Stages, Underway, Complete, HandshakeStates
  <2> QED
    BY <2>1, ChannelStutters DEF OpenNow
<1>4. CASE HandshakeCompletes
  <2>1. /\ pc = "hs_input" /\ pc' = "idle" /\ UNCHANGED <<tls, got, srv, conn>>
        /\ tls.st = "POST_HANDSHAKE"
    BY <1>4 DEF HandshakeCompletes, Return, SessionInv, Stages, Underway, Complete
  <2>2. got' = <<>> /\ srv'.bytes = 0
    BY <1>0, <2>1 DEF Drained, Served, OpenNow
  <2>3. Stream' = <<>>
    BY <2>2 DEF Stream
  <2>4. ~OpenNow /\ OpenNow'
    BY <2>1 DEF OpenNow
  <2> QED
    BY <2>2, <2>3, <2>4 DEF Channel!Open, OpenNow
<1>5. CASE HandshakeFails \/ HandshakeAborts
  <2>1. tls' = NoTls /\ pc \in {"hs_input", "hs_recv"}
    BY <1>5 DEF HandshakeFails, HandshakeAborts, tls_close, FreshTls
  <2>2. ~OpenNow /\ ~OpenNow'
    BY <2>1, NewTls DEF OpenNow, SessionInv, Stages, HandshakeStates
  <2>3. OpenNow' = OpenNow
    BY <2>2, Zenon DEF OpenNow
  <2> QED
    BY <2>2, <2>3, ChannelStutters, Zenon
<1>6. CASE ReceiveInput
  <2>1. /\ pc = "recv_input" /\ handle_input /\ tls.st = "POST_HANDSHAKE"
        /\ UNCHANGED <<pc, got, conn, srv>>
    BY <1>6 DEF ReceiveInput, SessionInv, Stages
  <2>2. tls'.st = tls.st
    BY <1>0, <2>1, SaysNothing DEF handle_input
  <2> QED
    BY <2>1, <2>2, ChannelStutters DEF OpenNow
<1>7. CASE ReceiveBuffered \/ ReceiveDelivers
  BY <1>7, ChannelDelivers
<1>8. CASE ReceiveReadsOn \/ ReceiveFails
  <2>1. /\ pc = "recv_input" /\ pc' \in {"recv", "idle"} /\ UNCHANGED <<tls, got, conn, srv>>
    BY <1>8 DEF ReceiveReadsOn, ReceiveFails, ReceiveKeeps, Return
  <2> QED
    BY <2>1, ChannelStutters DEF OpenNow
<1>9. CASE ReceiveDisconnected \/ ReceiveTimesOut
  <2>1. /\ pc = "recv" /\ pc' = "idle" /\ UNCHANGED <<tls, got, conn, srv>>
    BY <1>9 DEF ReceiveDisconnected, ReceiveTimesOut, ReceiveKeeps, Return, ptlsVars
  <2> QED
    BY <2>1, ChannelStutters DEF OpenNow
<1>10. CASE ReceiveAllocates
  <2>1. /\ pc = "recv_call" /\ pc' \in {"recv", "idle"} /\ UNCHANGED <<tls, got, conn, srv>>
    BY <1>10 DEF ReceiveAllocates, ReceiveKeeps, Return, ptlsVars
  <2> QED
    BY <2>1, ChannelStutters DEF OpenNow
<1>11. CASE ConnectNew \/ ConnectName \/ ConnectBuffer \/ HandshakeStarts
  <2>1. tls.st # "POST_HANDSHAKE"
    BY <1>11 DEF ConnectNew, ConnectName, ConnectBuffer, HandshakeStarts, SessionInv, Stages
  <2>2. tls'.st # "POST_HANDSHAKE"
    <3>1. \A ms, held : tls_close(ms, held) => tls' = NoTls
      BY DEF tls_close, FreshTls
    <3>2. tls' \in {tls, NoTls, NewClient, [tls EXCEPT !.st = "EXPECT_SERVER_HELLO"]}
      BY <1>11, <3>1
      DEF ConnectNew, ConnectName, ConnectBuffer, HandshakeStarts, FreshTls, ptlsVars
    <3> QED
      BY <1>0, <2>1, <3>2, NewTls DEF TlsTyped, TlsState
  <2> QED
    BY <2>1, <2>2, ChannelStutters, Zenon DEF OpenNow
<1> QED
  BY <1>1, <1>2, <1>3, <1>4, <1>5, <1>6, <1>7, <1>8, <1>9, <1>10, <1>11 DEF Running

\* tls_session_t is a byte stream: it opens with nothing sent, the caller gets
\* a growing prefix of what the peer has sent, and closing it ends it.
THEOREM SessionImplementsChannel == Spec => ImplementsChannel
<1>1. Init => Channel!Init
  BY NewTls DEF Init, Channel!Init
<1>2. SessionInv /\ Typed /\ Served /\ InStream /\ [Next]_vars => [Channel!Next]_Channel!vars
  <2> SUFFICES ASSUME SessionInv, Typed, Served, InStream, [Next]_vars
               PROVE  Channel!Next \/ UNCHANGED Channel!vars
    OBVIOUS
  <2>1. CASE UNCHANGED vars
    BY <2>1, ChannelStutters DEF vars, ptlsVars, clientVars, OpenNow
  <2> QED
    BY <2>1, ChannelEnvironment, ChannelCalls, ChannelRunning DEF Next, Channel!Next
<1> QED
  BY <1>1, <1>2, StreamInvariant, PTL DEF Spec, ImplementsChannel, Channel!Spec

-----------------------------------------------------------------------------
(* A server that keeps to the protocol.                                   *)

\* A record that the client passes over, a HelloRetryRequest, and a record with
\* part of the flight behind it.
Skipped(r)  == r.ct = "ccs" /\ r.ep = 0
IsHrr(r)    == r.ct = "hs" /\ r.ep = 0 /\ r.body = <<"HRR">>
OfFlight(r) == r.ct = "hs" /\ r.body # <<"HRR">>

\* Messages, or parts of them, that may share a record.
Chained(q) == \A i \in 1..Len(q) - 1 : <<q[i], q[i + 1]>> \in InRecord

HelloParts == {"SH", "SH-", "-SH"}
Carrying(r) ==
    /\ OfFlight(r) /\ r.body # <<>> /\ Chained(r.body)
    /\ r.ep = IF r.body[1] \in HelloParts THEN 0 ELSE 2

\* What may come behind message y, or at the start of the flight.
Follow(y) == {z \in Contents : <<y, z>> \in OverRecords}
                \cup (IF y = "start" THEN {"SH", "SH-"} ELSE {})

\* The message that the rest of one completes.
Whole(m) == IF m = "-SH" THEN "SH" ELSE IF m = "-CERT" THEN "CERT" ELSE m

\* y is the last message, or part of one, in the first k records of G.
Latest(G, k, y) ==
    \/ y = "start" /\ \A i \in 1..k : ~OfFlight(G[i])
    \/ \E i \in 1..k : /\ OfFlight(G[i]) /\ y = Whole(LastIn(G[i]))
                       /\ \A h \in i + 1..k : ~OfFlight(G[h])

\* How many of the first k records of G are protected.
Protected(G, k) == Cardinality({i \in 1..k : G[i].ep = 2})

\* The records G carry a whole flight, numbered; the client has read k of them.
WholeBehind(G, k) ==
    /\ \A i \in k + 1..Len(G) : Skipped(G[i]) \/ Carrying(G[i])
    /\ Len(G) >= 1 /\ OfFlight(G[Len(G)]) /\ LastIn(G[Len(G)]) = "FIN"
    /\ \A j \in 1..Len(G) : OfFlight(G[j]) =>
          \E y \in Contents \cup {"start"} : Latest(G, j - 1, y) /\ G[j].body[1] \in Follow(y)
    /\ \A j \in 1..Len(G) : G[j].ep = 2 => G[j].sq = Protected(G, j - 1)

\* The messages, or first parts of them, that the client waits for.
Takes ==
    CASE tls.st \in {"EXPECT_SERVER_HELLO", "EXPECT_SECOND_SERVER_HELLO"} -> {"SH", "SH-"}
      [] tls.st = "EXPECT_ENCRYPTED_EXTENSIONS" -> {"EE"}
      [] tls.st = "EXPECT_CERTIFICATE_REQUEST_OR_CERTIFICATE" -> {"CR", "CERT", "CERT-"}
      [] tls.st = "EXPECT_CERTIFICATE" -> {"CERT", "CERT-"}
      [] tls.st = "EXPECT_CERTIFICATE_VERIFY" -> {"CV"}
      [] OTHER -> {"FIN"}

\* Nothing is in hand, and what follows y is what the client waits for; or the
\* messages in hand are that, and y is the last of them.
Ready(y) ==
    /\ tls.mess = <<>> /\ y # "FIN"
    /\ \/ tls.part = <<>> /\ Follow(y) \subseteq Takes
       \/ tls.part = <<y>> /\ y \in {"SH-", "CERT-"} /\ y \in Takes
InHand(y) ==
    /\ tls.mess # <<>> /\ tls.mess[1] \in Takes
    /\ Chained(tls.mess) /\ y = tls.mess[Len(tls.mess)]

\* There is a key from ServerHello on.
Keyed == IF tls.st \in {"EXPECT_SERVER_HELLO", "EXPECT_SECOND_SERVER_HELLO"}
         THEN tls.dec = NoKey ELSE tls.dec.ep = 2
NextNumber == IF tls.dec.ep = 2 THEN tls.dec.sq ELSE 0

\* The units that the client has not handled are those of G behind the first k
\* records, as far as these go.
Pending == tls.rec \o (raw \o wire)
Ahead(G, k) ==
    /\ \A i \in 1..Len(Pending) : i <= 2 * (Len(G) - k) => Pending[i] = Units(G)[2 * k + i]
    /\ net = "up" => Len(Pending) >= 2 * (Len(G) - k)

\* Behind ClientHellos that are answered with nothing or with a retry.
HelloBehind(G, k) ==
    LET retry == \E i \in k + 1..Len(G) : IsHrr(G[i]) IN
    /\ \A i \in 1..Len(G) : Skipped(G[i]) \/ IsHrr(G[i])
    /\ \A i, j \in k + 1..Len(G) : IsHrr(G[i]) /\ IsHrr(G[j]) => i = j
    /\ tls.st \in {"EXPECT_SERVER_HELLO", "EXPECT_SECOND_SERVER_HELLO"} /\ tls.part = <<>>
    /\ tls.mess = <<>> \/ (tls.mess = <<"HRR">> /\ ~retry)
    /\ Len(Pending) <= 2 * (Len(G) - k)
    /\ Len(c2s) + Len(sendbuf) = srv.hellos + (IF tls.mess # <<>> \/ retry THEN 0 ELSE 1)

\* Behind the flight.
FlightBehind(G, k) ==
    /\ WholeBehind(G, k) /\ NextNumber = Protected(G, k)
    /\ \E y \in Contents \cup {"start"} : Latest(G, k, y) /\ (Ready(y) \/ InHand(y))

Reads(G, k) ==
    /\ res = "IN_PROGRESS" /\ Len(tls.rec) <= 1 /\ Keyed /\ Ahead(G, k)
    /\ \/ srv.phase = "wait_hello" /\ HelloBehind(G, k)
       \/ srv.phase = "wait_finished" /\ FlightBehind(G, k)

\* A handshake with a server that keeps to the protocol.
Courteous == srv.honest /\ pc \in {"hs_recv", "hs_input"} /\ tls.st \in HandshakeStates

\* The inductive invariant: as long as the handshake goes on, what the client has
\* not handled is the rest of records that it will take.
NotRefusedYet ==
    Courteous => \E G \in Seq(FlightRecord) : \E k \in 0..Len(G) : Reads(G, k)

\* Until the first ClientHello nothing has been said, by either side.
Unsaid ==
    Starting =>
        /\ wire = <<>> /\ srv.phase = "wait_hello" /\ srv.hellos = 0
        /\ pc # "connect_new" => tls = NewClient

\* What follows what.
LEMMA FollowIs ==
    /\ Follow("start") = {"SH", "SH-"} /\ Follow("SH-") = {"-SH"}
    /\ Follow("SH") = {"EE"} /\ Follow("EE") = {"CR", "CERT", "CERT-"}
    /\ Follow("CR") = {"CERT", "CERT-"} /\ Follow("CERT-") = {"-CERT"}
    /\ Follow("CERT") = {"CV"} /\ Follow("CV") = {"FIN"}
  BY DEF Follow, OverRecords, InRecord, Contents

LEMMA InRecordIs ==
    ASSUME NEW a, NEW b, <<a, b>> \in InRecord
    PROVE  /\ a \in {"EE", "CR", "CERT", "-CERT", "CV"}
           /\ b \in {"CR", "CERT", "CERT-", "CV", "FIN"}
           /\ b \in Follow(Whole(a)) /\ <<Whole(a), b>> \in InRecord
           /\ b = "FIN" => a = "CV"
  BY DEF InRecord, Follow, OverRecords, Whole, Contents

\* One record more is protected, or not.
LEMMA ProtectedNext ==
    ASSUME NEW G, NEW k \in Nat
    PROVE  /\ Protected(G, 0) = 0 /\ Protected(G, k) \in Nat
           /\ Protected(G, k + 1) = Protected(G, k) + (IF G[k + 1].ep = 2 THEN 1 ELSE 0)
<1> DEFINE P(n) == {i \in 1..n : G[i].ep = 2}
<1>1. ASSUME NEW n \in Nat PROVE IsFiniteSet(P(n)) /\ Cardinality(P(n)) \in Nat
  <2>1. IsFiniteSet(1..n)
    BY FS_Interval
  <2>2. IsFiniteSet(P(n))
    BY <2>1, FS_Subset
  <2> QED
    BY <2>2, FS_CardinalityType
<1>2. P(0) = {}
  OBVIOUS
<1>3. P(k + 1) = IF G[k + 1].ep = 2 THEN P(k) \cup {k + 1} ELSE P(k)
  OBVIOUS
<1>4. k + 1 \notin P(k)
  OBVIOUS
<1>7. \A n \in Nat : Protected(G, n) = Cardinality(P(n))
  BY DEF Protected
<1> HIDE DEF P
<1>5. Cardinality(P(k) \cup {k + 1}) = Cardinality(P(k)) + 1
  BY <1>1, <1>4, FS_AddElement
<1>6. Cardinality(P(0)) = 0
  BY <1>2, FS_EmptySet
<1> QED
  BY <1>1, <1>3, <1>5, <1>6, <1>7

\* Protected looks at the first k records only.
LEMMA ProtectedSame ==
    ASSUME NEW G, NEW H, NEW k \in Nat, \A i \in 1..k : H[i].ep = G[i].ep
    PROVE  Protected(H, k) = Protected(G, k)
<1>1. {i \in 1..k : H[i].ep = 2} = {i \in 1..k : G[i].ep = 2}
  OBVIOUS
<1> QED
  BY <1>1 DEF Protected

\* Behind n records of which none is protected, it counts from there.
LEMMA ProtectedBehind ==
    ASSUME NEW G, NEW H, NEW n \in Nat, NEW k \in Nat,
           \A i \in 1..n : H[i].ep # 2, \A i \in 1..k : H[n + i].ep = G[i].ep
    PROVE  Protected(H, n + k) = Protected(G, k)
<1> DEFINE S == {i \in 1..k : G[i].ep = 2}
<1> DEFINE T == {i \in 1..n + k : H[i].ep = 2}
<1> DEFINE f == [i \in S |-> n + i]
<1>1. IsFiniteSet(1..k)
  BY FS_Interval
<1>2. IsFiniteSet(S)
  BY <1>1, FS_Subset
<1>3. f \in Injection(S, T) /\ f \in Surjection(S, T)
  <2>1. ASSUME NEW i \in S PROVE n + i \in T
    OBVIOUS
  <2>2. ASSUME NEW i \in S, NEW j \in S, f[i] = f[j] PROVE i = j
    BY <2>2
  <2>3. ASSUME NEW t \in T PROVE \E i \in S : f[i] = t
    <3>1. t \in 1..n + k /\ H[t].ep = 2 /\ t > n
      OBVIOUS
    <3>2. t - n \in 1..k /\ H[n + (t - n)].ep = 2
      BY <3>1
    <3>3. t - n \in S
      BY <3>2
    <3> QED
      BY <3>3
  <2> QED
    BY <2>1, <2>2, <2>3 DEF Injection, Surjection, IsInjective
<1>4. IsFiniteSet(T)
  <2>1. IsFiniteSet(1..n + k)
    BY FS_Interval
  <2> QED
    BY <2>1, FS_Subset
<1> HIDE DEF S, T, f
<1>5. Cardinality(S) = Cardinality(T)
  BY <1>3, <1>4, FS_Injection
<1> QED
  BY <1>5 DEF Protected, S, T

\* The units of each record.
LEMMA UnitsAre ==
    ASSUME NEW G, Len(G) \in Nat
    PROVE  /\ Len(Units(G)) = 2 * Len(G)
           /\ \A j \in 1..Len(G) : /\ Units(G)[2 * j - 1] = [rec |-> G[j], part |-> 1]
                                   /\ Units(G)[2 * j] = [rec |-> G[j], part |-> 2]
<1>1. Len(Units(G)) = 2 * Len(G)
  BY DEF Units
<1>2. ASSUME NEW j \in 1..Len(G)
      PROVE  /\ 2 * j - 1 \in 1..2 * Len(G) /\ 2 * j \in 1..2 * Len(G)
             /\ ((2 * j - 1) + 1) \div 2 = j /\ (2 * j + 1) \div 2 = j
             /\ (2 * j - 1) % 2 = 1 /\ (2 * j) % 2 = 0
  BY SMT
<1>3. ASSUME NEW j \in 1..Len(G)
      PROVE  /\ Units(G)[2 * j - 1] = [rec |-> G[j], part |-> 1]
             /\ Units(G)[2 * j] = [rec |-> G[j], part |-> 2]
  BY <1>2 DEF Units
<1> QED
  BY <1>1, <1>3

\* The units of records on both sides of a cut.
LEMMA UnitsOfBoth ==
    ASSUME NEW G \in Seq(FlightRecord), NEW F \in Seq(FlightRecord)
    PROVE  /\ G \o F \in Seq(FlightRecord) /\ Len(G \o F) = Len(G) + Len(F)
           /\ \A i \in 1..Len(G) : (G \o F)[i] = G[i]
           /\ \A i \in 1..Len(F) : (G \o F)[Len(G) + i] = F[i]
           /\ \A i \in 1..2 * Len(G) : Units(G \o F)[i] = Units(G)[i]
           /\ \A i \in 1..2 * Len(F) : Units(G \o F)[2 * Len(G) + i] = Units(F)[i]
<1> DEFINE H == G \o F
<1>1. /\ H \in Seq(FlightRecord) /\ Len(H) = Len(G) + Len(F)
      /\ \A i \in 1..Len(G) : H[i] = G[i]
      /\ \A i \in 1..Len(F) : H[Len(G) + i] = F[i]
      /\ Len(G) \in Nat /\ Len(F) \in Nat
  BY ConcatProperties, LenProperties
<1> HIDE DEF H
<1>2. ASSUME NEW i \in 1..2 * Len(G) PROVE Units(H)[i] = Units(G)[i]
  <2>1. (i + 1) \div 2 \in 1..Len(G) /\ i \in 1..2 * Len(H)
    BY <1>1, SMT
  <2>2. H[(i + 1) \div 2] = G[(i + 1) \div 2]
    BY <1>1, <2>1
  <2> QED
    BY <2>1, <2>2 DEF Units
<1>3. ASSUME NEW i \in 1..2 * Len(F) PROVE Units(H)[2 * Len(G) + i] = Units(F)[i]
  <2>1. /\ (i + 1) \div 2 \in 1..Len(F) /\ 2 * Len(G) + i \in 1..2 * Len(H)
    BY <1>1, SMT
  <2>3. ASSUME NEW n \in Nat, NEW m \in Nat
        PROVE  ((2 * n + m) + 1) \div 2 = n + ((m + 1) \div 2) /\ (2 * n + m) % 2 = m % 2
    BY SMT
  <2>4. /\ ((2 * Len(G) + i) + 1) \div 2 = Len(G) + ((i + 1) \div 2)
        /\ (2 * Len(G) + i) % 2 = i % 2
    <3>1. i \in Nat /\ Len(G) \in Nat
      BY <1>1
    <3> QED
      BY <2>3, <3>1, Zenon
  <2>2. H[Len(G) + ((i + 1) \div 2)] = F[(i + 1) \div 2]
    BY <1>1, <2>1
  <2> QED
    BY <2>1, <2>2, <2>4 DEF Units
<1> QED
  BY <1>1, <1>2, <1>3 DEF H

\* Three sequences in a row, element by element.
LEMMA ThreeInRow ==
    ASSUME NEW a \in Seq(Unit), NEW b \in Seq(Unit), NEW c \in Seq(Unit),
           NEW p, p = a \o (b \o c)
    PROVE  /\ p \in Seq(Unit) /\ Len(p) = Len(a) + Len(b) + Len(c)
           /\ \A i \in 1..Len(a) : p[i] = a[i]
           /\ \A i \in 1..Len(b) : p[Len(a) + i] = b[i]
           /\ \A i \in 1..Len(c) : p[Len(a) + Len(b) + i] = c[i]
<1>1. Len(a) \in Nat /\ Len(b) \in Nat /\ Len(c) \in Nat
  BY LenProperties
<1> DEFINE q == b \o c
<1>2. /\ q \in Seq(Unit) /\ Len(q) = Len(b) + Len(c)
      /\ \A i \in 1..Len(b) : q[i] = b[i]
      /\ \A i \in 1..Len(c) : q[Len(b) + i] = c[i]
  BY ConcatProperties
<1>3. p = a \o q
  OBVIOUS
<1> HIDE DEF q
<1>4. /\ p \in Seq(Unit) /\ Len(p) = Len(a) + Len(q)
      /\ \A i \in 1..Len(a) : p[i] = a[i]
      /\ \A i \in 1..Len(q) : p[Len(a) + i] = q[i]
  <2>1. q \in Seq(Unit)
    BY <1>2
  <2> QED
    BY <1>3, <2>1, ConcatProperties
<1>5. ASSUME NEW i \in 1..Len(b) PROVE p[Len(a) + i] = b[i]
  <2>1. i \in 1..Len(q)
    BY <1>1, <1>2
  <2> QED
    BY <1>2, <1>4, <2>1
<1>6. ASSUME NEW i \in 1..Len(c) PROVE p[Len(a) + Len(b) + i] = c[i]
  <2>1. Len(b) + i \in 1..Len(q) /\ Len(a) + Len(b) + i = Len(a) + (Len(b) + i)
    BY <1>1, <1>2
  <2> QED
    BY <1>2, <1>4, <2>1
<1>7. Len(p) = Len(a) + Len(b) + Len(c)
  BY <1>1, <1>2, <1>4
<1> QED
  BY <1>4, <1>5, <1>6, <1>7

\* The sequences that make up what is pending are sequences of units.
UnitsTyped == tls.rec \in Seq(Unit) /\ raw \in Seq(Unit) /\ wire \in Seq(Unit)

LEMMA PendingIs ==
    ASSUME UnitsTyped
    PROVE  /\ Pending \in Seq(Unit) /\ Len(Pending) = Len(tls.rec) + Len(raw) + Len(wire)
           /\ Len(tls.rec) \in Nat /\ Len(raw) \in Nat /\ Len(wire) \in Nat
           /\ \A i \in 1..Len(tls.rec) : Pending[i] = tls.rec[i]
           /\ \A i \in 1..Len(raw) : Pending[Len(tls.rec) + i] = raw[i]
           /\ \A i \in 1..Len(wire) : Pending[Len(tls.rec) + Len(raw) + i] = wire[i]
<1>1. tls.rec \in Seq(Unit) /\ raw \in Seq(Unit) /\ wire \in Seq(Unit)
  BY DEF UnitsTyped
<1>2. Pending = tls.rec \o (raw \o wire)
  BY Zenon DEF Pending
<1>3. Len(tls.rec) \in Nat /\ Len(raw) \in Nat /\ Len(wire) \in Nat
  BY <1>1, LenProperties
<1>5. \A p : p = tls.rec \o (raw \o wire) =>
        /\ p \in Seq(Unit) /\ Len(p) = Len(tls.rec) + Len(raw) + Len(wire)
        /\ \A i \in 1..Len(tls.rec) : p[i] = tls.rec[i]
        /\ \A i \in 1..Len(raw) : p[Len(tls.rec) + i] = raw[i]
        /\ \A i \in 1..Len(wire) : p[Len(tls.rec) + Len(raw) + i] = wire[i]
  BY <1>1, ThreeInRow
<1>4. /\ Pending \in Seq(Unit) /\ Len(Pending) = Len(tls.rec) + Len(raw) + Len(wire)
      /\ \A i \in 1..Len(tls.rec) : Pending[i] = tls.rec[i]
      /\ \A i \in 1..Len(raw) : Pending[Len(tls.rec) + i] = raw[i]
      /\ \A i \in 1..Len(wire) : Pending[Len(tls.rec) + Len(raw) + i] = wire[i]
  BY <1>2, <1>5, Zenon
<1> QED
  BY <1>3, <1>4

LEMMA PendingIsNext ==
    ASSUME UnitsTyped'
    PROVE  /\ Pending' \in Seq(Unit) /\ Len(Pending') = Len(tls'.rec) + Len(raw') + Len(wire')
           /\ Len(tls'.rec) \in Nat /\ Len(raw') \in Nat /\ Len(wire') \in Nat
           /\ \A i \in 1..Len(tls'.rec) : Pending'[i] = tls'.rec[i]
           /\ \A i \in 1..Len(raw') : Pending'[Len(tls'.rec) + i] = raw'[i]
           /\ \A i \in 1..Len(wire') : Pending'[Len(tls'.rec) + Len(raw') + i] = wire'[i]
<1>1. tls'.rec \in Seq(Unit) /\ raw' \in Seq(Unit) /\ wire' \in Seq(Unit)
  BY DEF UnitsTyped
<1>2. Pending' = tls'.rec \o (raw' \o wire')
  BY Zenon DEF Pending
<1>3. Len(tls'.rec) \in Nat /\ Len(raw') \in Nat /\ Len(wire') \in Nat
  BY <1>1, LenProperties
<1>5. \A p : p = tls'.rec \o (raw' \o wire') =>
        /\ p \in Seq(Unit) /\ Len(p) = Len(tls'.rec) + Len(raw') + Len(wire')
        /\ \A i \in 1..Len(tls'.rec) : p[i] = tls'.rec[i]
        /\ \A i \in 1..Len(raw') : p[Len(tls'.rec) + i] = raw'[i]
        /\ \A i \in 1..Len(wire') : p[Len(tls'.rec) + Len(raw') + i] = wire'[i]
  BY <1>1, ThreeInRow
<1>4. /\ Pending' \in Seq(Unit) /\ Len(Pending') = Len(tls'.rec) + Len(raw') + Len(wire')
      /\ \A i \in 1..Len(tls'.rec) : Pending'[i] = tls'.rec[i]
      /\ \A i \in 1..Len(raw') : Pending'[Len(tls'.rec) + i] = raw'[i]
      /\ \A i \in 1..Len(wire') : Pending'[Len(tls'.rec) + Len(raw') + i] = wire'[i]
  BY <1>2, <1>5, Zenon
<1> QED
  BY <1>3, <1>4

LEMMA TypedUnits == Typed => UnitsTyped
  BY DEF Typed, TlsTyped, TlsState, InputTyped, PeerTyped, UnitsTyped

\* What is pending moves on by d units.
MovesOn(d) == /\ Len(Pending') = Len(Pending) - d
              /\ \A i \in 1..Len(Pending') : Pending'[i] = Pending[i + d]

\* A header that is kept moves nothing.
LEMMA HeaderKept ==
    ASSUME UnitsTyped, UnitsTyped', raw # <<>>, tls.rec = <<>>, tls'.rec = <<Head(raw)>>,
           raw' = Tail(raw), wire' = wire
    PROVE  MovesOn(0)
<1>1. /\ Len(Pending) = Len(raw) + Len(wire)
      /\ \A i \in 1..Len(raw) : Pending[i] = raw[i]
      /\ \A i \in 1..Len(wire) : Pending[Len(raw) + i] = wire[i]
      /\ Len(raw) \in Nat /\ Len(wire) \in Nat
  <2> DEFINE c == Len(tls.rec)
  <2>1. c = 0
    OBVIOUS
  <2>2. /\ Len(Pending) = c + Len(raw) + Len(wire)
        /\ \A i \in 1..Len(raw) : Pending[c + i] = raw[i]
        /\ \A i \in 1..Len(wire) : Pending[c + Len(raw) + i] = wire[i]
        /\ Len(raw) \in Nat /\ Len(wire) \in Nat
    BY PendingIs
  <2> HIDE DEF c
  <2>3. \A i \in 1..Len(raw) : c + i = i
    BY <2>1, <2>2
  <2>4. c + Len(raw) = Len(raw)
    BY <2>1, <2>2
  <2> QED
    BY <2>1, <2>2, <2>3, <2>4
<1>2. raw \in Seq(Unit) /\ Len(raw) >= 1 /\ Len(raw') = Len(raw) - 1
  BY TailType DEF UnitsTyped
<1>3. \A i \in 1..Len(raw') : raw'[i] = raw[i + 1]
  BY <1>2
<1>4. Len(tls'.rec) = 1 /\ tls'.rec[1] = raw[1]
  BY <1>2
<1>5. /\ Len(Pending') = 1 + Len(raw') + Len(wire)
      /\ Pending'[1] = raw[1]
      /\ \A i \in 1..Len(raw') : Pending'[1 + i] = raw'[i]
      /\ \A i \in 1..Len(wire) : Pending'[1 + Len(raw') + i] = wire[i]
  BY <1>4, PendingIsNext
<1>6. ASSUME NEW i \in 1..Len(Pending') PROVE Pending'[i] = Pending[i]
  <2>1. CASE i = 1
    BY <1>1, <1>2, <1>5, <2>1
  <2>2. CASE i \in 2..Len(raw)
    <3>1. i - 1 \in 1..Len(raw') /\ 1 + (i - 1) = i /\ (i - 1) + 1 = i
      BY <1>1, <1>2, <2>2
    <3>2. Pending'[i] = raw'[i - 1] /\ raw'[i - 1] = raw[i]
      BY <1>3, <1>5, <3>1
    <3> QED
      BY <1>1, <1>2, <2>2, <3>2
  <2>3. CASE i > Len(raw)
    <3>1. i - Len(raw) \in 1..Len(wire) /\ 1 + Len(raw') + (i - Len(raw)) = i
          /\ Len(raw) + (i - Len(raw)) = i
      BY <1>1, <1>2, <1>5, <2>3
    <3> QED
      BY <1>1, <1>5, <3>1
  <2> QED
    BY <1>1, <2>1, <2>2, <2>3
<1>7. Len(Pending') = Len(Pending) /\ Len(Pending') \in Nat
  BY <1>1, <1>2, <1>5
<1> QED
  BY <1>6, <1>7 DEF MovesOn

\* The fragment behind it moves both.
LEMMA RecordGone ==
    ASSUME UnitsTyped, UnitsTyped', raw # <<>>, Len(tls.rec) = 1, tls'.rec = <<>>,
           raw' = Tail(raw), wire' = wire
    PROVE  MovesOn(2)
<1>1. /\ Len(Pending) = 1 + Len(raw) + Len(wire)
      /\ \A i \in 1..Len(raw) : Pending[1 + i] = raw[i]
      /\ \A i \in 1..Len(wire) : Pending[1 + Len(raw) + i] = wire[i]
      /\ Len(raw) \in Nat /\ Len(wire) \in Nat
  BY PendingIs
<1>2. raw \in Seq(Unit) /\ Len(raw) >= 1 /\ Len(raw') = Len(raw) - 1
  BY TailType DEF UnitsTyped
<1>3. \A i \in 1..Len(raw') : raw'[i] = raw[i + 1]
  BY <1>2
<1>4. Len(tls'.rec) = 0
  OBVIOUS
<1>5. /\ Len(Pending') = Len(raw') + Len(wire)
      /\ \A i \in 1..Len(raw') : Pending'[i] = raw'[i]
      /\ \A i \in 1..Len(wire) : Pending'[Len(raw') + i] = wire[i]
  BY <1>1, <1>2, <1>4, PendingIsNext
<1>6. ASSUME NEW i \in 1..Len(Pending') PROVE Pending'[i] = Pending[i + 2]
  <2>1. CASE i \in 1..Len(raw')
    <3>1. Pending'[i] = raw[i + 1] /\ i + 1 \in 1..Len(raw) /\ 1 + (i + 1) = i + 2
      BY <1>2, <1>3, <1>5, <2>1
    <3> QED
      BY <1>1, <3>1
  <2>2. CASE i > Len(raw')
    <3>1. /\ i - Len(raw') \in 1..Len(wire) /\ Len(raw') + (i - Len(raw')) = i
          /\ 1 + Len(raw) + (i - Len(raw')) = i + 2
      BY <1>1, <1>2, <1>5, <2>2
    <3>2. Pending'[i] = wire[i - Len(raw')]
      BY <1>5, <3>1
    <3>3. Pending[1 + Len(raw) + (i - Len(raw'))] = wire[i - Len(raw')]
      BY <1>1, <3>1
    <3> QED
      BY <3>1, <3>2, <3>3
  <2> QED
    BY <1>1, <1>2, <2>1, <2>2
<1>7. Len(Pending') = Len(Pending) - 2
  BY <1>1, <1>2, <1>5
<1> QED
  BY <1>6, <1>7 DEF MovesOn

\* A TCP read moves nothing.
LEMMA ReadMovesNothing ==
    ASSUME UnitsTyped, UnitsTyped', raw = <<>>, tls'.rec = tls.rec, NEW n \in 0..Len(wire),
           raw' = SubSeq(wire, 1, n), wire' = SubSeq(wire, n + 1, Len(wire))
    PROVE  MovesOn(0)
<1>0. wire \in Seq(Unit) /\ Len(wire) \in Nat /\ n \in Nat /\ n <= Len(wire)
  BY LenProperties DEF UnitsTyped
<1>1. raw' \in Seq(Unit) /\ Len(raw') = n /\ Len(wire') = Len(wire) - n
  BY <1>0, SubSeqType
<1>2. /\ \A i \in 1..n : raw'[i] = wire[i]
      /\ \A i \in 1..Len(wire) - n : wire'[i] = wire[n + i]
  BY <1>0
<1> DEFINE l == Len(tls.rec)
<1>3. /\ Len(Pending) = l + Len(wire) /\ l \in Nat
      /\ \A i \in 1..l : Pending[i] = tls.rec[i]
      /\ \A i \in 1..Len(wire) : Pending[l + i] = wire[i]
  BY <1>0, PendingIs
<1>4. /\ Len(Pending') = l + Len(raw') + Len(wire')
      /\ \A i \in 1..l : Pending'[i] = tls.rec[i]
      /\ \A i \in 1..n : Pending'[l + i] = raw'[i]
      /\ \A i \in 1..Len(wire) - n : Pending'[l + n + i] = wire'[i]
  BY <1>1, PendingIsNext
<1> HIDE DEF l
<1>5. ASSUME NEW i \in 1..Len(Pending') PROVE Pending'[i] = Pending[i]
  <2>1. CASE i \in 1..l
    BY <1>3, <1>4, <2>1
  <2>2. CASE i \in l + 1..l + n
    <3>1. i - l \in 1..n /\ i - l \in 1..Len(wire) /\ l + (i - l) = i
      BY <1>0, <1>3, <2>2
    <3>2. Pending'[l + (i - l)] = raw'[i - l] /\ raw'[i - l] = wire[i - l]
      BY <1>2, <1>4, <3>1
    <3>3. Pending[l + (i - l)] = wire[i - l]
      BY <1>3, <3>1
    <3> QED
      BY <3>1, <3>2, <3>3
  <2>3. CASE i > l + n
    <3>1. /\ i - (l + n) \in 1..Len(wire) - n /\ l + n + (i - (l + n)) = i
          /\ n + (i - (l + n)) \in 1..Len(wire) /\ l + (n + (i - (l + n))) = i
      BY <1>0, <1>1, <1>3, <1>4, <2>3
    <3>2. Pending'[i] = wire'[i - (l + n)]
      BY <1>4, <3>1
    <3>3. wire'[i - (l + n)] = wire[n + (i - (l + n))]
      BY <1>2, <3>1
    <3>4. Pending[l + (n + (i - (l + n)))] = wire[n + (i - (l + n))]
      BY <1>3, <3>1
    <3> QED
      BY <3>1, <3>2, <3>3, <3>4
  <2> QED
    BY <1>0, <1>3, <2>1, <2>2, <2>3
<1>6. Len(Pending') = Len(Pending) /\ Len(Pending) \in Nat
  BY <1>0, <1>1, <1>3, <1>4
<1> QED
  BY <1>5, <1>6 DEF MovesOn

\* What the server sends comes behind all the rest.
LEMMA SentBehind ==
    ASSUME UnitsTyped, UnitsTyped', tls' = tls, raw' = raw, NEW w \in Seq(Unit), wire' = wire \o w
    PROVE  /\ Len(Pending') = Len(Pending) + Len(w) /\ Len(Pending) \in Nat /\ Len(w) \in Nat
           /\ \A i \in 1..Len(Pending) : Pending'[i] = Pending[i]
           /\ \A i \in 1..Len(w) : Pending'[Len(Pending) + i] = w[i]
<1>0. /\ Len(w) \in Nat /\ Len(wire') = Len(wire) + Len(w)
      /\ \A i \in 1..Len(wire) : wire'[i] = wire[i]
      /\ \A i \in 1..Len(w) : wire'[Len(wire) + i] = w[i]
  BY ConcatProperties, LenProperties DEF UnitsTyped
<1> DEFINE l == Len(tls.rec)
<1> DEFINE m == Len(raw)
<1>1. /\ Len(Pending) = l + m + Len(wire) /\ l \in Nat /\ m \in Nat /\ Len(wire) \in Nat
      /\ \A i \in 1..l : Pending[i] = tls.rec[i]
      /\ \A i \in 1..m : Pending[l + i] = raw[i]
      /\ \A i \in 1..Len(wire) : Pending[l + m + i] = wire[i]
  BY PendingIs
<1>2. /\ Len(Pending') = l + m + Len(wire')
      /\ \A i \in 1..l : Pending'[i] = tls.rec[i]
      /\ \A i \in 1..m : Pending'[l + i] = raw[i]
      /\ \A i \in 1..Len(wire') : Pending'[l + m + i] = wire'[i]
  BY PendingIsNext
<1> HIDE DEF l, m
<1>3. ASSUME NEW i \in 1..Len(Pending) PROVE Pending'[i] = Pending[i]
  <2>1. CASE i \in 1..l
    BY <1>1, <1>2, <2>1
  <2>2. CASE i \in l + 1..l + m
    <3>1. i - l \in 1..m /\ l + (i - l) = i
      BY <1>1, <2>2
    <3>2. Pending'[l + (i - l)] = raw[i - l]
      BY <1>2, <3>1
    <3>3. Pending[l + (i - l)] = raw[i - l]
      BY <1>1, <3>1
    <3> QED
      BY <3>1, <3>2, <3>3
  <2>3. CASE i > l + m
    <3>1. i - (l + m) \in 1..Len(wire) /\ i - (l + m) \in 1..Len(wire') /\ l + m + (i - (l + m)) = i
      BY <1>0, <1>1, <2>3
    <3>2. Pending'[l + m + (i - (l + m))] = wire[i - (l + m)]
      BY <1>0, <1>2, <3>1
    <3>3. Pending[l + m + (i - (l + m))] = wire[i - (l + m)]
      BY <1>1, <3>1
    <3> QED
      BY <3>1, <3>2, <3>3
  <2> QED
    BY <1>1, <2>1, <2>2, <2>3
<1>4. ASSUME NEW i \in 1..Len(w) PROVE Pending'[Len(Pending) + i] = w[i]
  <2>1. /\ Len(wire) + i \in 1..Len(wire')
        /\ l + m + (Len(wire) + i) = Len(Pending) + i
    BY <1>0, <1>1
  <2> QED
    BY <1>0, <1>2, <2>1
<1> QED
  BY <1>0, <1>1, <1>2, <1>3, <1>4

\* Ahead, when what is pending has moved on by d records.
LEMMA AheadMoves ==
    ASSUME UnitsTyped, NEW G, Len(G) \in Nat, NEW k \in 0..Len(G), NEW d \in {0, 1}, k + d <= Len(G),
           MovesOn(2 * d), Ahead(G, k), net' = net
    PROVE  Ahead(G, k + d)'
<1>1. /\ Len(Pending') = Len(Pending) - 2 * d /\ Len(Pending) \in Nat
      /\ \A i \in 1..Len(Pending') : Pending'[i] = Pending[i + 2 * d]
  BY PendingIs DEF MovesOn
<1>2. ASSUME NEW i \in 1..Len(Pending'), i <= 2 * (Len(G) - (k + d))
      PROVE  Pending'[i] = Units(G)[2 * (k + d) + i]
  <2>1. i + 2 * d \in 1..Len(Pending) /\ i + 2 * d <= 2 * (Len(G) - k)
    BY <1>1, <1>2
  <2>2. 2 * k + (i + 2 * d) = 2 * (k + d) + i
    BY SMT
  <2> QED
    BY <1>1, <2>1, <2>2 DEF Ahead
<1>3. net' = "up" => Len(Pending') >= 2 * (Len(G) - (k + d))
  BY <1>1 DEF Ahead
<1> QED
  BY <1>2, <1>3 DEF Ahead

\* Chained messages: whatever is not the last is one of five, and the first
\* decides what the second is.
LEMMA ChainFirst ==
    ASSUME NEW q \in Seq(Contents), q # <<>>, Chained(q)
    PROVE  /\ q[1] \in {"SH", "SH-", "-SH", "CERT-", "FIN", "HRR"} => Len(q) = 1
           /\ Len(q) = 1 <=> Tail(q) = <<>>
           /\ Len(q) > 1 => /\ Tail(q) # <<>> /\ Tail(q)[1] \in Follow(Whole(q[1]))
                            /\ Tail(q)[Len(Tail(q))] = q[Len(q)]
           /\ Chained(Tail(q)) /\ Head(q) = q[1]
           /\ Len(q) = 1 => q[Len(q)] = q[1]
<1>1. /\ Len(q) \in Nat /\ Len(q) >= 1 /\ Len(Tail(q)) = Len(q) - 1 /\ Head(q) = q[1]
      /\ \A i \in 1..Len(q) - 1 : Tail(q)[i] = q[i + 1]
      /\ Tail(q) \in Seq(Contents)
  BY TailType
<1>2. Len(q) = 1 <=> Tail(q) = <<>>
  <2>1. Len(Tail(q)) = 0 <=> Tail(q) = <<>>
    BY <1>1, EmptySeq
  <2> QED
    BY <1>1, <2>1
<1>3. Len(q) > 1 => <<q[1], q[2]>> \in InRecord
  <2>1. Len(q) > 1 => 1 \in 1..Len(q) - 1 /\ 1 + 1 = 2
    BY <1>1
  <2> QED
    BY <2>1 DEF Chained
<1>4. ASSUME q[1] \in {"SH", "SH-", "-SH", "CERT-", "FIN", "HRR"} PROVE Len(q) = 1
  <2>1. <<q[1], q[2]>> \notin InRecord
    BY <1>4, InRecordIs
  <2> QED
    BY <1>1, <1>3, <2>1
<1>5. ASSUME Len(q) > 1
      PROVE  /\ Tail(q) # <<>> /\ Tail(q)[1] \in Follow(Whole(q[1]))
             /\ Tail(q)[Len(Tail(q))] = q[Len(q)]
  <2>1. Tail(q)[1] = q[2] /\ Tail(q)[Len(Tail(q))] = q[Len(q)]
    BY <1>1, <1>5
  <2> QED
    <3>1. <<q[1], q[2]>> \in InRecord /\ Tail(q) # <<>>
      BY <1>1, <1>2, <1>3, <1>5
    <3>2. q[2] \in Follow(Whole(q[1]))
      BY <3>1, InRecordIs
    <3> QED
      BY <2>1, <3>1, <3>2
<1>6. ASSUME NEW i \in 1..Len(Tail(q)) - 1
      PROVE  <<Tail(q)[i], Tail(q)[i + 1]>> \in InRecord
  <2>1. /\ i + 1 \in 1..Len(q) - 1 /\ i \in 1..Len(q) - 1
        /\ Tail(q)[i] = q[i + 1] /\ Tail(q)[i + 1] = q[(i + 1) + 1]
    BY <1>1
  <2>2. <<q[i + 1], q[(i + 1) + 1]>> \in InRecord
    BY <2>1 DEF Chained
  <2> QED
    BY <2>1, <2>2
<1>7. Chained(Tail(q))
  BY <1>6 DEF Chained
<1> QED
  BY <1>1, <1>2, <1>4, <1>5, <1>7

LEMMA OneOrMore ==
    ASSUME NEW q \in Seq(Contents), q # <<>>
    PROVE  Len(q) = 1 \/ Len(q) > 1
<1>1. Len(q) \in Nat /\ Len(q) # 0
  BY EmptySeq, LenProperties
<1>2. ASSUME NEW n \in Nat, n # 0 PROVE n = 1 \/ n > 1
  BY <1>2
<1> QED
  BY <1>1, <1>2

\* Message m has been handled, the client waits for what follows it, and the
\* rest is in hand.
LEMMA InHandMoves ==
    ASSUME tls.mess \in Seq(Contents), NEW y, InHand(y), tls'.mess = Tail(tls.mess),
           tls.mess[1] # "FIN", Whole(tls.mess[1]) = tls.mess[1],
           Follow(tls.mess[1]) \subseteq Takes', tls'.part = <<>>
    PROVE  Ready(y)' \/ InHand(y)'
<1> DEFINE q == tls.mess
<1>1. /\ q \in Seq(Contents) /\ q # <<>> /\ Chained(q) /\ y = q[Len(q)]
  BY DEF InHand
<1>6. Len(q) = 1 \/ Len(q) > 1
  BY <1>1, OneOrMore
<1>2. /\ Len(q) = 1 <=> Tail(q) = <<>>
      /\ Len(q) > 1 => /\ Tail(q) # <<>> /\ Tail(q)[1] \in Follow(q[1])
                       /\ Tail(q)[Len(Tail(q))] = q[Len(q)]
      /\ Chained(Tail(q)) /\ (Len(q) = 1 => q[Len(q)] = q[1])
  BY <1>1, ChainFirst
<1>4. CASE Len(q) = 1
  BY <1>1, <1>2, <1>4 DEF Ready
<1>5. CASE Len(q) > 1
  BY <1>1, <1>2, <1>5 DEF InHand
<1> QED
  BY <1>6, <1>4, <1>5

\* Messages in their place are accepted, up to Finished.
LEMMA FlightMessage ==
    ASSUME Typed, Typed', tls.st \in HandshakeStates, HandleMessage, Keyed, NEW y, InHand(y)
    PROVE  \/ tls'.st = "POST_HANDSHAKE"
           \/ /\ tls'.st \in HandshakeStates /\ res' = "IN_PROGRESS" /\ Keyed'
              /\ NextNumber' = NextNumber /\ (Ready(y)' \/ InHand(y)')
<1>0. /\ tls \in TlsState /\ tls.mess \in Seq(Contents) /\ tls.mess # <<>>
      /\ Chained(tls.mess) /\ tls.part = <<>>
  BY DEF Typed, TlsTyped, TlsState, InHand
<1> DEFINE m == Head(tls.mess)
<1>1. /\ m = tls.mess[1] /\ m \in Takes
      /\ m \in {"SH", "SH-", "-SH", "CERT-", "FIN", "HRR"} => EndOfRecord
  BY <1>0, ChainFirst DEF InHand, EndOfRecord
<1>2. EndOfRecord => Tail(tls.mess) = <<>> /\ y = m
  BY <1>0, <1>1, ChainFirst DEF EndOfRecord, InHand
<1> HIDE DEF m
<1>3. m \in {"SH", "SH-", "EE", "CR", "CERT", "CERT-", "CV", "FIN"}
  BY <1>1 DEF Takes
<1>4. CASE m \in {"SH-", "CERT-"}
  <2>1. KeepPart(m)
    BY <1>0, <1>1, <1>4 DEF HandleMessage, Takes, client_handle_hello,
      client_handle_encrypted_extensions, client_handle_certificate_request,
      client_handle_certificate, client_handle_certificate_verify, client_handle_finished,
      client_handle_new_session_ticket, handle_key_update, UnexpectedMessage, Cuts, m
  <2>2. tls' = [tls EXCEPT !.part = tls.mess, !.mess = <<>>] /\ res' = "IN_PROGRESS"
    BY <2>1 DEF KeepPart
  <2>3. tls'.st = tls.st /\ tls'.dec = tls.dec /\ tls'.mess = <<>> /\ tls'.part = tls.mess
    BY <1>0, <2>2 DEF TlsState
  <2>4. tls.mess = <<m>>
    BY <1>0, <1>1, <1>4 DEF EndOfRecord
  <2>5. Ready(y)'
    BY <1>1, <1>2, <1>4, <2>3, <2>4 DEF Ready, Takes
  <2> QED
    BY <2>2, <2>3, <2>5 DEF Keyed, NextNumber
<1>5. ASSUME m \notin {"SH-", "CERT-"}
      PROVE  ~KeepPart(m) /\ Expected(m) /\ ~UnexpectedMessage(m)
             /\ ~client_handle_new_session_ticket(m) /\ ~handle_key_update(m)
  BY <1>1, <1>3, <1>5 DEF KeepPart, Cuts, Expected, UnexpectedMessage, Takes, HandshakeStates,
     client_handle_new_session_ticket, handle_key_update
<1>6. CASE m \notin {"SH-", "CERT-"}
  <2>0. Whole(m) = m
    BY <1>3, <1>6 DEF Whole
  <2>1. CASE m = "SH"
    <3>1. client_handle_hello(m)
      BY <1>5, <2>1 DEF HandleMessage, client_handle_encrypted_extensions,
        client_handle_certificate_request, client_handle_certificate,
        client_handle_certificate_verify, client_handle_finished, m
    <3>2. /\ tls' = [tls EXCEPT !.st = "EXPECT_ENCRYPTED_EXTENSIONS",
                                !.mess = <<>>, !.dec = [ep |-> 2, sq |-> 0]]
          /\ res' = "IN_PROGRESS"
          /\ tls.st \in {"EXPECT_SERVER_HELLO", "EXPECT_SECOND_SERVER_HELLO"}
      BY <2>1, <3>1 DEF client_handle_hello
    <3>3. /\ tls'.st = "EXPECT_ENCRYPTED_EXTENSIONS" /\ tls'.mess = <<>>
          /\ tls'.dec = [ep |-> 2, sq |-> 0] /\ tls'.part = <<>>
      BY <1>0, <3>2 DEF TlsState
    <3>4. Keyed' /\ NextNumber' = 0 /\ NextNumber = 0
      BY <3>2, <3>3 DEF Keyed, NextNumber, NoKey
    <3>5. Follow(tls.mess[1]) \subseteq Takes'
      BY <1>1, <2>1, <3>3, FollowIs DEF Takes
    <3>6. tls'.mess = Tail(tls.mess)
      BY <1>1, <1>2, <2>1, <3>3
    <3>7. Ready(y)' \/ InHand(y)'
      BY <1>0, <1>1, <2>0, <2>1, <3>3, <3>5, <3>6, InHandMoves
    <3> QED
      BY <3>2, <3>3, <3>4, <3>7 DEF HandshakeStates
  <2>2. CASE m = "EE"
    <3>1. client_handle_encrypted_extensions(m)
      BY <1>5, <2>2 DEF HandleMessage, client_handle_hello,
        client_handle_certificate_request, client_handle_certificate,
        client_handle_certificate_verify, client_handle_finished, m
    <3>2. /\ tls' = [tls EXCEPT !.st = "EXPECT_CERTIFICATE_REQUEST_OR_CERTIFICATE",
                                !.mess = Tail(@)]
          /\ res' = "IN_PROGRESS" /\ tls.st = "EXPECT_ENCRYPTED_EXTENSIONS"
      BY <3>1 DEF client_handle_encrypted_extensions, Accept
    <3>3. /\ tls'.st = "EXPECT_CERTIFICATE_REQUEST_OR_CERTIFICATE"
          /\ tls'.mess = Tail(tls.mess) /\ tls'.dec = tls.dec /\ tls'.part = <<>>
      BY <1>0, <3>2 DEF TlsState
    <3>4. Keyed' /\ NextNumber' = NextNumber
      BY <3>2, <3>3 DEF Keyed, NextNumber
    <3>5. Follow(tls.mess[1]) \subseteq Takes'
      BY <1>1, <2>2, <3>3, FollowIs DEF Takes
    <3>6. Ready(y)' \/ InHand(y)'
      BY <1>0, <1>1, <2>0, <2>2, <3>3, <3>5, InHandMoves
    <3> QED
      BY <3>2, <3>3, <3>4, <3>6 DEF HandshakeStates
  <2>3. CASE m = "CR"
    <3>1. client_handle_certificate_request(m)
      BY <1>5, <2>3 DEF HandleMessage, client_handle_hello,
        client_handle_encrypted_extensions, client_handle_certificate,
        client_handle_certificate_verify, client_handle_finished, m
    <3>2. /\ tls' = [tls EXCEPT !.st = "EXPECT_CERTIFICATE", !.mess = Tail(@), !.cr = TRUE]
          /\ res' = "IN_PROGRESS" /\ tls.st = "EXPECT_CERTIFICATE_REQUEST_OR_CERTIFICATE"
      BY <3>1 DEF client_handle_certificate_request
    <3>3. /\ tls'.st = "EXPECT_CERTIFICATE"
          /\ tls'.mess = Tail(tls.mess) /\ tls'.dec = tls.dec /\ tls'.part = <<>>
      BY <1>0, <3>2 DEF TlsState
    <3>4. Keyed' /\ NextNumber' = NextNumber
      BY <3>2, <3>3 DEF Keyed, NextNumber
    <3>5. Follow(tls.mess[1]) \subseteq Takes'
      BY <1>1, <2>3, <3>3, FollowIs DEF Takes
    <3>6. Ready(y)' \/ InHand(y)'
      BY <1>0, <1>1, <2>0, <2>3, <3>3, <3>5, InHandMoves
    <3> QED
      BY <3>2, <3>3, <3>4, <3>6 DEF HandshakeStates
  <2>4. CASE m = "CERT"
    <3>1. client_handle_certificate(m)
      BY <1>5, <2>4 DEF HandleMessage, client_handle_hello,
        client_handle_encrypted_extensions, client_handle_certificate_request,
        client_handle_certificate_verify, client_handle_finished, m
    <3>2. /\ tls' = [tls EXCEPT !.st = "EXPECT_CERTIFICATE_VERIFY", !.mess = Tail(@)]
          /\ res' = "IN_PROGRESS"
          /\ tls.st \in {"EXPECT_CERTIFICATE_REQUEST_OR_CERTIFICATE", "EXPECT_CERTIFICATE"}
      BY <3>1 DEF client_handle_certificate, Accept
    <3>3. /\ tls'.st = "EXPECT_CERTIFICATE_VERIFY"
          /\ tls'.mess = Tail(tls.mess) /\ tls'.dec = tls.dec /\ tls'.part = <<>>
      BY <1>0, <3>2 DEF TlsState
    <3>4. Keyed' /\ NextNumber' = NextNumber
      BY <3>2, <3>3 DEF Keyed, NextNumber
    <3>5. Follow(tls.mess[1]) \subseteq Takes'
      BY <1>1, <2>4, <3>3, FollowIs DEF Takes
    <3>6. Ready(y)' \/ InHand(y)'
      BY <1>0, <1>1, <2>0, <2>4, <3>3, <3>5, InHandMoves
    <3> QED
      BY <3>2, <3>3, <3>4, <3>6 DEF HandshakeStates
  <2>5. CASE m = "CV"
    <3>1. client_handle_certificate_verify(m)
      BY <1>5, <2>5 DEF HandleMessage, client_handle_hello,
        client_handle_encrypted_extensions, client_handle_certificate_request,
        client_handle_certificate, client_handle_finished, m
    <3>2. /\ tls' = [tls EXCEPT !.st = "EXPECT_FINISHED", !.mess = Tail(@)]
          /\ res' = "IN_PROGRESS" /\ tls.st = "EXPECT_CERTIFICATE_VERIFY"
      BY <3>1 DEF client_handle_certificate_verify, Accept
    <3>3. /\ tls'.st = "EXPECT_FINISHED"
          /\ tls'.mess = Tail(tls.mess) /\ tls'.dec = tls.dec /\ tls'.part = <<>>
      BY <1>0, <3>2 DEF TlsState
    <3>4. Keyed' /\ NextNumber' = NextNumber
      BY <3>2, <3>3 DEF Keyed, NextNumber
    <3>5. Follow(tls.mess[1]) \subseteq Takes'
      BY <1>1, <2>5, <3>3, FollowIs DEF Takes
    <3>6. Ready(y)' \/ InHand(y)'
      BY <1>0, <1>1, <2>0, <2>5, <3>3, <3>5, InHandMoves
    <3> QED
      BY <3>2, <3>3, <3>4, <3>6 DEF HandshakeStates
  <2>6. CASE m = "FIN"
    <3>1. client_handle_finished(m)
      BY <1>5, <2>6 DEF HandleMessage, client_handle_hello,
        client_handle_encrypted_extensions, client_handle_certificate_request,
        client_handle_certificate, client_handle_certificate_verify, m
    <3>2. tls'.st = "POST_HANDSHAKE"
      BY <1>0, <3>1 DEF client_handle_finished, TlsState
    <3> QED
      BY <3>2
  <2> QED
    BY <1>3, <1>6, <2>1, <2>2, <2>3, <2>4, <2>5, <2>6
<1> QED
  BY <1>4, <1>6

\* A HelloRetryRequest is answered.
LEMMA RetryMessage ==
    ASSUME Typed, tls.mess = <<"HRR">>, HandleMessage, Keyed,
           tls.st \in {"EXPECT_SERVER_HELLO", "EXPECT_SECOND_SERVER_HELLO"}
    PROVE  /\ tls'.st = "EXPECT_SECOND_SERVER_HELLO" /\ res' = "IN_PROGRESS" /\ Keyed'
           /\ tls'.mess = <<>> /\ tls'.part = tls.part /\ sendbuf' = Append(sendbuf, "CLIENT_HELLO")
<1>0. tls \in TlsState
  BY DEF Typed, TlsTyped
<1>1. Head(tls.mess) = "HRR" /\ EndOfRecord /\ Tail(tls.mess) = <<>>
  BY DEF EndOfRecord
<1>2. client_handle_hello("HRR")
  BY <1>1 DEF HandleMessage, KeepPart, Cuts, client_handle_encrypted_extensions,
    client_handle_certificate_request, client_handle_certificate,
    client_handle_certificate_verify, client_handle_finished,
    client_handle_new_session_ticket, handle_key_update, UnexpectedMessage, Expected
<1>3. /\ tls' = [tls EXCEPT !.st = "EXPECT_SECOND_SERVER_HELLO", !.mess = Tail(@)]
      /\ res' = "IN_PROGRESS" /\ sendbuf' = Append(sendbuf, "CLIENT_HELLO")
  BY <1>2 DEF client_handle_hello, Accept
<1>4. /\ tls'.st = "EXPECT_SECOND_SERVER_HELLO" /\ tls'.mess = <<>> /\ tls'.dec = tls.dec
      /\ tls'.part = tls.part
  BY <1>0, <1>1, <1>3 DEF TlsState
<1> QED
  BY <1>3, <1>4 DEF Keyed

\* Only one message is the latest.
LEMMA LatestIsOne ==
    ASSUME NEW G, NEW k \in Nat, NEW y, NEW z, Latest(G, k, y), Latest(G, k, z)
    PROVE  y = z
<1>1. ASSUME NEW i \in 1..k, NEW j \in 1..k, OfFlight(G[i]), OfFlight(G[j]),
             \A h \in i + 1..k : ~OfFlight(G[h]), \A h \in j + 1..k : ~OfFlight(G[h])
      PROVE  i = j
  <2>1. ~(j \in i + 1..k) /\ ~(i \in j + 1..k)
    BY <1>1
  <2> QED
    BY <2>1
<1> QED
  BY <1>1 DEF Latest

\* One record more, with part of the flight or without.
LEMMA LatestNext ==
    ASSUME NEW G, NEW k \in Nat
    PROVE  /\ OfFlight(G[k + 1]) => Latest(G, k + 1, Whole(LastIn(G[k + 1])))
           /\ \A y : ~OfFlight(G[k + 1]) /\ Latest(G, k, y) => Latest(G, k + 1, y)
<1>1. ASSUME OfFlight(G[k + 1]) PROVE Latest(G, k + 1, Whole(LastIn(G[k + 1])))
  <2>1. k + 1 \in 1..k + 1 /\ \A h \in (k + 1) + 1..k + 1 : ~OfFlight(G[h])
    OBVIOUS
  <2> QED
    BY <1>1, <2>1 DEF Latest
<1>2. ASSUME NEW y, ~OfFlight(G[k + 1]), Latest(G, k, y) PROVE Latest(G, k + 1, y)
  <2>1. CASE y = "start" /\ \A i \in 1..k : ~OfFlight(G[i])
    <3>1. \A i \in 1..k + 1 : i \in 1..k \/ i = k + 1
      OBVIOUS
    <3> QED
      BY <1>2, <2>1, <3>1 DEF Latest
  <2>2. ASSUME NEW i \in 1..k, OfFlight(G[i]), y = Whole(LastIn(G[i])),
               \A h \in i + 1..k : ~OfFlight(G[h])
        PROVE  Latest(G, k + 1, y)
    <3>1. i \in 1..k + 1 /\ \A h \in i + 1..k + 1 : h \in i + 1..k \/ h = k + 1
      OBVIOUS
    <3> QED
      BY <1>2, <2>2, <3>1 DEF Latest
  <2> QED
    BY <1>2, <2>1, <2>2 DEF Latest
<1> QED
  BY <1>1, <1>2

\* At the end of the flight there is Finished.
LEMMA LatestAtEnd ==
    ASSUME NEW G, Len(G) \in Nat, NEW k \in 0..Len(G), WholeBehind(G, k), NEW y,
           Latest(G, Len(G), y)
    PROVE  y = "FIN"
<1>1. Len(G) >= 1 /\ OfFlight(G[Len(G)]) /\ LastIn(G[Len(G)]) = "FIN"
  BY DEF WholeBehind
<1>2. (Len(G) - 1) + 1 = Len(G) /\ Len(G) - 1 \in Nat
  BY <1>1
<1>3. Latest(G, Len(G), Whole("FIN"))
  BY <1>1, <1>2, LatestNext
<1> QED
  BY <1>3, LatestIsOne DEF Whole

\* The next record of the flight is passed over, or goes on behind y.
LEMMA NextRecord ==
    ASSUME NEW G, Len(G) \in Nat, NEW k \in 0..Len(G), k < Len(G), WholeBehind(G, k), NEW y,
           Latest(G, k, y)
    PROVE  \/ Skipped(G[k + 1])
           \/ /\ Carrying(G[k + 1]) /\ G[k + 1].body[1] \in Follow(y)
              /\ G[k + 1].ep = 2 => G[k + 1].sq = Protected(G, k)
<1>1. k + 1 \in 1..Len(G) /\ k + 1 \in k + 1..Len(G) /\ (k + 1) - 1 = k /\ k \in Nat
  OBVIOUS
<1>2. Skipped(G[k + 1]) \/ Carrying(G[k + 1])
  BY <1>1 DEF WholeBehind
<1>3. G[k + 1].ep = 2 => G[k + 1].sq = Protected(G, k)
  BY <1>1 DEF WholeBehind
<1>4. ASSUME Carrying(G[k + 1]) PROVE G[k + 1].body[1] \in Follow(y)
  <2>1. OfFlight(G[k + 1])
    BY <1>4 DEF Carrying
  <2>2. PICK z \in Contents \cup {"start"} : Latest(G, k, z) /\ G[k + 1].body[1] \in Follow(z)
    BY <1>1, <2>1 DEF WholeBehind
  <2>3. z = y
    BY <1>1, <2>2, LatestIsOne
  <2> QED
    BY <2>2, <2>3
<1> QED
  BY <1>2, <1>3, <1>4

\* The header of a record is kept.
LEMMA HeaderRead ==
    ASSUME Typed, tls.rec = <<>>, raw # <<>>, Head(raw).part = 1, HandleUnit
    PROVE  /\ tls'.rec = <<Head(raw)>> /\ raw' = Tail(raw) /\ res' = "IN_PROGRESS"
           /\ tls'.st = tls.st /\ tls'.mess = tls.mess /\ tls'.part = tls.part
           /\ tls'.dec = tls.dec /\ sendbuf' = sendbuf
<1>1. tls \in TlsState
  BY DEF Typed, TlsTyped
<1>2. ReadHeader
  BY DEF HandleUnit, RejectJunk, CollectJunk, FinishJunk, RetryFailedRecord, ReadFragment
<1> QED
  BY <1>1, <1>2 DEF ReadHeader, TlsState

\* A record is in hand of which the header was read.
HeaderInHand(r) == Len(tls.rec) = 1 /\ tls.rec[1] = [rec |-> r, part |-> 1]

\* A change_cipher_spec is passed over.
LEMMA SkippedRead ==
    ASSUME Typed, NEW r, HeaderInHand(r), Skipped(r), tls.st # "POST_HANDSHAKE", raw # <<>>, HandleUnit
    PROVE  /\ tls'.rec = <<>> /\ raw' = Tail(raw) /\ res' = "IN_PROGRESS"
           /\ tls'.st = tls.st /\ tls'.mess = tls.mess /\ tls'.part = tls.part
           /\ tls'.dec = tls.dec /\ sendbuf' = sendbuf
<1>1. tls \in TlsState
  BY DEF Typed, TlsTyped
<1>2. tls.rec[1].rec = r /\ tls.rec[1].part = 1 /\ Len(tls.rec) = 1 /\ tls.rec # <<>>
  BY DEF HeaderInHand
<1>3. ReadFragment
  BY <1>2 DEF HandleUnit, ReadHeader, RejectJunk, CollectJunk, FinishJunk, RetryFailedRecord
<1>4. ChangeCipherSpec(r)
  BY <1>2, <1>3 DEF ReadFragment, BadRecord, TooEarly, AppData, Alert, StrayRecord,
     HandshakeRecord, Skipped
<1> QED
  BY <1>1, <1>4 DEF ChangeCipherSpec, RecordDone, TlsState

\* A handshake record that can be read is taken.
LEMMA MessagesRead ==
    ASSUME Typed, NEW r, HeaderInHand(r), r.ct = "hs", tls.st # "POST_HANDSHAKE", raw # <<>>, HandleUnit,
           \/ r.ep = 0 /\ tls.dec = NoKey
           \/ r.ep = 2 /\ tls.dec.ep = 2 /\ r.sq = tls.dec.sq
    PROVE  /\ tls'.rec = <<>> /\ raw' = Tail(raw) /\ res' = "IN_PROGRESS"
           /\ tls'.st = tls.st /\ tls'.mess = Collected(r.body) /\ tls'.part = <<>>
           /\ tls'.dec = Advanced(r) /\ sendbuf' = sendbuf
<1>1. tls \in TlsState
  BY DEF Typed, TlsTyped
<1>2. tls.rec[1].rec = r /\ tls.rec[1].part = 1 /\ Len(tls.rec) = 1 /\ tls.rec # <<>>
  BY DEF HeaderInHand
<1>3. ReadFragment
  BY <1>2 DEF HandleUnit, ReadHeader, RejectJunk, CollectJunk, FinishJunk, RetryFailedRecord
<1>4. ~BadRecord(r) /\ ~TooEarly(r)
  BY DEF BadRecord, TooEarly, Decrypts, NoKey
<1>5. HandshakeRecord(r)
  BY <1>2, <1>3, <1>4 DEF ReadFragment, ChangeCipherSpec, AppData, Alert, StrayRecord
<1>6. /\ tls' = [tls EXCEPT !.rec = <<>>, !.dec = Advanced(r),
                            !.mess = Collected(r.body), !.part = <<>>]
      /\ raw' = Tail(raw) /\ res' = "IN_PROGRESS" /\ sendbuf' = sendbuf
  BY <1>5 DEF HandshakeRecord
<1> QED
  BY <1>1, <1>6 DEF TlsState

\* What a record completes, or brings.
LEMMA CollectedAre ==
    ASSUME Typed, NEW b \in Seq(Contents), b # <<>>, Chained(b), NEW y, Ready(y), b[1] \in Follow(y)
    PROVE  /\ Collected(b) # <<>> /\ Collected(b)[1] \in Takes /\ Chained(Collected(b))
           /\ Collected(b)[Len(Collected(b))] = Whole(b[Len(b)])
           /\ b[1] \in HelloParts <=> tls.st \in {"EXPECT_SERVER_HELLO", "EXPECT_SECOND_SERVER_HELLO"}
<1>0. /\ Len(b) \in Nat /\ Len(b) >= 1 /\ Head(b) = b[1]
      /\ Tail(b) \in Seq(Contents) /\ Len(Tail(b)) = Len(b) - 1
      /\ \A i \in 1..Len(b) - 1 : Tail(b)[i] = b[i + 1]
  BY TailType, LenProperties
<1>1. ASSUME NEW i \in 2..Len(b)
      PROVE  b[i] \in {"CR", "CERT", "CERT-", "CV", "FIN"}
  <2>1. i - 1 \in 1..Len(b) - 1 /\ (i - 1) + 1 = i
    BY <1>0
  <2>2. <<b[i - 1], b[i]>> \in InRecord
    BY <2>1 DEF Chained
  <2> QED
    BY <2>2, InRecordIs
<1>2. CASE tls.part = <<>> /\ Follow(y) \subseteq Takes
  <2>1. Collected(b) = b
    BY <1>2 DEF Collected
  <2>2. b[1] \in Takes
    BY <1>2
  <2>3. Whole(b[Len(b)]) = b[Len(b)]
    <3>1. b[1] \notin {"-SH", "-CERT"}
      BY <2>2 DEF Takes
    <3>2. Len(b) = 1 \/ Len(b) \in 2..Len(b)
      BY <1>0
    <3> QED
      BY <1>1, <3>1, <3>2 DEF Whole
  <2>4. b[1] \in HelloParts <=> tls.st \in {"EXPECT_SERVER_HELLO", "EXPECT_SECOND_SERVER_HELLO"}
    BY <2>2 DEF HelloParts, Takes
  <2> QED
    BY <2>1, <2>2, <2>3, <2>4
<1>3. CASE tls.part = <<y>> /\ y \in {"SH-", "CERT-"} /\ y \in Takes
  <2> DEFINE w == IF y = "SH-" THEN "SH" ELSE "CERT"
  <2>1. b[1] = (IF y = "SH-" THEN "-SH" ELSE "-CERT") /\ w = Whole(b[1])
    BY <1>3, FollowIs DEF Whole
  <2>2. Collected(b) = <<w>> \o Tail(b)
    <3>1. \A c \in Cuts : c[1] = y => c[2] = b[1] /\ c[3] = w
      BY <1>3, <2>1 DEF Cuts
    <3>2. \E c \in Cuts : c[1] = y
      BY <1>3 DEF Cuts
    <3>3. \A c \in Cuts : tls.part = <<c[1]>> <=> c[1] = y
      BY <1>3
    <3>4. (CHOOSE c \in Cuts : tls.part = <<c[1]>>)[3] = w
      <4>1. \E c \in Cuts : tls.part = <<c[1]>>
        BY <3>2, <3>3
      <4>2. (CHOOSE c \in Cuts : tls.part = <<c[1]>>) \in {c \in Cuts : tls.part = <<c[1]>>}
        BY <4>1
      <4> QED
        BY <3>1, <3>3, <4>2
    <3>5. tls.part # <<>> /\ \E c \in Cuts : tls.part = <<c[1]>> /\ Head(b) = c[2]
      BY <1>0, <1>3, <3>1, <3>2, <3>3
    <3> QED
      BY <3>4, <3>5 DEF Collected
  <2> DEFINE q == <<w>> \o Tail(b)
  <2>3. w \in Contents /\ w \in Takes /\ w # "HRR"
    BY <1>3 DEF Takes, Contents
  <2> HIDE DEF w
  <2>4. <<w>> \in Seq(Contents) /\ Len(<<w>>) = 1 /\ <<w>>[1] = w
    BY <2>3
  <2>5. /\ q \in Seq(Contents) /\ Len(q) = Len(b) /\ q[1] = w
        /\ \A i \in 1..Len(b) - 1 : q[1 + i] = b[i + 1]
    <3>1. /\ q \in Seq(Contents) /\ Len(q) = 1 + Len(Tail(b))
          /\ \A i \in 1..1 : q[i] = <<w>>[i]
          /\ \A i \in 1..Len(Tail(b)) : q[1 + i] = Tail(b)[i]
      BY <1>0, <2>4, ConcatProperties
    <3> HIDE DEF q
    <3> QED
      BY <1>0, <2>4, <3>1
  <2> HIDE DEF q
  <2>6. \A i \in 2..Len(b) : q[i] = b[i]
    <3>1. ASSUME NEW i \in 2..Len(b) PROVE q[i] = b[i]
      <4>1. i - 1 \in 1..Len(b) - 1 /\ 1 + (i - 1) = i /\ (i - 1) + 1 = i
        BY <1>0
      <4>2. q[1 + (i - 1)] = b[(i - 1) + 1]
        BY <2>5, <4>1
      <4> QED
        BY <4>1, <4>2
    <3> QED
      BY <3>1
  <2>7. Chained(q)
    <3>1. ASSUME NEW i \in 1..Len(q) - 1 PROVE <<q[i], q[i + 1]>> \in InRecord
      <4>1. i \in 1..Len(b) - 1 /\ i + 1 \in 2..Len(b) /\ (i = 1 \/ i \in 2..Len(b))
        BY <1>0, <2>5
      <4>2. <<b[i], b[i + 1]>> \in InRecord
        BY <4>1 DEF Chained
      <4>3. <<Whole(b[i]), b[i + 1]>> \in InRecord
        BY <4>2, InRecordIs
      <4>4. CASE i = 1
        BY <2>1, <2>5, <2>6, <4>1, <4>3, <4>4
      <4>5. CASE i \in 2..Len(b)
        BY <2>6, <4>1, <4>2, <4>5
      <4> QED
        BY <4>1, <4>4, <4>5
    <3> QED
      BY <3>1 DEF Chained
  <2>8. q[Len(q)] = Whole(b[Len(b)])
    <3>1. CASE Len(b) = 1
      BY <2>1, <2>5, <3>1
    <3>2. CASE Len(b) # 1
      <4>1. Len(b) \in 2..Len(b)
        BY <1>0, <3>2
      <4>2. Whole(b[Len(b)]) = b[Len(b)]
        BY <1>1, <4>1 DEF Whole
      <4> QED
        BY <2>5, <2>6, <4>1, <4>2
    <3> QED
      BY <3>1, <3>2
  <2>9. b[1] \in HelloParts <=> tls.st \in {"EXPECT_SERVER_HELLO", "EXPECT_SECOND_SERVER_HELLO"}
    BY <1>3, <2>1 DEF HelloParts, Takes
  <2>10. q # <<>>
    BY <1>0, <2>5
  <2>11. Collected(b) = q
    BY <2>2 DEF q
  <2> QED
    BY <2>3, <2>5, <2>7, <2>8, <2>9, <2>10, <2>11
<1> QED
  BY <1>2, <1>3 DEF Ready

\* The next unit is the header of record k + 1, or its fragment.
LEMMA NextUnit ==
    ASSUME UnitsTyped, NEW G, Len(G) \in Nat, NEW k \in 0..Len(G), k < Len(G), Ahead(G, k),
           Len(tls.rec) <= 1, raw # <<>>
    PROVE  (tls.rec = <<>> /\ Head(raw).part = 1) \/ HeaderInHand(G[k + 1])
<1>1. Units(G)[2 * (k + 1) - 1] = [rec |-> G[k + 1], part |-> 1]
  <2>1. k + 1 \in 1..Len(G)
    OBVIOUS
  <2> QED
    BY <2>1, UnitsAre
<1>2. 2 * (k + 1) - 1 = 2 * k + 1
  BY SMT
<1>3. /\ Len(Pending) = Len(tls.rec) + Len(raw) + Len(wire)
      /\ Len(tls.rec) \in Nat /\ Len(raw) \in Nat /\ Len(wire) \in Nat
      /\ \A i \in 1..Len(tls.rec) : Pending[i] = tls.rec[i]
      /\ \A i \in 1..Len(raw) : Pending[Len(tls.rec) + i] = raw[i]
  BY PendingIs
<1>4. raw \in Seq(Unit) /\ Len(raw) >= 1 /\ Head(raw) = raw[1] /\ tls.rec \in Seq(Unit)
  BY TailType DEF UnitsTyped
<1>5. Pending[1] = [rec |-> G[k + 1], part |-> 1]
  <2>1. 1 \in 1..Len(Pending) /\ 1 <= 2 * (Len(G) - k)
    BY <1>3, <1>4
  <2> QED
    BY <1>1, <1>2, <2>1 DEF Ahead
<1>6. CASE Len(tls.rec) = 0
  <2>1. tls.rec = <<>>
    BY <1>4, <1>6, EmptySeq
  <2>2. Pending[1] = raw[1]
    BY <1>3, <1>4, <1>6
  <2> QED
    BY <1>4, <1>5, <2>1, <2>2
<1>7. CASE Len(tls.rec) = 1
  <2>1. Pending[1] = tls.rec[1]
    BY <1>3, <1>7
  <2> QED
    BY <1>5, <1>7, <2>1 DEF HeaderInHand
<1>8. Len(tls.rec) = 0 \/ Len(tls.rec) = 1
  <2>1. ASSUME NEW n \in Nat, n <= 1 PROVE n = 0 \/ n = 1
    BY <2>1
  <2>2. Len(tls.rec) \in Nat
    BY <1>3
  <2> QED
    BY <2>1, <2>2
<1> QED
  BY <1>6, <1>7, <1>8

\* A step that leaves what was read and what is in hand as they were.
LEMMA ReadsStay ==
    ASSUME NEW G, NEW k, Reads(G, k), tls'.st = tls.st, tls'.mess = tls.mess,
           tls'.part = tls.part, tls'.dec = tls.dec, Len(tls'.rec) <= 1, res' = "IN_PROGRESS",
           srv'.phase = srv.phase, srv'.hellos = srv.hellos, Ahead(G, k)',
           srv.phase = "wait_hello" => Len(Pending') <= 2 * (Len(G) - k),
           srv.phase = "wait_hello" => Len(c2s') + Len(sendbuf') = Len(c2s) + Len(sendbuf)
    PROVE  Reads(G, k)'
<1>1. Keyed'
  BY DEF Reads, Keyed
<1>2. CASE srv.phase = "wait_hello" /\ HelloBehind(G, k)
  <2>1. HelloBehind(G, k)'
    BY <1>2 DEF HelloBehind
  <2> QED
    BY <1>1, <1>2, <2>1 DEF Reads
<1>3. CASE srv.phase = "wait_finished" /\ FlightBehind(G, k)
  <2>1. NextNumber' = NextNumber /\ Takes' = Takes
    BY DEF NextNumber, Takes
  <2>2. ASSUME NEW y PROVE (Ready(y) \/ InHand(y)) => (Ready(y)' \/ InHand(y)')
    BY <2>1 DEF Ready, InHand
  <2>3. FlightBehind(G, k)'
    BY <1>3, <2>1, <2>2 DEF FlightBehind
  <2> QED
    BY <1>1, <1>3, <2>3 DEF Reads
<1> QED
  BY <1>2, <1>3 DEF Reads

\* Nothing of what is pending changes.
LEMMA PendingSame ==
    ASSUME tls'.rec = tls.rec, raw' = raw, wire' = wire
    PROVE  Pending' = Pending
  BY DEF Pending

LEMMA AheadSame ==
    ASSUME NEW G, NEW k, Ahead(G, k), Pending' = Pending, net' = "up" => net = "up"
    PROVE  Ahead(G, k)'
  BY DEF Ahead

\* One iteration behind the flight.
LEMMA FlightInput ==
    ASSUME Typed, Typed', tls.st \in HandshakeStates, handle_input,
           UNCHANGED <<wire, net, srv, c2s>>, NEW G \in Seq(FlightRecord), NEW k \in 0..Len(G),
           Reads(G, k), srv.phase = "wait_finished"
    PROVE  tls'.st = "POST_HANDSHAKE" \/ \E l \in 0..Len(G) : Reads(G, l)'
<1>0. UnitsTyped /\ UnitsTyped' /\ TlsTyped /\ Len(G) \in Nat /\ k \in Nat
  BY TypedUnits, LenProperties DEF Typed, UnitsTyped, TlsTyped, TlsState, InputTyped, PeerTyped
<1>1. FlightBehind(G, k) /\ Ahead(G, k) /\ Keyed /\ Len(tls.rec) <= 1 /\ WholeBehind(G, k)
  BY DEF Reads, FlightBehind
<1>2. PICK y \in Contents \cup {"start"} : Latest(G, k, y) /\ (Ready(y) \/ InHand(y))
  BY <1>1 DEF FlightBehind
<1>3. CASE tls.mess # <<>>
  <2>1. HandleMessage /\ InHand(y)
    BY <1>2, <1>3 DEF handle_input, Ready
  <2>2. tls'.rec = tls.rec /\ raw' = raw
    BY <1>0, <2>1, MessageKeepsUnits
  <2>3. Ahead(G, k)'
    BY <1>1, <2>2, PendingSame, AheadSame
  <2>4. \/ tls'.st = "POST_HANDSHAKE"
        \/ /\ res' = "IN_PROGRESS" /\ Keyed' /\ NextNumber' = NextNumber
           /\ Ready(y)' \/ InHand(y)'
    BY <1>1, <2>1, FlightMessage
  <2>5. ASSUME tls'.st # "POST_HANDSHAKE" PROVE Reads(G, k)'
    <3>1. FlightBehind(G, k)'
      BY <1>1, <1>2, <2>4, <2>5 DEF FlightBehind
    <3> QED
      BY <1>1, <2>2, <2>3, <2>4, <2>5, <3>1 DEF Reads
  <2> QED
    BY <2>5
<1>4. CASE tls.mess = <<>>
  <2>1. raw # <<>> /\ HandleUnit /\ Ready(y) /\ y # "FIN"
    BY <1>2, <1>4 DEF handle_input, InHand, Ready
  <2>2. k < Len(G)
    BY <1>0, <1>1, <1>2, <2>1, LatestAtEnd
  <2>3. tls.st # "POST_HANDSHAKE"
    BY DEF HandshakeStates
  <2> DEFINE r == G[k + 1]
  <2>4. CASE tls.rec = <<>> /\ Head(raw).part = 1
    <3>1. /\ tls'.rec = <<Head(raw)>> /\ raw' = Tail(raw) /\ res' = "IN_PROGRESS"
          /\ tls'.st = tls.st /\ tls'.mess = tls.mess /\ tls'.part = tls.part
          /\ tls'.dec = tls.dec /\ sendbuf' = sendbuf
      BY <2>1, <2>4, HeaderRead
    <3>2. MovesOn(0)
      BY <1>0, <2>1, <2>4, <3>1, HeaderKept
    <3>3. Ahead(G, k)'
      <4>1. MovesOn(2 * 0) /\ k + 0 <= Len(G) /\ k + 0 = k
        BY <1>0, <2>2, <3>2
      <4>2. Ahead(G, k + 0)'
        BY <1>0, <1>1, <4>1, AheadMoves
      <4> QED
        BY <4>1, <4>2
    <3>4. Len(tls'.rec) <= 1
      BY <3>1
    <3>5. Reads(G, k)'
      BY <3>1, <3>3, <3>4, ReadsStay
    <3> QED
      BY <3>5
  <2>5. CASE HeaderInHand(r)
    <3>0. k + 1 \in 0..Len(G) /\ k + 1 \in 1..Len(G) /\ k + 1 <= Len(G)
      BY <1>0, <2>2
    <3>1. r \in FlightRecord
      BY <3>0
    <3>2. \/ Skipped(r)
          \/ /\ Carrying(r) /\ r.body[1] \in Follow(y)
             /\ r.ep = 2 => r.sq = Protected(G, k)
      BY <1>0, <1>1, <1>2, <2>2, NextRecord
    <3>3. /\ Protected(G, k) \in Nat
          /\ Protected(G, k + 1) = Protected(G, k) + (IF r.ep = 2 THEN 1 ELSE 0)
      BY <1>0, ProtectedNext
    <3>4. ASSUME tls'.rec = <<>>, raw' = Tail(raw) PROVE Ahead(G, k + 1)' /\ Len(tls'.rec) <= 1
      <4>1. MovesOn(2)
        BY <1>0, <2>1, <2>5, <3>4, RecordGone DEF HeaderInHand
      <4>2. MovesOn(2 * 1)
        BY <4>1
      <4>3. Ahead(G, k + 1)'
        BY <1>0, <1>1, <3>0, <4>2, AheadMoves
      <4> QED
        BY <3>4, <4>3
    <3>5. WholeBehind(G, k + 1)
      <4>1. \A i \in (k + 1) + 1..Len(G) : i \in k + 1..Len(G)
        BY <1>0
      <4> QED
        BY <1>1, <4>1 DEF WholeBehind
    <3> HIDE DEF r
    <3>6. CASE Skipped(r)
      <4>1. /\ tls'.rec = <<>> /\ raw' = Tail(raw) /\ res' = "IN_PROGRESS"
            /\ tls'.st = tls.st /\ tls'.mess = tls.mess /\ tls'.part = tls.part
            /\ tls'.dec = tls.dec
        BY <2>1, <2>3, <2>5, <3>6, SkippedRead
      <4>2. Keyed' /\ NextNumber' = NextNumber /\ Takes' = Takes
        BY <1>1, <4>1 DEF Keyed, NextNumber, Takes
      <4>3. Ready(y)'
        BY <2>1, <4>1, <4>2 DEF Ready
      <4>4. Latest(G, k + 1, y)
        <5>1. ~OfFlight(r)
          BY <3>6 DEF Skipped, OfFlight
        <5> QED
          BY <1>0, <1>2, <5>1, LatestNext DEF r
      <4>5. NextNumber' = Protected(G, k + 1)
        BY <1>1, <3>3, <3>6, <4>2 DEF FlightBehind, Skipped
      <4>6. FlightBehind(G, k + 1)'
        BY <3>5, <4>3, <4>4, <4>5 DEF FlightBehind
      <4>7. Reads(G, k + 1)'
        BY <3>4, <4>1, <4>2, <4>6 DEF Reads
      <4> QED
        BY <3>0, <4>7
    <3>7. CASE /\ Carrying(r) /\ r.body[1] \in Follow(y)
               /\ r.ep = 2 => r.sq = Protected(G, k)
      <4>0. /\ r.body \in Seq(Contents) /\ r.body # <<>> /\ Chained(r.body) /\ OfFlight(r)
            /\ r.ct = "hs" /\ r.ep = IF r.body[1] \in HelloParts THEN 0 ELSE 2
            /\ r.sq \in Nat
        BY <3>1, <3>7 DEF Carrying, FlightRecord, OfFlight
      <4>1. /\ Collected(r.body) # <<>> /\ Collected(r.body)[1] \in Takes
            /\ Chained(Collected(r.body))
            /\ Collected(r.body)[Len(Collected(r.body))] = Whole(r.body[Len(r.body)])
            /\ r.body[1] \in HelloParts
                 <=> tls.st \in {"EXPECT_SERVER_HELLO", "EXPECT_SECOND_SERVER_HELLO"}
        BY <2>1, <3>7, <4>0, CollectedAre
      <4>2. \/ r.ep = 0 /\ tls.dec = NoKey
            \/ r.ep = 2 /\ tls.dec.ep = 2 /\ r.sq = tls.dec.sq
        BY <1>1, <3>7, <4>0, <4>1 DEF Keyed, FlightBehind, NextNumber
      <4>3. /\ tls'.rec = <<>> /\ raw' = Tail(raw) /\ res' = "IN_PROGRESS"
            /\ tls'.st = tls.st /\ tls'.mess = Collected(r.body) /\ tls'.part = <<>>
            /\ tls'.dec = Advanced(r)
        BY <2>1, <2>3, <2>5, <4>0, <4>2, MessagesRead
      <4>4. tls.dec \in [ep : Nat, sq : Nat]
        BY <1>0 DEF TlsTyped, TlsState
      <4>5. Keyed' /\ NextNumber' = Protected(G, k + 1)
        <5>1. CASE r.ep = 0 /\ tls.dec = NoKey
          <6>1. tls'.dec = tls.dec
            BY <4>3, <5>1 DEF Advanced
          <6> QED
            BY <1>1, <3>3, <4>3, <5>1, <6>1 DEF Keyed, FlightBehind, NextNumber, NoKey
        <5>2. CASE r.ep = 2 /\ tls.dec.ep = 2 /\ r.sq = tls.dec.sq
          <6>1. tls'.dec.ep = 2 /\ tls'.dec.sq = tls.dec.sq + 1
            BY <4>3, <4>4, <5>2 DEF Advanced
          <6>2. NextNumber' = NextNumber + 1
            BY <5>2, <6>1 DEF NextNumber
          <6>3. tls.st \notin {"EXPECT_SERVER_HELLO", "EXPECT_SECOND_SERVER_HELLO"}
            BY <4>0, <4>1, <5>2
          <6> QED
            BY <1>1, <3>3, <4>3, <5>2, <6>1, <6>2, <6>3 DEF Keyed, FlightBehind
        <5> QED
          BY <4>2, <5>1, <5>2
      <4>6. Takes' = Takes
        BY <4>3 DEF Takes
      <4> DEFINE z == Whole(LastIn(r))
      <4>7. InHand(z)'
        BY <4>1, <4>3, <4>6 DEF InHand, LastIn
      <4>8. Latest(G, k + 1, z)
        BY <1>0, <4>0, LatestNext DEF r
      <4>9. z \in Contents
        <5>1. LastIn(r) \in Contents
          <6>1. Len(r.body) \in 1..Len(r.body)
            BY <4>0, TailType, LenProperties
          <6> QED
            BY <4>0, <6>1 DEF LastIn
        <5> QED
          BY <5>1 DEF Whole, Contents
      <4> HIDE DEF z
      <4>10. FlightBehind(G, k + 1)'
        BY <3>5, <4>5, <4>7, <4>8, <4>9 DEF FlightBehind
      <4>11. Reads(G, k + 1)'
        BY <3>4, <4>3, <4>5, <4>10 DEF Reads
      <4> QED
        BY <3>0, <4>11
    <3> QED
      BY <3>2, <3>6, <3>7
  <2> QED
    BY <1>0, <1>1, <2>1, <2>2, <2>4, <2>5, NextUnit
<1> QED
  BY <1>3, <1>4

\* One iteration behind a ClientHello.
LEMMA HelloInput ==
    ASSUME Typed, Typed', tls.st \in HandshakeStates, handle_input,
           UNCHANGED <<wire, net, srv, c2s>>, NEW G \in Seq(FlightRecord), NEW k \in 0..Len(G),
           Reads(G, k), srv.phase = "wait_hello"
    PROVE  \E l \in 0..Len(G) : Reads(G, l)'
<1>0. /\ UnitsTyped /\ UnitsTyped' /\ TlsTyped /\ Len(G) \in Nat /\ k \in Nat
      /\ sendbuf \in Seq(ClientMessage) /\ srv'.phase = "wait_hello"
      /\ Len(c2s) \in Nat /\ Len(sendbuf) \in Nat /\ srv.hellos \in Nat
  BY TypedUnits, LenProperties
  DEF Typed, UnitsTyped, TlsTyped, TlsState, InputTyped, PeerTyped, ServerState
<1> DEFINE retry(j) == \E i \in j + 1..Len(G) : IsHrr(G[i])
<1>1. /\ Ahead(G, k) /\ Keyed /\ Len(tls.rec) <= 1
      /\ \A i \in 1..Len(G) : Skipped(G[i]) \/ IsHrr(G[i])
      /\ \A i, j \in k + 1..Len(G) : IsHrr(G[i]) /\ IsHrr(G[j]) => i = j
      /\ tls.st \in {"EXPECT_SERVER_HELLO", "EXPECT_SECOND_SERVER_HELLO"} /\ tls.part = <<>>
      /\ tls.mess = <<>> \/ (tls.mess = <<"HRR">> /\ ~retry(k))
      /\ Len(Pending) <= 2 * (Len(G) - k)
      /\ Len(c2s) + Len(sendbuf) = srv.hellos + (IF tls.mess # <<>> \/ retry(k) THEN 0 ELSE 1)
  BY DEF Reads, HelloBehind
<1> HIDE DEF retry
<1>2. ASSUME NEW j \in 0..Len(G), res' = "IN_PROGRESS", Len(tls'.rec) <= 1, Keyed', Ahead(G, j)',
             \A i, h \in j + 1..Len(G) : IsHrr(G[i]) /\ IsHrr(G[h]) => i = h,
             tls'.st \in {"EXPECT_SERVER_HELLO", "EXPECT_SECOND_SERVER_HELLO"}, tls'.part = <<>>,
             tls'.mess = <<>> \/ (tls'.mess = <<"HRR">> /\ ~retry(j)),
             Len(Pending') <= 2 * (Len(G) - j),
             Len(c2s') + Len(sendbuf')
                = srv'.hellos + (IF tls'.mess # <<>> \/ retry(j) THEN 0 ELSE 1)
      PROVE  \E l \in 0..Len(G) : Reads(G, l)'
  <2>1. HelloBehind(G, j)'
    BY <1>1, <1>2 DEF HelloBehind, retry
  <2> QED
    BY <1>0, <1>2, <2>1 DEF Reads
<1>3. CASE tls.mess # <<>>
  <2>1. HandleMessage /\ tls.mess = <<"HRR">> /\ ~retry(k)
    BY <1>1, <1>3 DEF handle_input
  <2>2. tls'.rec = tls.rec /\ raw' = raw
    BY <1>0, <2>1, MessageKeepsUnits
  <2>3. Pending' = Pending /\ Ahead(G, k)'
    BY <1>1, <2>2, PendingSame, AheadSame
  <2>4. /\ tls'.st = "EXPECT_SECOND_SERVER_HELLO" /\ res' = "IN_PROGRESS" /\ Keyed'
        /\ tls'.mess = <<>> /\ tls'.part = tls.part /\ sendbuf' = Append(sendbuf, "CLIENT_HELLO")
    BY <1>1, <2>1, RetryMessage
  <2>5. Len(sendbuf') = Len(sendbuf) + 1
    BY <1>0, <2>4
  <2>6. Len(c2s') + Len(sendbuf') = srv'.hellos + 1
    <3>1. Len(c2s) + Len(sendbuf) = srv.hellos + 0
      BY <1>1, <1>3
    <3>2. c2s' = c2s /\ srv' = srv
      OBVIOUS
    <3> QED
      BY <1>0, <2>5, <3>1, <3>2
  <2> QED
    BY <1>1, <1>2, <2>1, <2>2, <2>3, <2>4, <2>6
<1>4. CASE tls.mess = <<>>
  <2>1. raw # <<>> /\ HandleUnit
    BY <1>4 DEF handle_input
  <2>2. k < Len(G)
    <3>1. Len(raw) >= 1
      BY <1>0, <2>1, TailType DEF UnitsTyped
    <3>2. Len(Pending) >= 1
      BY <1>0, <3>1, PendingIs
    <3> QED
      BY <1>0, <1>1, <3>2
  <2>3. tls.st # "POST_HANDSHAKE"
    BY DEF HandshakeStates
  <2> DEFINE r == G[k + 1]
  <2>4. CASE tls.rec = <<>> /\ Head(raw).part = 1
    <3>1. /\ tls'.rec = <<Head(raw)>> /\ raw' = Tail(raw) /\ res' = "IN_PROGRESS"
          /\ tls'.st = tls.st /\ tls'.mess = tls.mess /\ tls'.part = tls.part
          /\ tls'.dec = tls.dec /\ sendbuf' = sendbuf
      BY <2>1, <2>4, HeaderRead
    <3>2. MovesOn(0)
      BY <1>0, <2>1, <2>4, <3>1, HeaderKept
    <3>3. Ahead(G, k)'
      <4>1. MovesOn(2 * 0) /\ k + 0 <= Len(G) /\ k + 0 = k
        BY <1>0, <2>2, <3>2
      <4>2. Ahead(G, k + 0)'
        BY <1>0, <1>1, <4>1, AheadMoves
      <4> QED
        BY <4>1, <4>2
    <3>4. Len(tls'.rec) <= 1 /\ Len(Pending') = Len(Pending) - 0 /\ Len(Pending) \in Nat
      BY <1>0, <3>1, <3>2, PendingIs DEF MovesOn
    <3>5. Reads(G, k)'
      BY <1>0, <1>1, <3>1, <3>3, <3>4, ReadsStay
    <3> QED
      BY <3>5
  <2>5. CASE HeaderInHand(r)
    <3>0. k + 1 \in 0..Len(G) /\ k + 1 \in 1..Len(G) /\ k + 1 <= Len(G)
      BY <1>0, <2>2
    <3>1. Skipped(r) \/ IsHrr(r)
      BY <1>1, <3>0
    <3>2. /\ \A i \in (k + 1) + 1..Len(G) : i \in k + 1..Len(G) /\ i # k + 1
          /\ k + 1 \in k + 1..Len(G)
      BY <1>0, <3>0
    <3>3. \A i, h \in (k + 1) + 1..Len(G) : IsHrr(G[i]) /\ IsHrr(G[h]) => i = h
      BY <1>1, <3>2
    <3>4. ASSUME tls'.rec = <<>>, raw' = Tail(raw)
          PROVE  /\ Ahead(G, k + 1)' /\ Len(tls'.rec) <= 1
                 /\ Len(Pending') <= 2 * (Len(G) - (k + 1))
      <4>1. MovesOn(2)
        BY <1>0, <2>1, <2>5, <3>4, RecordGone DEF HeaderInHand
      <4>2. MovesOn(2 * 1)
        BY <4>1
      <4>3. Ahead(G, k + 1)'
        BY <1>0, <1>1, <3>0, <4>2, AheadMoves
      <4>4. Len(Pending') = Len(Pending) - 2 /\ Len(Pending) \in Nat
        BY <1>0, <4>1, PendingIs DEF MovesOn
      <4>5. Len(Pending') <= 2 * (Len(G) - (k + 1))
        BY <1>0, <1>1, <4>4
      <4> QED
        BY <3>4, <4>3, <4>5
    <3> HIDE DEF r
    <3>5. CASE Skipped(r)
      <4>1. /\ tls'.rec = <<>> /\ raw' = Tail(raw) /\ res' = "IN_PROGRESS"
            /\ tls'.st = tls.st /\ tls'.mess = tls.mess /\ tls'.part = tls.part
            /\ tls'.dec = tls.dec /\ sendbuf' = sendbuf
        BY <2>1, <2>3, <2>5, <3>5, SkippedRead
      <4>2. Keyed'
        BY <1>1, <4>1 DEF Keyed
      <4>3. retry(k + 1) = retry(k)
        <5>1. ~IsHrr(G[k + 1])
          BY <3>5 DEF r, Skipped, IsHrr
        <5>2. \A i \in k + 1..Len(G) : i = k + 1 \/ i \in (k + 1) + 1..Len(G)
          BY <1>0
        <5> QED
          BY <3>2, <5>1, <5>2 DEF retry
      <4> QED
        BY <1>1, <1>2, <1>4, <3>0, <3>3, <3>4, <4>1, <4>2, <4>3
    <3>6. CASE IsHrr(r)
      <4>1. r.ct = "hs" /\ r.ep = 0 /\ r.body = <<"HRR">> /\ tls.dec = NoKey
        BY <1>1, <3>6 DEF IsHrr, Keyed
      <4>2. /\ tls'.rec = <<>> /\ raw' = Tail(raw) /\ res' = "IN_PROGRESS"
            /\ tls'.st = tls.st /\ tls'.mess = Collected(r.body) /\ tls'.part = <<>>
            /\ tls'.dec = Advanced(r) /\ sendbuf' = sendbuf
        BY <2>1, <2>3, <2>5, <4>1, MessagesRead
      <4>3. tls'.mess = <<"HRR">> /\ tls'.dec = NoKey
        BY <1>1, <4>1, <4>2 DEF Collected, Advanced
      <4>4. Keyed'
        BY <1>1, <4>2, <4>3 DEF Keyed
      <4>5. retry(k) /\ ~retry(k + 1)
        <5>1. IsHrr(G[k + 1])
          BY <3>6 DEF r
        <5> QED
          BY <1>1, <3>2, <5>1 DEF retry
      <4>6. tls'.mess # <<>>
        BY <4>3
      <4> QED
        BY <1>1, <1>2, <3>0, <3>3, <3>4, <4>2, <4>3, <4>4, <4>5, <4>6
    <3> QED
      BY <3>1, <3>5, <3>6
  <2> QED
    BY <1>0, <1>1, <2>1, <2>2, <2>4, <2>5, NextUnit
<1> QED
  BY <1>3, <1>4

\* A record of a flight, on the wire.
LEMMA NumberedIs ==
    ASSUME NEW f \in Flights
    PROVE  /\ f \in Seq([ct : {"ccs", "alert", "hs", "app"}, enc : BOOLEAN, body : Seq(Contents)])
           /\ Numbered(f) \in Seq(FlightRecord) /\ Len(Numbered(f)) = Len(f) /\ Len(f) \in Nat
           /\ DOMAIN f = 1..Len(f)
           /\ \A n \in 1..Len(f) :
                 /\ f[n].enc \in BOOLEAN /\ f[n].body \in Seq(Contents)
                 /\ Numbered(f)[n].ct = f[n].ct /\ Numbered(f)[n].body = f[n].body
                 /\ Numbered(f)[n].ep = IF f[n].enc THEN 2 ELSE 0
                 /\ f[n].enc => Numbered(f)[n].sq = Protected(Numbered(f), n - 1)
<1> DEFINE Sent == [ct : {"ccs", "alert", "hs", "app"}, enc : BOOLEAN, body : Seq(Contents)]
<1>1. f \in Seq(Sent)
  BY FlightsAssumption
<1>2. Len(f) \in Nat /\ DOMAIN f = 1..Len(f)
  BY <1>1
<1>3. ASSUME NEW n \in 1..Len(f)
      PROVE  /\ f[n].enc \in BOOLEAN /\ f[n].body \in Seq(Contents)
             /\ Numbered(f)[n].ct = f[n].ct /\ Numbered(f)[n].body = f[n].body
             /\ Numbered(f)[n].ep = IF f[n].enc THEN 2 ELSE 0
             /\ Numbered(f)[n].sq =
                  IF f[n].enc THEN Cardinality({j \in 1..n - 1 : f[j].enc}) ELSE 0
  <2>1. f[n] \in Sent
    <3> HIDE DEF Sent
    <3> QED
      BY <1>1, <1>2
  <2>2. f[n].enc \in BOOLEAN /\ f[n].body \in Seq(Contents)
    BY <2>1
  <2> QED
    BY <1>2, <2>2 DEF Numbered
<1>4. ASSUME NEW n \in 1..Len(f), f[n].enc
      PROVE  Numbered(f)[n].sq = Protected(Numbered(f), n - 1)
  <2>1. \A j \in 1..n - 1 : j \in 1..Len(f)
    BY <1>2
  <2>2. \A j \in 1..n - 1 : f[j].enc \in BOOLEAN /\ Numbered(f)[j].ep = IF f[j].enc THEN 2 ELSE 0
    BY <1>3, <2>1
  <2>3. {j \in 1..n - 1 : f[j].enc} = {j \in 1..n - 1 : Numbered(f)[j].ep = 2}
    BY <2>2
  <2> QED
    BY <1>3, <1>4, <2>3 DEF Protected
<1> QED
  BY <1>1, <1>2, <1>3, <1>4, NumberedType

\* What may follow a part over records follows the message that it completes.
LEMMA OverIs ==
    ASSUME NEW a, NEW b, <<a, b>> \in OverRecords
    PROVE  b \in Follow(Whole(a)) /\ Whole(a) \in Contents /\ b # "HRR"
  BY DEF OverRecords, InRecord, Follow, Whole, Contents

\* The records of a whole flight.
LEMMA WholeFlightIs ==
    ASSUME NEW f \in Flights, WholeFlight(f), NEW F, F = Numbered(f)
    PROVE  /\ Len(F) \in Nat /\ Len(F) >= 1
           /\ OfFlight(F[Len(F)]) /\ LastIn(F[Len(F)]) = "FIN" /\ f[1].body # <<"HRR">>
           /\ \A n \in 1..Len(F) :
                 /\ Skipped(F[n]) \/ Carrying(F[n])
                 /\ F[n].ep = 2 => F[n].sq = Protected(F, n - 1)
                 /\ OfFlight(F[n]) =>
                      \/ /\ \A h \in 1..n - 1 : ~OfFlight(F[h])
                         /\ F[n].body[1] \in Follow("start")
                      \/ \E i \in 1..n - 1 :
                            /\ OfFlight(F[i]) /\ \A h \in i + 1..n - 1 : ~OfFlight(F[h])
                            /\ F[n].body[1] \in Follow(Whole(LastIn(F[i])))
                            /\ Whole(LastIn(F[i])) \in Contents
<1>0. /\ Len(F) = Len(f) /\ Len(f) \in Nat /\ DOMAIN f = 1..Len(f)
      /\ \A n \in 1..Len(f) :
            /\ f[n].enc \in BOOLEAN /\ f[n].body \in Seq(Contents)
            /\ F[n].ct = f[n].ct /\ F[n].body = f[n].body
            /\ F[n].ep = IF f[n].enc THEN 2 ELSE 0
            /\ f[n].enc => F[n].sq = Protected(F, n - 1)
  BY NumberedIs
<1> DEFINE hs == {i \in DOMAIN f : ~IsCcs(f[i])}
<1>1. /\ \A i \in hs : FlightPart(f[i])
      /\ Len(f) \in hs /\ LastIn(f[Len(f)]) = "FIN"
      /\ \A j \in hs :
            \/ \E i \in hs : i < j /\ (i + 1..j - 1) \cap hs = {}
                             /\ <<LastIn(f[i]), f[j].body[1]>> \in OverRecords
            \/ (1..j - 1) \cap hs = {} /\ f[j].body[1] \in {"SH", "SH-"}
  BY DEF WholeFlight
<1>2. \A n \in 1..Len(f) : n \in hs <=> ~IsCcs(f[n])
  BY <1>0
<1>3. hs \subseteq 1..Len(f)
  BY <1>0
<1> HIDE DEF hs
<1>4. ASSUME NEW n \in 1..Len(f), n \notin hs PROVE Skipped(F[n]) /\ ~OfFlight(F[n])
  BY <1>0, <1>2, <1>4 DEF IsCcs, Skipped, OfFlight
<1>5. ASSUME NEW n \in hs PROVE n \in 1..Len(f) /\ OfFlight(F[n]) /\ Carrying(F[n])
  <2>1. n \in 1..Len(f)
    BY <1>3
  <2>2. /\ f[n].ct = "hs" /\ f[n].body # <<>>
        /\ f[n].enc <=> f[n].body[1] \notin HelloParts
        /\ \A i \in 1..Len(f[n].body) - 1 : <<f[n].body[i], f[n].body[i + 1]>> \in InRecord
    BY <1>1 DEF FlightPart, HelloParts
  <2>3. f[n].body[1] # "HRR"
    <3>1. CASE f[n].body[1] \in {"SH", "SH-"}
      BY <3>1
    <3>2. CASE \E i \in hs : <<LastIn(f[i]), f[n].body[1]>> \in OverRecords
      BY <3>2, OverIs
    <3> QED
      BY <1>1, <3>1, <3>2
  <2>4. OfFlight(F[n])
    BY <1>0, <2>1, <2>2, <2>3 DEF OfFlight
  <2>5. Chained(F[n].body)
    BY <1>0, <2>1, <2>2 DEF Chained
  <2>6. F[n].ep = IF F[n].body[1] \in HelloParts THEN 0 ELSE 2
    BY <1>0, <2>1, <2>2
  <2> QED
    BY <1>0, <2>1, <2>2, <2>4, <2>5, <2>6 DEF Carrying
<1>6. Len(f) \in 1..Len(f) /\ Len(f) >= 1 /\ 1 \in 1..Len(f)
  BY <1>0, <1>1, <1>3
<1>7. f[1].body # <<"HRR">>
  <2>1. CASE 1 \in hs
    BY <1>0, <1>5, <1>6, <2>1 DEF OfFlight
  <2>2. CASE 1 \notin hs
    BY <1>2, <1>6, <2>2 DEF IsCcs
  <2> QED
    BY <2>1, <2>2
<1>8. ASSUME NEW n \in 1..Len(f), OfFlight(F[n])
      PROVE  \/ /\ \A h \in 1..n - 1 : ~OfFlight(F[h])
                /\ F[n].body[1] \in Follow("start")
             \/ \E i \in 1..n - 1 :
                   /\ OfFlight(F[i]) /\ \A h \in i + 1..n - 1 : ~OfFlight(F[h])
                   /\ F[n].body[1] \in Follow(Whole(LastIn(F[i])))
                   /\ Whole(LastIn(F[i])) \in Contents
  <2>1. n \in hs
    BY <1>4, <1>8
  <2>2. CASE (1..n - 1) \cap hs = {} /\ f[n].body[1] \in {"SH", "SH-"}
    <3>1. ASSUME NEW h \in 1..n - 1 PROVE ~OfFlight(F[h])
      <4>1. h \in 1..Len(f) /\ h \notin hs
        BY <1>0, <2>2
      <4> QED
        BY <1>4, <4>1
    <3>2. F[n].body[1] \in Follow("start")
      BY <1>0, <2>2, FollowIs
    <3> QED
      BY <3>1, <3>2
  <2>3. ASSUME NEW i \in hs, i < n, (i + 1..n - 1) \cap hs = {},
               <<LastIn(f[i]), f[n].body[1]>> \in OverRecords
        PROVE  \E j \in 1..n - 1 :
                   /\ OfFlight(F[j]) /\ \A h \in j + 1..n - 1 : ~OfFlight(F[h])
                   /\ F[n].body[1] \in Follow(Whole(LastIn(F[j])))
                   /\ Whole(LastIn(F[j])) \in Contents
    <3>1. i \in 1..n - 1 /\ i \in 1..Len(f) /\ OfFlight(F[i])
      BY <1>0, <1>5, <2>3
    <3>2. ASSUME NEW h \in i + 1..n - 1 PROVE ~OfFlight(F[h])
      <4>1. h \in 1..Len(f) /\ h \notin hs
        BY <1>0, <2>3, <3>1
      <4> QED
        BY <1>4, <4>1
    <3>3. LastIn(F[i]) = LastIn(f[i]) /\ F[n].body[1] = f[n].body[1]
      BY <1>0, <3>1 DEF LastIn
    <3>4. F[n].body[1] \in Follow(Whole(LastIn(F[i]))) /\ Whole(LastIn(F[i])) \in Contents
      BY <2>3, <3>3, OverIs
    <3> QED
      BY <3>1, <3>2, <3>4
  <2> QED
    BY <1>1, <2>1, <2>2, <2>3
<1>9. OfFlight(F[Len(F)]) /\ LastIn(F[Len(F)]) = "FIN"
  <2>1. LastIn(F[Len(f)]) = LastIn(f[Len(f)])
    BY <1>0, <1>6 DEF LastIn
  <2> QED
    BY <1>0, <1>1, <1>5, <2>1
<1>10. ASSUME NEW n \in 1..Len(f)
       PROVE  (Skipped(F[n]) \/ Carrying(F[n])) /\ (F[n].ep = 2 => F[n].sq = Protected(F, n - 1))
  BY <1>0, <1>4, <1>5
<1> QED
  BY <1>0, <1>6, <1>7, <1>8, <1>9, <1>10

\* The records of a HelloRetryRequest.
LEMMA RetryFlightIs ==
    ASSUME NEW f \in Flights, IsRetry(f), NEW F, F = Numbered(f)
    PROVE  /\ Len(F) \in Nat /\ Len(F) >= 1 /\ f[1].body = <<"HRR">> /\ IsHrr(F[1])
           /\ \A n \in 2..Len(F) : Skipped(F[n]) /\ ~IsHrr(F[n])
<1>0. /\ Len(F) = Len(f) /\ Len(f) \in Nat
      /\ f \in Seq([ct : {"ccs", "alert", "hs", "app"}, enc : BOOLEAN, body : Seq(Contents)])
      /\ \A n \in 1..Len(f) :
            /\ F[n].ct = f[n].ct /\ F[n].body = f[n].body
            /\ F[n].ep = IF f[n].enc THEN 2 ELSE 0
  BY NumberedIs
<1>1. /\ f # <<>> /\ f[1].ct = "hs" /\ ~f[1].enc /\ f[1].body = <<"HRR">>
      /\ \A i \in 2..Len(f) : IsCcs(f[i])
  BY DEF IsRetry
<1>2. Len(f) >= 1
  BY <1>0, <1>1, EmptySeq
<1>3. 1 \in 1..Len(f)
  BY <1>0, <1>2
<1>4. IsHrr(F[1])
  BY <1>0, <1>1, <1>3 DEF IsHrr
<1>5. ASSUME NEW n \in 2..Len(F) PROVE Skipped(F[n]) /\ ~IsHrr(F[n])
  <2>1. n \in 1..Len(f) /\ IsCcs(f[n])
    BY <1>0, <1>1
  <2> QED
    BY <1>0, <2>1 DEF IsCcs, Skipped, IsHrr
<1> QED
  BY <1>0, <1>1, <1>2, <1>4, <1>5

\* What is pending is all of what is ahead, and more comes behind it.
LEMMA AheadOfMore ==
    ASSUME UnitsTyped, UnitsTyped', tls' = tls, raw' = raw, NEW G \in Seq(FlightRecord),
           NEW F \in Seq(FlightRecord), NEW k \in 0..Len(G), Units(F) \in Seq(Unit),
           wire' = wire \o Units(F), net = "up", Ahead(G, k), Len(Pending) <= 2 * (Len(G) - k)
    PROVE  Ahead(G \o F, k)' /\ Len(Pending') <= 2 * (Len(G \o F) - k)
<1> DEFINE H == G \o F
<1>1. /\ Len(H) = Len(G) + Len(F)
      /\ \A i \in 1..2 * Len(G) : Units(H)[i] = Units(G)[i]
      /\ \A i \in 1..2 * Len(F) : Units(H)[2 * Len(G) + i] = Units(F)[i]
  BY UnitsOfBoth
<1>2. Len(G) \in Nat /\ Len(F) \in Nat /\ k \in Nat /\ k <= Len(G)
  BY LenProperties
<1>3. Len(Units(F)) = 2 * Len(F)
  BY <1>2, UnitsAre
<1> DEFINE w == Units(F)
<1>4. /\ Len(Pending') = Len(Pending) + Len(w) /\ Len(Pending) \in Nat
      /\ \A i \in 1..Len(Pending) : Pending'[i] = Pending[i]
      /\ \A i \in 1..Len(w) : Pending'[Len(Pending) + i] = w[i]
  <2>1. w \in Seq(Unit) /\ wire' = wire \o w
    OBVIOUS
  <2> HIDE DEF w
  <2> QED
    BY <2>1, SentBehind
<1>5. /\ Len(Pending) = 2 * (Len(G) - k)
      /\ \A i \in 1..Len(Pending) : Pending[i] = Units(G)[2 * k + i]
  BY <1>2, <1>4 DEF Ahead
<1> HIDE DEF H, w
<1>6. ASSUME NEW i \in 1..Len(Pending') PROVE Pending'[i] = Units(H)[2 * k + i]
  <2>1. CASE i \in 1..Len(Pending)
    <3>1. 2 * k + i \in 1..2 * Len(G)
      BY <1>2, <1>5, <2>1
    <3> QED
      BY <1>1, <1>4, <1>5, <2>1, <3>1
  <2>2. CASE i \notin 1..Len(Pending)
    <3>1. /\ i - Len(Pending) \in 1..2 * Len(F) /\ Len(Pending) + (i - Len(Pending)) = i
          /\ 2 * Len(G) + (i - Len(Pending)) = 2 * k + i
      BY <1>2, <1>3, <1>4, <1>5, <2>2 DEF w
    <3>2. Pending'[Len(Pending) + (i - Len(Pending))] = w[i - Len(Pending)]
      BY <1>3, <1>4, <3>1 DEF w
    <3>3. Units(H)[2 * Len(G) + (i - Len(Pending))] = w[i - Len(Pending)]
      BY <1>1, <3>1 DEF w
    <3> QED
      BY <3>1, <3>2, <3>3
  <2> QED
    BY <2>1, <2>2
<1>7. Len(Pending') = 2 * (Len(H) - k)
  BY <1>1, <1>2, <1>3, <1>4, <1>5 DEF w
<1>8. Ahead(H, k)' /\ Len(Pending') <= 2 * (Len(H) - k)
  BY <1>1, <1>2, <1>6, <1>7 DEF Ahead
<1> QED
  BY <1>8 DEF H

\* Behind the records that were passed over and retries, a whole flight.
LEMMA WholeAfter ==
    ASSUME NEW G \in Seq(FlightRecord), NEW k \in 0..Len(G), NEW F \in Seq(FlightRecord),
           \A i \in 1..Len(G) : Skipped(G[i]) \/ IsHrr(G[i]),
           \A i \in k + 1..Len(G) : ~IsHrr(G[i]), NEW f \in Flights, WholeFlight(f), F = Numbered(f)
    PROVE  WholeBehind(G \o F, k) /\ Latest(G \o F, k, "start") /\ Protected(G \o F, k) = 0
<1> DEFINE H == G \o F
<1> DEFINE g == Len(G)
<1>0. /\ Len(H) = g + Len(F)
      /\ \A i \in 1..g : H[i] = G[i]
      /\ \A i \in 1..Len(F) : H[g + i] = F[i]
  BY UnitsOfBoth
<1>1. g \in Nat /\ Len(F) \in Nat /\ k \in Nat /\ k <= g
  BY LenProperties
<1>2. /\ Len(F) >= 1 /\ OfFlight(F[Len(F)]) /\ LastIn(F[Len(F)]) = "FIN"
      /\ \A n \in 1..Len(F) :
            /\ Skipped(F[n]) \/ Carrying(F[n])
            /\ F[n].ep = 2 => F[n].sq = Protected(F, n - 1)
            /\ OfFlight(F[n]) =>
                 \/ /\ \A h \in 1..n - 1 : ~OfFlight(F[h])
                    /\ F[n].body[1] \in Follow("start")
                 \/ \E i \in 1..n - 1 :
                       /\ OfFlight(F[i]) /\ \A h \in i + 1..n - 1 : ~OfFlight(F[h])
                       /\ F[n].body[1] \in Follow(Whole(LastIn(F[i])))
                       /\ Whole(LastIn(F[i])) \in Contents
  BY WholeFlightIs
<1> HIDE DEF H, g
<1>3. ASSUME NEW i \in 1..g PROVE ~OfFlight(H[i]) /\ H[i].ep = 0
  <2>1. Skipped(G[i]) \/ IsHrr(G[i])
    BY DEF g
  <2> QED
    BY <1>0, <2>1 DEF Skipped, IsHrr, OfFlight
<1>4. ASSUME NEW j \in 1..Len(H), j \notin 1..g
      PROVE  j - g \in 1..Len(F) /\ g + (j - g) = j /\ H[j] = F[j - g]
  <2>1. j - g \in 1..Len(F) /\ g + (j - g) = j
    BY <1>0, <1>1, <1>4
  <2>2. H[g + (j - g)] = F[j - g]
    BY <1>0, <2>1
  <2> QED
    BY <2>1, <2>2
<1>5. ASSUME NEW i \in k + 1..Len(H) PROVE Skipped(H[i]) \/ Carrying(H[i])
  <2>1. i \in 1..Len(H)
    BY <1>0, <1>1
  <2>2. CASE i \in 1..g
    <3>1. i \in k + 1..Len(G)
      BY <1>1, <2>2 DEF g
    <3> QED
      BY <1>0, <2>2, <3>1 DEF g
  <2>3. CASE i \notin 1..g
    BY <1>2, <1>4, <2>1, <2>3
  <2> QED
    BY <2>2, <2>3
<1>6. Len(H) >= 1 /\ OfFlight(H[Len(H)]) /\ LastIn(H[Len(H)]) = "FIN"
  <2>1. Len(F) \in 1..Len(F)
    BY <1>1, <1>2
  <2>2. H[g + Len(F)] = F[Len(F)]
    BY <1>0, <2>1
  <2> QED
    BY <1>0, <1>1, <1>2, <2>2
<1>7. ASSUME NEW j \in 1..Len(H), OfFlight(H[j])
      PROVE  \E y \in Contents \cup {"start"} : Latest(H, j - 1, y) /\ H[j].body[1] \in Follow(y)
  <2>1. j \notin 1..g
    BY <1>3, <1>7
  <2> DEFINE n == j - g
  <2>2. n \in 1..Len(F) /\ g + n = j /\ H[j] = F[n]
    BY <1>4, <2>1
  <2> HIDE DEF n
  <2>3. ASSUME NEW l \in 0..n - 1, \A h \in l + 1..n - 1 : ~OfFlight(F[h]), NEW h \in g + l + 1..j - 1
        PROVE  ~OfFlight(H[h])
    <3>1. h \in 1..Len(H) /\ h \notin 1..g /\ h - g \in l + 1..n - 1
      BY <1>0, <1>1, <2>2
    <3> QED
      BY <1>4, <2>3, <3>1
  <2>4. CASE /\ \A h \in 1..n - 1 : ~OfFlight(F[h])
             /\ F[n].body[1] \in Follow("start")
    <3>1. ASSUME NEW h \in 1..j - 1 PROVE ~OfFlight(H[h])
      <4>1. CASE h \in 1..g
        BY <1>3, <4>1
      <4>2. CASE h \notin 1..g
        <5>1. 0 \in 0..n - 1 /\ h \in g + 0 + 1..j - 1 /\ 0 + 1 = 1
          BY <1>1, <2>2, <4>2
        <5> QED
          BY <2>3, <2>4, <5>1
      <4> QED
        BY <4>1, <4>2
    <3>2. Latest(H, j - 1, "start")
      BY <3>1 DEF Latest
    <3> QED
      BY <2>2, <2>4, <3>2
  <2>5. ASSUME NEW i \in 1..n - 1, OfFlight(F[i]), \A h \in i + 1..n - 1 : ~OfFlight(F[h]),
               F[n].body[1] \in Follow(Whole(LastIn(F[i]))), Whole(LastIn(F[i])) \in Contents
        PROVE  \E y \in Contents \cup {"start"} : Latest(H, j - 1, y) /\ H[j].body[1] \in Follow(y)
    <3>1. i \in 0..n - 1 /\ i \in 1..Len(F) /\ g + i \in 1..j - 1
      BY <1>1, <2>2
    <3>2. H[g + i] = F[i]
      BY <1>0, <3>1
    <3>3. \A h \in g + i + 1..j - 1 : ~OfFlight(H[h])
      BY <2>3, <2>5, <3>1
    <3>4. Latest(H, j - 1, Whole(LastIn(F[i])))
      BY <2>5, <3>1, <3>2, <3>3 DEF Latest
    <3> QED
      BY <2>2, <2>5, <3>4
  <2>6. OfFlight(F[n])
    BY <1>7, <2>2
  <2> QED
    BY <1>2, <2>2, <2>4, <2>5, <2>6
<1>13. ASSUME NEW n \in Nat, NEW c \in Nat,
             \A i \in 1..n : H[i].ep # 2, \A i \in 1..c : H[n + i].ep = F[i].ep
      PROVE  Protected(H, n + c) = Protected(F, c)
  BY <1>13, ProtectedBehind
<1>14. 0 \in Nat
  OBVIOUS
<1>8. ASSUME NEW j \in 1..Len(H), H[j].ep = 2 PROVE H[j].sq = Protected(H, j - 1)
  <2>1. j \notin 1..g
    BY <1>3, <1>8
  <2> DEFINE n == j - g
  <2>2. n \in 1..Len(F) /\ g + n = j /\ H[j] = F[n]
    BY <1>4, <2>1
  <2> HIDE DEF n
  <2>3. H[j].sq = Protected(F, n - 1)
    BY <1>2, <1>8, <2>2
  <2>4. n - 1 \in Nat /\ g + (n - 1) = j - 1 /\ \A i \in 1..n - 1 : i \in 1..Len(F)
    BY <1>1, <2>2
  <2>5. \A i \in 1..n - 1 : H[g + i].ep = F[i].ep
    BY <1>0, <2>4
  <2>6. \A i \in 1..g : H[i].ep # 2
    BY <1>3
  <2>7. Protected(H, g + (n - 1)) = Protected(F, n - 1)
    BY <1>1, <1>13, <2>4, <2>5, <2>6, Zenon
  <2> QED
    BY <2>3, <2>4, <2>7
<1>9. WholeBehind(H, k)
  BY <1>5, <1>6, <1>7, <1>8 DEF WholeBehind
<1>10. \A i \in 1..k : i \in 1..g
  BY <1>1
<1>11. Latest(H, k, "start")
  BY <1>3, <1>10 DEF Latest
<1>12. Protected(H, k) = 0
  <2>1. \A i \in 1..k : H[i].ep # 2
    BY <1>3, <1>10
  <2>2. \A i \in 1..0 : H[k + i].ep = F[i].ep
    OBVIOUS
  <2>3. Protected(H, k + 0) = Protected(F, 0)
    BY <1>1, <1>13, <2>1, <2>2, <1>14, Zenon
  <2> QED
    BY <1>1, <2>3, ProtectedNext
<1> QED
  BY <1>9, <1>11, <1>12 DEF H

\* All that the client has said is ClientHello.
LEMMA HellosCounted ==
    ASSUME c2s \in Seq(ClientMessage), Hellos(c2s)
    PROVE  Count("CLIENT_HELLO") = Len(c2s) /\ Count("FINISHED") = 0
<1>1. Len(c2s) \in Nat /\ DOMAIN c2s = 1..Len(c2s)
  BY LenProperties
<1>2. {i \in DOMAIN c2s : c2s[i] = "CLIENT_HELLO"} = 1..Len(c2s)
  BY <1>1 DEF Hellos
<1>3. {i \in DOMAIN c2s : c2s[i] = "FINISHED"} = {}
  BY DEF Hellos
<1>4. Cardinality(1..Len(c2s)) = Len(c2s)
  <2>1. \A a, b \in Int : Cardinality(a..b) = IF a > b THEN 0 ELSE b - a + 1
    BY FS_Interval
  <2>2. Cardinality(1..Len(c2s)) = IF 1 > Len(c2s) THEN 0 ELSE Len(c2s) - 1 + 1
    BY <1>1, <2>1
  <2> QED
    BY <1>1, <2>2
<1> QED
  BY <1>2, <1>3, <1>4, FS_EmptySet DEF Count

\* The answer to a ClientHello by a server that keeps to the protocol.
LEMMA HonestFlight ==
    ASSUME Typed, Typed', Conversation, tls.st \in HandshakeStates, pc \in {"hs_recv", "hs_input"},
           NEW f \in Flights, ServerFlight(f), f \in Honest,
           NEW G \in Seq(FlightRecord), NEW k \in 0..Len(G), Reads(G, k)
    PROVE  \E H \in Seq(FlightRecord) : \E l \in 0..Len(H) : Reads(H, l)'
<1> DEFINE F == Numbered(f)
<1> DEFINE H == G \o F
<1>0. /\ UnitsTyped /\ UnitsTyped' /\ Len(G) \in Nat /\ k \in Nat /\ k <= Len(G)
      /\ c2s \in Seq(ClientMessage) /\ Len(c2s) \in Nat /\ Len(sendbuf) \in Nat
      /\ srv.hellos \in Nat /\ srv \in ServerState
  BY TypedUnits, LenProperties
  DEF Typed, UnitsTyped, TlsTyped, TlsState, InputTyped, PeerTyped, ServerState
<1>1. /\ net = "up" /\ srv.phase = "wait_hello" /\ Count("CLIENT_HELLO") = srv.hellos + 1
      /\ wire' = wire \o Units(F) /\ net' = net
      /\ UNCHANGED <<tls, raw, res, sendbuf, c2s>>
  BY DEF ServerFlight, ServerKeeps, ptlsVars
<1>2. /\ srv'.hellos = srv.hellos + 1
      /\ srv'.phase = IF f[1].body = <<"HRR">> THEN "wait_hello" ELSE "wait_finished"
  BY <1>0, <1>1 DEF ServerFlight, ServerState
<1> DEFINE retry(J, j) == \E i \in j + 1..Len(J) : IsHrr(J[i])
<1>3. /\ Ahead(G, k) /\ Keyed /\ Len(tls.rec) <= 1 /\ res = "IN_PROGRESS"
      /\ \A i \in 1..Len(G) : Skipped(G[i]) \/ IsHrr(G[i])
      /\ tls.st \in {"EXPECT_SERVER_HELLO", "EXPECT_SECOND_SERVER_HELLO"} /\ tls.part = <<>>
      /\ tls.mess = <<>> \/ tls.mess = <<"HRR">>
      /\ Len(Pending) <= 2 * (Len(G) - k)
      /\ Len(c2s) + Len(sendbuf) = srv.hellos + (IF tls.mess # <<>> \/ retry(G, k) THEN 0 ELSE 1)
  BY <1>1 DEF Reads, HelloBehind
<1>4. Len(c2s) = srv.hellos + 1
  <2>1. Hellos(c2s)
    BY DEF Conversation, OpenNow, HandshakeStates
  <2> QED
    BY <1>0, <1>1, <2>1, HellosCounted
<1> HIDE DEF retry
<1>5. tls.mess = <<>> /\ ~retry(G, k) /\ Len(sendbuf) = 0
  BY <1>0, <1>3, <1>4
<1>6. F \in Seq(FlightRecord) /\ Units(F) \in Seq(Unit)
  BY NumberedIs, FlightKnown
<1> HIDE DEF F
<1>7. Ahead(H, k)' /\ Len(Pending') <= 2 * (Len(H) - k)
  BY <1>0, <1>1, <1>3, <1>6, AheadOfMore
<1>8. /\ H \in Seq(FlightRecord) /\ Len(H) = Len(G) + Len(F)
      /\ \A i \in 1..Len(G) : H[i] = G[i]
      /\ \A i \in 1..Len(F) : H[Len(G) + i] = F[i]
  BY <1>6, UnitsOfBoth
<1>9. Len(F) \in Nat /\ k \in 0..Len(H)
  BY <1>0, <1>6, <1>8, LenProperties
<1> HIDE DEF H
<1>10. Keyed' /\ Len(tls'.rec) <= 1 /\ res' = "IN_PROGRESS"
  BY <1>1, <1>3 DEF Keyed
<1>11. \A i \in k + 1..Len(G) : ~IsHrr(G[i])
  BY <1>5 DEF retry
<1>12. CASE WholeFlight(f)
  <2>1. WholeBehind(H, k) /\ Latest(H, k, "start") /\ Protected(H, k) = 0
    BY <1>3, <1>6, <1>11, <1>12, WholeAfter DEF F, H
  <2>2. NextNumber' = 0
    BY <1>1, <1>3 DEF NextNumber, Keyed, NoKey
  <2>3. Ready("start")'
    BY <1>1, <1>3, <1>5, FollowIs DEF Ready, Takes
  <2>4. FlightBehind(H, k)'
    BY <2>1, <2>2, <2>3 DEF FlightBehind
  <2>5. srv'.phase = "wait_finished"
    BY <1>2, <1>12, WholeFlightIs
  <2> QED
    BY <1>7, <1>8, <1>9, <1>10, <2>4, <2>5 DEF Reads
<1>13. CASE IsRetry(f)
  <2>1. /\ Len(F) >= 1 /\ f[1].body = <<"HRR">> /\ IsHrr(F[1])
        /\ \A n \in 2..Len(F) : Skipped(F[n]) /\ ~IsHrr(F[n])
    BY <1>13, RetryFlightIs DEF F
  <2>2. ASSUME NEW i \in 1..Len(H), i \notin 1..Len(G)
        PROVE  i = Len(G) + 1 \/ (Skipped(H[i]) /\ ~IsHrr(H[i]))
    <3>1. CASE i # Len(G) + 1
      <4>1. i - Len(G) \in 2..Len(F) /\ Len(G) + (i - Len(G)) = i /\ i - Len(G) \in 1..Len(F)
        BY <1>0, <1>8, <1>9, <2>2, <3>1
      <4>2. H[Len(G) + (i - Len(G))] = F[i - Len(G)]
        BY <1>8, <4>1
      <4> QED
        BY <2>1, <4>1, <4>2
    <3> QED
      BY <3>1
  <2>3. Len(G) + 1 \in k + 1..Len(H) /\ IsHrr(H[Len(G) + 1])
    <3>1. 1 \in 1..Len(F)
      BY <1>9, <2>1
    <3>2. H[Len(G) + 1] = F[1]
      BY <1>8, <3>1
    <3> QED
      BY <1>0, <1>8, <1>9, <2>1, <3>2
  <2>4. ASSUME NEW i \in 1..Len(H) PROVE Skipped(H[i]) \/ IsHrr(H[i])
    <3>1. CASE i \in 1..Len(G)
      BY <1>3, <1>8, <3>1
    <3>2. CASE i \notin 1..Len(G)
      BY <2>2, <2>3, <3>2
    <3> QED
      BY <3>1, <3>2
  <2>5. ASSUME NEW i \in k + 1..Len(H), IsHrr(H[i]) PROVE i = Len(G) + 1
    <3>0. i \in 1..Len(H) /\ (i \in 1..Len(G) => i \in k + 1..Len(G))
      BY <1>0, <1>8, <1>9
    <3>1. CASE i \in 1..Len(G)
      BY <1>8, <1>11, <2>5, <3>0, <3>1
    <3>2. CASE i \notin 1..Len(G)
      BY <2>2, <2>5, <3>0, <3>2
    <3> QED
      BY <3>1, <3>2
  <2>6. Len(c2s') + Len(sendbuf') = srv'.hellos
    BY <1>0, <1>1, <1>2, <1>4, <1>5
  <2>7. \E i \in k + 1..Len(H) : IsHrr(H[i])
    BY <2>3
  <2>8. srv'.hellos + 0 = srv'.hellos
    BY <1>0, <1>2
  <2>9. tls'.mess = <<>> /\ tls'.part = <<>>
        /\ tls'.st \in {"EXPECT_SERVER_HELLO", "EXPECT_SECOND_SERVER_HELLO"}
    BY <1>1, <1>3, <1>5
  <2>10. \A i, j \in k + 1..Len(H) : IsHrr(H[i]) /\ IsHrr(H[j]) => i = j
    BY <2>5
  <2>11. HelloBehind(H, k)'
    BY <1>7, <2>4, <2>6, <2>7, <2>8, <2>9, <2>10 DEF HelloBehind
  <2>12. srv'.phase = "wait_hello"
    BY <1>2, <2>1
  <2> QED
    BY <1>7, <1>8, <1>9, <1>10, <2>11, <2>12 DEF Reads
<1> QED
  BY <1>12, <1>13 DEF Honest

\* More comes behind what is ahead, or what is on its way is lost.
LEMMA AheadStays ==
    ASSUME UnitsTyped, UnitsTyped', tls' = tls, raw' = raw, NEW G, Len(G) \in Nat,
           NEW k \in 0..Len(G), Ahead(G, k), NEW w \in Seq(Unit),
           \/ net = "up" /\ wire' = wire \o w
           \/ net' # "up" /\ wire' = <<>>
    PROVE  Ahead(G, k)'
<1>0. Len(G) \in Nat /\ k \in Nat /\ k <= Len(G)
  OBVIOUS
<1>1. CASE net = "up" /\ wire' = wire \o w
  <2>1. /\ Len(Pending') = Len(Pending) + Len(w) /\ Len(Pending) \in Nat /\ Len(w) \in Nat
        /\ \A i \in 1..Len(Pending) : Pending'[i] = Pending[i]
    BY <1>1, SentBehind
  <2>2. Len(Pending) >= 2 * (Len(G) - k)
    BY <1>1 DEF Ahead
  <2>3. ASSUME NEW i \in 1..Len(Pending'), i <= 2 * (Len(G) - k)
        PROVE  Pending'[i] = Units(G)[2 * k + i]
    <3>1. i \in 1..Len(Pending)
      BY <1>0, <2>1, <2>2, <2>3
    <3> QED
      BY <2>1, <2>3, <3>1 DEF Ahead
  <2>4. Len(Pending') >= 2 * (Len(G) - k)
    BY <1>0, <2>1, <2>2
  <2> QED
    BY <2>3, <2>4 DEF Ahead
<1>2. CASE net' # "up" /\ wire' = <<>>
  <2>1. /\ Len(Pending) = Len(tls.rec) + Len(raw) + Len(wire)
        /\ Len(tls.rec) \in Nat /\ Len(raw) \in Nat /\ Len(wire) \in Nat
        /\ \A i \in 1..Len(tls.rec) : Pending[i] = tls.rec[i]
        /\ \A i \in 1..Len(raw) : Pending[Len(tls.rec) + i] = raw[i]
    BY PendingIs
  <2>2. /\ Len(Pending') = Len(tls.rec) + Len(raw)
        /\ \A i \in 1..Len(tls.rec) : Pending'[i] = tls.rec[i]
        /\ \A i \in 1..Len(raw) : Pending'[Len(tls.rec) + i] = raw[i]
    BY <1>2, <2>1, PendingIsNext
  <2> DEFINE c == Len(tls.rec)
  <2>3. c \in Nat
    BY <2>1
  <2>4. ASSUME NEW i \in 1..Len(Pending') PROVE Pending'[i] = Pending[i] /\ i \in 1..Len(Pending)
    <3>1. CASE i \in 1..c
      BY <2>1, <2>2, <3>1
    <3>2. CASE i \notin 1..c
      <4>1. i - c \in 1..Len(raw) /\ c + (i - c) = i
        BY <2>1, <2>2, <2>3, <3>2
      <4>2. Pending'[c + (i - c)] = raw[i - c] /\ Pending[c + (i - c)] = raw[i - c]
        BY <2>1, <2>2, <4>1
      <4> QED
        BY <2>1, <2>2, <4>1, <4>2
    <3> QED
      BY <3>1, <3>2
  <2> QED
    BY <1>2, <2>4 DEF Ahead
<1> QED
  BY <1>1, <1>2

\* The units of a ticket.
LEMMA TicketUnits ==
    ASSUME Typed, NEW n \in TicketRecords, ServerTicket(n)
    PROVE  \E w \in Seq(Unit) : wire' = wire \o w
<1>1. PeerTyped /\ srv.phase \in {"wait_finished", "up"}
  BY DEF ServerTicket, Typed
<1>2. \A m \in Contents : /\ Sealed("hs", <<m>>) \in WireRecord
                          /\ [Sealed("hs", <<m>>) EXCEPT !.sq = @ + 1] \in WireRecord
  BY <1>1, ControlRecordType DEF WireRecord
<1>3. /\ <<Sealed("hs", <<"NST">>)>> \in Seq(WireRecord)
      /\ <<Sealed("hs", <<"NST-">>),
           [Sealed("hs", <<"-NST">>) EXCEPT !.sq = @ + 1]>> \in Seq(WireRecord)
  BY <1>2 DEF Contents
<1> QED
  BY <1>3, UnitsType DEF ServerTicket

\* What else the server and the network do leaves the client where it is.
LEMMA HonestEnvironment ==
    ASSUME Typed, Typed', Conversation, Served, Environment, Courteous', NotRefusedYet
    PROVE  NotRefusedYet'
<1>1. ServerKeeps
  BY EnvironmentLeaves
<1>2. UNCHANGED <<tls, raw, res, sendbuf, pc, c2s>>
  BY <1>1 DEF ServerKeeps, ptlsVars, clientVars
<1>3. pc \in {"hs_recv", "hs_input"} /\ tls.st \in HandshakeStates /\ srv'.honest
  BY <1>2 DEF Courteous
<1>4. srv \in ServerState /\ UnitsTyped /\ UnitsTyped' /\ c2s \in Seq(ClientMessage)
  BY DEF Typed, UnitsTyped, TlsTyped, TlsState, InputTyped, PeerTyped
<1>5. srv.phase # "up" /\ Count("FINISHED") = 0
  <2>1. ~OpenNow /\ tls.st # "NULL"
    BY <1>3 DEF OpenNow, HandshakeStates
  <2> QED
    BY <1>4, <2>1, HellosCounted DEF Served, Conversation
<1>6. CASE \E f \in Flights : ServerFlight(f)
  <2>1. PICK f \in Flights : ServerFlight(f)
    BY <1>6
  <2>2. srv.honest /\ f \in Honest
    BY <1>3, <1>4, <2>1 DEF ServerFlight, ServerState
  <2>3. Courteous
    BY <1>3, <2>2 DEF Courteous
  <2> QED
    BY <1>3, <2>1, <2>2, <2>3, HonestFlight DEF NotRefusedYet
<1>7. CASE NetFin \/ NetReset \/ \E n \in TicketRecords : ServerTicket(n)
  <2>1. srv'.honest = srv.honest /\ srv'.phase = srv.phase /\ srv'.hellos = srv.hellos
    BY <1>4, <1>7 DEF NetFin, NetReset, ServerTicket, ServerState
  <2>2. Courteous
    BY <1>3, <2>1 DEF Courteous
  <2>3. PICK G \in Seq(FlightRecord) : \E k \in 0..Len(G) : Reads(G, k)
    BY <2>2 DEF NotRefusedYet
  <2>4. PICK k \in 0..Len(G) : Reads(G, k)
    BY <2>3
  <2>5. Len(G) \in Nat /\ Ahead(G, k) /\ Len(tls.rec) <= 1 /\ res = "IN_PROGRESS"
    BY <2>4, LenProperties DEF Reads
  <2>6. ASSUME Ahead(G, k)', srv.phase = "wait_hello" => Len(Pending') <= 2 * (Len(G) - k)
        PROVE  NotRefusedYet'
    <3>1. Reads(G, k)'
      BY <1>2, <2>1, <2>4, <2>5, <2>6, ReadsStay
    <3> QED
      BY <3>1 DEF NotRefusedYet
  <2>7. CASE NetFin
    <3>1. Pending' = Pending /\ net' # "up"
      BY <1>2, <2>7, PendingSame DEF NetFin
    <3>2. Ahead(G, k)'
      BY <2>5, <3>1, AheadSame
    <3> QED
      BY <2>4, <2>6, <3>1, <3>2 DEF Reads, HelloBehind
  <2>8. CASE NetReset
    <3>1. wire' = <<>> /\ net' # "up" /\ <<>> \in Seq(Unit)
      BY <2>8 DEF NetReset
    <3>2. Ahead(G, k)'
      BY <1>2, <1>4, <2>5, <3>1, AheadStays
    <3>3. Len(Pending') <= Len(Pending) /\ Len(Pending) \in Nat /\ Len(Pending') \in Nat
      <4>1. Len(Pending) = Len(tls.rec) + Len(raw) + Len(wire)
            /\ Len(tls.rec) \in Nat /\ Len(raw) \in Nat /\ Len(wire) \in Nat
        BY <1>4, PendingIs
      <4>2. Len(Pending') = Len(tls'.rec) + Len(raw') + Len(wire')
        BY <1>4, PendingIsNext
      <4> QED
        BY <1>2, <3>1, <4>1, <4>2
    <3>4. srv.phase = "wait_hello" => Len(Pending') <= 2 * (Len(G) - k)
      BY <2>4, <2>5, <3>3 DEF Reads, HelloBehind
    <3> QED
      BY <2>6, <3>2, <3>4
  <2>9. ASSUME NEW n \in TicketRecords, ServerTicket(n) PROVE NotRefusedYet'
    <3>1. net = "up" /\ srv.phase = "wait_finished"
      BY <1>5, <2>9 DEF ServerTicket
    <3>2. PICK w \in Seq(Unit) : wire' = wire \o w
      BY <1>4, <2>9, TicketUnits
    <3>3. Ahead(G, k)'
      BY <1>2, <1>4, <2>5, <3>1, <3>2, AheadStays
    <3> QED
      BY <2>6, <3>1, <3>3
  <2> QED
    BY <1>7, <2>7, <2>8, <2>9
<1>8. ~ServerEstablished /\ ~ServerCloses /\ (\A n : ~ServerApp(n)) /\ (\A m : ~ServerKeyUpdate(m))
  <2>1. ~ServerEstablished
    BY <1>5 DEF ServerEstablished
  <2>2. ~ServerCloses
    BY <1>5 DEF ServerCloses
  <2>3. ASSUME NEW n PROVE ~ServerApp(n)
    BY <1>5 DEF ServerApp
  <2>4. ASSUME NEW m PROVE ~ServerKeyUpdate(m)
    BY <1>5 DEF ServerKeyUpdate
  <2> QED
    BY <2>1, <2>2, <2>3, <2>4
<1> QED
  BY <1>6, <1>7, <1>8 DEF Environment

\* The server waits for the ClientHello of a connection that is being made.
LEMMA StepUnsaid ==
    ASSUME Conversation, Unsaid, Typed, [Next]_vars
    PROVE  Unsaid'
<1>1. CASE Starting /\ Environment
  <2>1. wire = <<>> /\ srv.phase = "wait_hello" /\ srv.hellos = 0 /\ c2s = <<>>
    BY <1>1 DEF Unsaid, Conversation
  <2>2. UNCHANGED <<pc, tls>>
    BY <1>1, EnvironmentLeaves DEF ServerKeeps, ptlsVars, clientVars
  <2>3. Count("CLIENT_HELLO") = 0
    <3>1. {i \in DOMAIN c2s : c2s[i] = "CLIENT_HELLO"} = {}
      BY <2>1, OneMessage
    <3> QED
      BY <3>1, FS_EmptySet DEF Count
  <2>4. \A f : ~ServerFlight(f)
    BY <2>1, <2>3 DEF ServerFlight
  <2>5. NetFin \/ NetReset
    BY <1>1, <2>1, <2>4
    DEF Environment, ServerEstablished, ServerCloses, ServerTicket, ServerApp, ServerKeyUpdate
  <2>6. wire' = <<>> /\ srv' = srv
    BY <2>1, <2>5 DEF NetFin, NetReset
  <2> QED
    BY <1>1, <2>1, <2>2, <2>6 DEF Unsaid, Starting
<1>2. CASE ~Starting /\ Environment
  BY <1>2, EnvironmentLeaves DEF ServerKeeps, clientVars, Unsaid, Starting
<1>3. CASE UNCHANGED vars
  BY <1>3 DEF vars, ptlsVars, clientVars, Unsaid, Starting
<1>4. CASE Connect
  <2>1. pc' = "connect_new" /\ wire' = <<>> /\ srv' = [NoServer EXCEPT !.phase = "wait_hello"]
    BY <1>4 DEF Connect
  <2>2. srv'.phase = "wait_hello" /\ srv'.hellos = 0
    BY <2>1 DEF NoServer
  <2> QED
    BY <2>1, <2>2 DEF Unsaid
<1>5. CASE ConnectNew
  <2>1. CASE pc' = "connect_name" /\ FreshTls(NewClient, "OK") /\ UNCHANGED <<wire, srv>>
    BY <1>5, <2>1 DEF ConnectNew, FreshTls, Unsaid, Starting
  <2>2. CASE pc' = "idle"
    BY <2>2 DEF Unsaid, Starting
  <2> QED
    BY <1>5, <2>1, <2>2 DEF ConnectNew, Return
<1>6. CASE ConnectName
  BY <1>6 DEF ConnectName, Return, ptlsVars, Unsaid, Starting
<1>7. CASE ConnectBuffer
  BY <1>7 DEF ConnectBuffer, Return, ptlsVars, Unsaid, Starting
<1>8. CASE (Calls /\ ~Connect) \/ (Running /\ ~ConnectNew /\ ~ConnectName /\ ~ConnectBuffer)
  <2>1. ~Starting'
    <3>1. CASE Calls /\ ~Connect
      BY <3>1 DEF Calls, ConnectRefused, Send, SendFails, Close, ReceiveCall, Return, Starting
    <3>2. CASE HandshakeStarts \/ \E n \in 1..RawCapacity : HandshakeRead(n) \/ ReceiveRead(n)
      BY <3>2 DEF HandshakeStarts, HandshakeRead, ReceiveRead, Return, Starting
    <3>3. CASE HandshakeInput \/ ReceiveInput
      BY <3>3 DEF HandshakeInput, ReceiveInput, clientVars, Starting
    <3>4. CASE \/ HandshakeContinues \/ HandshakeCompletes \/ HandshakeFails \/ HandshakeAborts
      BY <3>4 DEF HandshakeContinues, HandshakeCompletes, HandshakeFails, HandshakeAborts,
                  Return, Starting
    <3>5. CASE \/ ReceiveBuffered \/ ReceiveAllocates \/ ReceiveDelivers \/ ReceiveReadsOn
               \/ ReceiveFails \/ ReceiveDisconnected \/ ReceiveTimesOut
      BY <3>5 DEF ReceiveBuffered, ReceiveAllocates, ReceiveDelivers, ReceiveReadsOn,
                  ReceiveFails, ReceiveDisconnected, ReceiveTimesOut, Delivered, Return, Starting
    <3> QED
      BY <1>8, <3>1, <3>2, <3>3, <3>4, <3>5 DEF Running
  <2> QED
    BY <2>1 DEF Unsaid
<1> QED
  BY <1>1, <1>2, <1>3, <1>4, <1>5, <1>6, <1>7, <1>8 DEF Next

\* The ClientHello goes out: nothing has been read and nothing is there.
LEMMA HonestStarts ==
    ASSUME Typed, Conversation, Unsaid, HandshakeStarts, Courteous'
    PROVE  NotRefusedYet'
<1>0. pc = "hs_start" /\ pc' # "idle"
  BY DEF HandshakeStarts, Courteous
<1>1. /\ tls = NewClient /\ raw = <<>> /\ wire = <<>> /\ sendbuf = <<>> /\ c2s = <<>>
      /\ srv.phase = "wait_hello" /\ srv.hellos = 0
  BY <1>0, NewTls DEF Unsaid, Conversation, Starting, Typed, Drained
<1>2. /\ tls' = [NewClient EXCEPT !.st = "EXPECT_SERVER_HELLO"] /\ res' = "IN_PROGRESS"
      /\ c2s' = Append(<<>>, "CLIENT_HELLO")
      /\ UNCHANGED <<raw, wire, sendbuf, srv>>
  BY <1>0, <1>1 DEF HandshakeStarts, Return
<1>3. /\ tls'.st = "EXPECT_SERVER_HELLO" /\ tls'.rec = <<>> /\ tls'.mess = <<>>
      /\ tls'.part = <<>> /\ tls'.dec = NoKey
  BY <1>2 DEF NewClient
<1>4. Pending' = <<>> /\ Len(<<>>) = 0
  BY <1>1, <1>2, <1>3 DEF Pending
<1>5. Ahead(<<>>, 0)'
  BY <1>4 DEF Ahead
<1>6. Len(c2s') = 1 /\ Len(sendbuf') = 0
  BY <1>1, <1>2
<1>7. HelloBehind(<<>>, 0)'
  BY <1>1, <1>2, <1>3, <1>4, <1>6 DEF HelloBehind
<1>8. Reads(<<>>, 0)'
  BY <1>1, <1>2, <1>3, <1>5, <1>7 DEF Reads, Keyed
<1>9. <<>> \in Seq(FlightRecord) /\ 0 \in 0..Len(<<>>)
  BY <1>4
<1> QED
  BY <1>8, <1>9 DEF NotRefusedYet

\* A TCP read, however much it brings.
LEMMA HonestRead ==
    ASSUME Typed, Typed', NEW n \in 1..RawCapacity, HandshakeRead(n), Courteous', NotRefusedYet
    PROVE  NotRefusedYet'
<1>1. /\ pc = "hs_recv" /\ net # "rst" /\ n <= Len(wire) /\ raw' = SubSeq(wire, 1, n)
      /\ wire' = SubSeq(wire, n + 1, Len(wire)) /\ tls' = [tls EXCEPT !.slow = tls.rec # <<>>]
      /\ res' = "IN_PROGRESS" /\ UNCHANGED <<sendbuf, net, c2s, srv>>
  BY DEF HandshakeRead, ReadSome
<1>2. tls \in TlsState /\ raw = <<>> /\ UnitsTyped /\ UnitsTyped' /\ Len(wire) \in Nat
  BY <1>1, LenProperties
  DEF Typed, UnitsTyped, TlsTyped, TlsState, InputTyped, PeerTyped, Drained
<1>3. /\ tls'.st = tls.st /\ tls'.mess = tls.mess /\ tls'.part = tls.part
      /\ tls'.dec = tls.dec /\ tls'.rec = tls.rec
  BY <1>1, <1>2 DEF TlsState
<1>4. Courteous
  BY <1>1, <1>3 DEF Courteous
<1>5. PICK G \in Seq(FlightRecord) : \E k \in 0..Len(G) : Reads(G, k)
  BY <1>4 DEF NotRefusedYet
<1>6. PICK k \in 0..Len(G) : Reads(G, k)
  BY <1>5
<1>7. Len(G) \in Nat /\ Ahead(G, k) /\ Len(tls.rec) <= 1
  BY <1>6, LenProperties DEF Reads
<1>8. n \in 0..Len(wire)
  BY <1>1, <1>2, SizesAssumption
<1>9. MovesOn(0)
  BY <1>1, <1>2, <1>3, <1>8, ReadMovesNothing
<1>10. Ahead(G, k)'
  <2>1. MovesOn(2 * 0) /\ k + 0 <= Len(G) /\ k + 0 = k
    BY <1>7, <1>9
  <2>2. Ahead(G, k + 0)'
    BY <1>1, <1>2, <1>7, <2>1, AheadMoves
  <2> QED
    BY <2>1, <2>2
<1>11. Len(Pending') = Len(Pending)
  BY <1>2, <1>9, PendingIs DEF MovesOn
<1>12. srv.phase = "wait_hello" => Len(Pending') <= 2 * (Len(G) - k)
  BY <1>6, <1>11 DEF Reads, HelloBehind
<1>13. Reads(G, k)'
  BY <1>1, <1>3, <1>6, <1>7, <1>10, <1>12, ReadsStay
<1> QED
  BY <1>13 DEF NotRefusedYet

\* The answer goes out.
LEMMA HonestContinues ==
    ASSUME Typed, HandshakeContinues, Courteous', NotRefusedYet
    PROVE  NotRefusedYet'
<1>1. /\ pc = "hs_input" /\ res = "IN_PROGRESS" /\ c2s' = c2s \o Flight /\ sendbuf' = <<>>
      /\ UNCHANGED <<tls, raw, res, net, wire, srv>>
  BY DEF HandshakeContinues
<1>2. Flight = sendbuf
  BY <1>1 DEF Flight
<1>3. Courteous
  BY <1>1 DEF Courteous
<1>4. PICK G \in Seq(FlightRecord) : \E k \in 0..Len(G) : Reads(G, k)
  BY <1>3 DEF NotRefusedYet
<1>5. PICK k \in 0..Len(G) : Reads(G, k)
  BY <1>4
<1>6. Len(c2s') + Len(sendbuf') = Len(c2s) + Len(sendbuf)
  <2>1. c2s \in Seq(ClientMessage) /\ sendbuf \in Seq(ClientMessage)
    BY DEF Typed, InputTyped, PeerTyped
  <2>2. Len(c2s \o sendbuf) = Len(c2s) + Len(sendbuf) /\ Len(c2s) \in Nat /\ Len(sendbuf) \in Nat
    BY <2>1, ConcatProperties, LenProperties
  <2> QED
    BY <1>1, <1>2, <2>2
<1>7. Pending' = Pending
  BY <1>1, PendingSame
<1>8. Ahead(G, k)'
  BY <1>1, <1>5, <1>7, AheadSame DEF Reads
<1>9. Reads(G, k)'
  <2>1. Len(tls'.rec) <= 1 /\ (srv.phase = "wait_hello" => Len(Pending') <= 2 * (Len(G) - k))
    BY <1>1, <1>5, <1>7 DEF Reads, HelloBehind
  <2> QED
    BY <1>1, <1>5, <1>6, <1>8, <2>1, ReadsStay
<1> QED
  BY <1>9 DEF NotRefusedYet

\* One iteration.
LEMMA HonestInput ==
    ASSUME SessionInv, Typed, Typed', HandshakeInput, Courteous', NotRefusedYet
    PROVE  NotRefusedYet'
<1>1. /\ pc = "hs_input" /\ handle_input /\ HandshakeGoesOn
      /\ UNCHANGED <<pc, wire, net, srv, c2s>>
  BY DEF HandshakeInput, clientVars
<1>2. tls.st \in HandshakeStates
  BY <1>1 DEF SessionInv, Stages, Underway, Complete, HandshakeGoesOn
<1>3. Courteous
  BY <1>1, <1>2 DEF Courteous
<1>4. PICK G \in Seq(FlightRecord) : \E k \in 0..Len(G) : Reads(G, k)
  BY <1>3 DEF NotRefusedYet
<1>5. PICK k \in 0..Len(G) : Reads(G, k)
  BY <1>4
<1>6. tls'.st # "POST_HANDSHAKE"
  BY DEF Courteous, HandshakeStates
<1>7. \E l \in 0..Len(G) : Reads(G, l)'
  <2>1. CASE srv.phase = "wait_hello"
    BY <1>1, <1>2, <1>5, <2>1, HelloInput
  <2>2. CASE srv.phase = "wait_finished"
    BY <1>1, <1>2, <1>5, <1>6, <2>2, FlightInput
  <2> QED
    BY <1>5, <2>1, <2>2 DEF Reads
<1> QED
  BY <1>7 DEF NotRefusedYet

LEMMA StepHonest ==
    ASSUME SessionInv, Typed, Typed', Conversation, Served, Unsaid, NotRefusedYet, [Next]_vars
    PROVE  NotRefusedYet'
<1> SUFFICES ASSUME Courteous' PROVE NotRefusedYet'
  BY DEF NotRefusedYet
<1>0. pc' \in {"hs_recv", "hs_input"}
  BY DEF Courteous
<1>1. CASE UNCHANGED vars
  <2>1. UNCHANGED <<tls, raw, res, sendbuf, pc, net, wire, c2s, srv>>
    BY <1>1 DEF vars, ptlsVars, clientVars
  <2>2. Courteous
    BY <2>1 DEF Courteous
  <2>3. PICK G \in Seq(FlightRecord) : \E k \in 0..Len(G) : Reads(G, k)
    BY <2>2 DEF NotRefusedYet
  <2>4. PICK k \in 0..Len(G) : Reads(G, k)
    BY <2>3
  <2>5. Pending' = Pending
    BY <2>1, PendingSame
  <2>6. Ahead(G, k)'
    BY <2>1, <2>4, <2>5, AheadSame DEF Reads
  <2>7. /\ Len(tls'.rec) <= 1 /\ res' = "IN_PROGRESS"
        /\ (srv.phase = "wait_hello" => Len(Pending') <= 2 * (Len(G) - k))
    BY <2>1, <2>4, <2>5 DEF Reads, HelloBehind
  <2>8. Reads(G, k)'
    BY <2>1, <2>4, <2>6, <2>7, ReadsStay
  <2> QED
    BY <2>8 DEF NotRefusedYet
<1>2. CASE Environment
  BY <1>2, HonestEnvironment
<1>3. ~Calls
  BY <1>0 DEF Calls, ConnectRefused, Connect, Send, SendFails, Close, ReceiveCall, Return
<1>4. CASE Running
  <2>1. ASSUME NEW n \in 1..RawCapacity PROVE ~ReceiveRead(n)
    BY <1>0 DEF ReceiveRead
  <2>2. ~HandshakeCompletes /\ ~HandshakeFails /\ ~HandshakeAborts
    BY <1>0 DEF HandshakeCompletes, HandshakeFails, HandshakeAborts, Return
  <2>3. ~ReceiveInput
    BY <1>0 DEF ReceiveInput
  <2>4. ~ReceiveDelivers /\ ~ReceiveReadsOn /\ ~ReceiveFails /\ ~ReceiveDisconnected
        /\ ~ReceiveTimesOut /\ ~ReceiveBuffered /\ ~ReceiveAllocates
    BY <1>0 DEF ReceiveDelivers, Delivered, ReceiveReadsOn, ReceiveFails, ReceiveDisconnected,
                ReceiveTimesOut, ReceiveBuffered, ReceiveAllocates, Return
  <2>5. ASSUME NEW n \in 1..RawCapacity, HandshakeRead(n) PROVE NotRefusedYet'
    BY <2>5, HonestRead
  <2>6. ~ConnectNew /\ ~ConnectName /\ ~ConnectBuffer
    BY <1>0 DEF ConnectNew, ConnectName, ConnectBuffer, Return
  <2> QED
    BY <1>4, <2>1, <2>2, <2>3, <2>4, <2>5, <2>6, HonestStarts, HonestInput, HonestContinues
    DEF Running
<1> QED
  BY <1>1, <1>2, <1>3, <1>4 DEF Next

\* A server that keeps to the protocol is never refused: neither by the reader of
\* records, wherever TCP cuts what arrives, nor by the machine that takes the
\* messages, wherever the records cut those (parse_record, recvbuf.mess).
THEOREM HonestHandshakes == Spec => []HonestNotRefused
<1>1. Init => NotRefusedYet /\ Unsaid
  BY DEF Init, NotRefusedYet, Courteous, Unsaid, Starting
<1>2. SessionInv /\ Typed /\ Conversation /\ Served /\ NotRefusedYet /\ Unsaid /\ Typed' /\ [Next]_vars
        => NotRefusedYet' /\ Unsaid'
  BY StepHonest, StepUnsaid
<1>3. SessionInv /\ NotRefusedYet => HonestNotRefused
  <2> SUFFICES ASSUME SessionInv, NotRefusedYet, pc = "hs_input", srv.honest
               PROVE  res # "SELF_ALERT"
    BY DEF HonestNotRefused
  <2>1. CASE Complete
    BY <2>1 DEF Complete
  <2>2. CASE Underway
    <3>1. Courteous
      BY <2>2 DEF Underway, Courteous
    <3> QED
      BY <3>1 DEF NotRefusedYet, Reads
  <2> QED
    BY <2>1, <2>2 DEF SessionInv, Stages
<1> QED
  BY <1>1, <1>2, <1>3, TalkInvariant, PTL DEF Spec
=============================================================================

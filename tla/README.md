# MQTT over TLS: a verification project

This directory holds TLA+ models of the MQTT 5 client of this repository, the
TLC configurations that check them, and TLAPS proofs about them. The client is
a program (`main.c`), an MQTT layer (`mqtt/`), a TLS layer (`tls/`) over a
vendored TLS 1.3 library (`picotls/`), and libc wrappers (`lib/penlib`).

## 1. The system

    main ── mqtt_publisher / mqtt_subscriber
                 │  mqtt_connection, mqtt_data_send, mqtt_subscribe,
                 │  mqtt_recv_message, mqtt_disconnect
             MQTT session API ──── packet builders and parsers
                 │  tls_connect, tls_send, tls_recv_exact, tls_close
             TLS session (tlslib) ── g_rbuf, the received-plaintext buffer
                 │  ptls_handshake, ptls_receive, ptls_send, ptls_send_alert
             picotls ── records, handshake messages, key schedule
                 │  send, recv, poll, connect
             TCP ───────────────── TLS server and MQTT broker

Everything runs in one thread. What makes it hard is at the edges: TCP cuts the
server's bytes anywhere, the server and the network move between any two reads,
every read can time out or fail, every allocation can fail, and each layer has
early returns that must leave the layer below in a state the next call can use.

| component | state | operations | what makes it correct |
|---|---|---|---|
| received-plaintext buffer, `tls_rbuf_t` | array, `head`, `tail` | `rbuf_reset/avail/push/pop` | it is a FIFO, whatever the compaction moves |
| TCP set-up | address list, sockets tried | `tcp_connect`, `tcp_try_connect`, `sock_*` | first address that answers, no descriptor left, it returns |
| TLS session, `tls_session_t` and static `g_rbuf` | socket, picotls handle, buffer | `tls_connect/send/recv/recv_exact/close/is_connected` | a byte stream per connection: nothing skipped, repeated, reordered or carried over; nothing leaked; every call returns |
| picotls client as used here | state, `recvbuf.rec`, `recvbuf.mess`, epochs and sequence numbers, `needs_key_update` | `ptls_handshake`, `ptls_receive`, `ptls_send`, `ptls_send_alert` | connected only after a whole handshake, however it is cut; a record opens under one key and one number; a key update is answered |
| picotls, client and server | key schedule, transcript, keys of both directions, PSK, tickets, early data, Encrypted ClientHello | the same, and `ptls_update_key` | both ends reach the same outcome or none; compatible ends succeed; no nonce is used twice; early data is read whole or not at all |
| MQTT session API | the TLS session, the receive buffer of a call | see above, `mqtt_message_free` | the order of MQTT packets, success means what it says, no buffer left |
| MQTT programs | one session, one message | `mqtt_publisher`, `mqtt_subscriber` | they end, print what was published in order, hold nothing at the end |
| MQTT packets | bytes | builders, parsers, `recv_mqtt_packet_tls` | framing and both codecs agree |
| penlib, cryptography, PEM/ASN.1, build files | – | – | not modelled, see section 8 |

`PROJECT.json` lists under `hazards` what is hard to test in this code, each
at its line, with the properties that watch it or the reason why none does.

## 2. Modules

| module | models | extends / uses |
|---|---|---|
| `ByteFifo` | abstract: bounded FIFO of bytes, chunks taken or refused whole | |
| `RecvBuffer` | `tls_rbuf_t`: array, cursors, compaction | refines `ByteFifo` |
| `SharedBuffer` | several sessions over the one `g_rbuf` | `RecvBuffer` |
| `RecvBufferProof` | proofs: the array is the FIFO; each session gets its own bytes | `SharedBuffer` |
| `TcpConnect` | `tcp_connect` and `tcp_try_connect`, one step per system call | |
| `TcpConnectProof` | proofs about `TcpConnect` | `TcpConnect` |
| `TlsChannel` | abstract: after `tls_connect` a growing prefix of the peer's bytes | |
| `Picotls` | one iteration of the picotls loops: a unit of a record, or a handshake message | |
| `TlsSession` | `tlslib.c` for one session, with server and network | `Picotls`, refines `TlsChannel` |
| `MCTlsSession` | the server's first flights, good and bad | `TlsSession` |
| `TlsSessionProof` | proofs: nothing leaked, no assertion, whole handshakes; types, both directions of the conversation, the byte stream; no honest server refused | `TlsSession` |
| `PtlsKeySchedule` | the key schedule and the transcript, symbolically | |
| `PtlsHello` | records and ClientHello; choice of cipher suite, cookie, PSK and ticket | `PtlsKeySchedule` |
| `PtlsClient` | the client's handlers | `PtlsHello` |
| `PtlsServer` | the server's handlers | `PtlsClient` |
| `PtlsAgreement` | abstract: two ends come to one outcome | |
| `PtlsConnection` | both ends over two streams, with their applications, connection after connection | `PtlsServer`, refines `PtlsAgreement` |
| `PtlsConnectionProof` | proofs: types, and that no key numbers two records alike | `PtlsConnection` |
| `PtlsAgreementProof` | proof: both ends come to one outcome | `PtlsConnectionProof` |
| `PtlsDeliveryProof` | proof: application data arrives once, whole and in order, early data all or not at all | `PtlsAgreementProof` |
| `MCPtlsConnection` | the configurations and the plans | `PtlsConnection` |
| `MqttClient` | the session API over a TLS channel, with broker and network | |
| `MqttPrograms` | `mqtt_publisher`, `mqtt_subscriber`, and a caller of its own | `MqttClient` |
| `MqttProof` | proofs: who holds what, types, the order of the packets sent, and what publisher and subscriber make of the broker's | `MqttPrograms` |
| `MCMqtt` | the ranges of `qos` and of the faults | `MqttPrograms` |
| `MqttPacket` | builders, parsers and `recv_mqtt_packet_tls`, byte for byte | |
| `MqttPacketProof` | proofs: framing, parsing and building | `MqttPacket` |
| `MCMqttPacket` | the packets a broker sends | `MqttPacket` |

### RecvBuffer
`data`, `head`, `tail` are the fields of `tls_rbuf_t`; `out` and `ret` are what
the last call copied and returned. `rbuf_push` has its three outcomes as three
disjuncts: behind the tail, behind the tail after `memmove`, refused. The
refinement maps the array to the sequence of unread bytes.

### SharedBuffer
The comment above `g_rbuf` says that simultaneous sessions need one buffer each.
`SharedBuffer` has several sessions that call `tls_connect`, `tls_recv` and
`tls_close` over one buffer; TCP and picotls are reduced to the record that a read
yields, which `TlsSession` has in full. `mixed` remembers that a session acted
while another had bytes waiting, and `OwnBytes` says that nothing is lost or
mistaken as long as that has not happened: connections may overlap, reads with a
rest in the buffer may not. `user = "any"` keeps the buffer's functions in any
order, for `ImplementsFifo`.

### TcpConnect
Each address has a fate, chosen at the start; the steps are the system calls of
`tcp_try_connect` with the branch on each result. The Windows branch has the
same control. `tls_connect` always passes a time-out; the blocking variant of
`tcp_connect` is modelled as well.

### Picotls and TlsSession
A record is a *unit* for its header and one for its fragment, so that a TCP read
can end inside a record; a read takes any number of units that have arrived, up
to the buffer. A record carries the epoch and the sequence number it was sealed
with, and decrypts only under the same two: cryptography is ideal. `pc` says
where the caller's thread is: between calls, between two acquisitions of
`tls_connect` or before those of `tls_recv`, waiting in `tcp_recv_some`, or in a
picotls loop. Each of socket, picotls handle, server name, `raw_in`, `hs_buf` and the
two buffers of `tls_recv` is acquired in a step that may fail, and that step gives
back what the code gives back on that return, and no more: `heap`, `fds` and `sock`
are changed by what the code frees and closes, never reset. `tls_send`, `tls_close`
and the sending half of a handshake step are one step.

Two history variables are for what a failed `tls_send` leaves behind. `gap` is set
once records were sealed that never reached the server: it can read nothing that
follows. `due` is set when the client handles a KeyUpdate that asks for one, and
reset when the server has one that it can read.

| code | definitions |
|---|---|
| `tls_connect` 417-518 | `ConnectRefused`, `Connect`, `ConnectNew`, `ConnectName`, `ConnectBuffer`, `HandshakeStarts`, `HandshakeRead`, `HandshakeAborts` |
| `tls_handshake_step` 377-411, `ptls_handshake` | `HandshakeInput`, `HandshakeContinues`, `HandshakeCompletes`, `HandshakeFails`, `Flight` |
| `tls_recv` 574-648, `ptls_receive` | `ReceiveCall`, `ReceiveBuffered`, `ReceiveAllocates`, `Cleanup`, `ReceiveRead`, `ReceiveInput`, `ReceiveDelivers`, `ReceiveReadsOn`, `ReceiveFails`, `ReceiveDisconnected`, `ReceiveTimesOut` |
| `tls_recv_exact` 654-670 | `args.exact`, `Delivered` |
| `tls_send`, `tls_close` | `Send`, `SendFails`, `PendingUpdate`, `Says`, `Close`, `tls_close` |
| `parse_record` | `ReadHeader`, `RejectJunk`, `CollectJunk`, `FinishJunk`, `RetryFailedRecord` |
| `handle_input` | `ReadFragment` and its disjuncts, `RecordDone`, `FailRecord` |
| `handle_handshake_record` | `HandshakeRecord`, `Collected`, `KeepPart`, `StrayRecord` |
| `handle_client_handshake_message` and its handlers | `HandleMessage`, `client_handle_*`, `handle_key_update`, `UnexpectedMessage` |

A record read in one go leaves nothing in `recvbuf.rec` when it fails to
decrypt; one collected over several reads stays there, because `handle_input`
returns before it disposes of it, and fails again on every later call. `slow`
distinguishes the two. A handshake message cut over two records is two parts
(`Cuts`); the first waits in `tls.part`, which is `recvbuf.mess`.

### The Ptls modules
`Picotls` has one epoch number for a key, which is enough for what a server can do
to this client. The `Ptls` modules have what is behind the number, and the server
side, which the library compiles in and this program does not call.

A secret, a key or a hash is the term it was computed from: `Extract` of the last
secret and the input, `Derive` of a secret, a label and the transcript, and two
ends have the same key only if they did the same computations on the same
messages. The transcript is the sequence of messages, with the hash of the first
ClientHello in front of a retry. A ClientHello is a record of the extensions that
decide something: cipher suites, key share, PSK with its binder, early data,
cookie, ECH. Sealed ECH, tickets and cookies carry what is inside and the key it is
under. Time is in `now` and the ticket's age is computed modulo `AgeModulus`.

One step of `PtlsConnection` is one record read with all that `handle_input`, the
message's handler and the end of `ptls_handshake` do with it, or one call of an
application. The handlers are functions from the state of an end to its next
state (`ClientHandle`, `ServerHandle`), one operator per part of the C function;
the end's state carries what it wrote (`out`) and returned (`ret`). `PtlsHello` and
its successors have no RECURSIVE operator.

| code in `picotls.c` | definitions |
|---|---|
| `key_schedule_*`, `derive_*`, `setup_traffic_protection` | `PtlsKeySchedule` |
| `send_client_hello`, `encode_client_hello` | `SendClientHello` and its parts |
| `try_psk_handshake` | `ServerPsk`, `TicketAccepted`, `FreshEnough` |
| `server_handle_hello` | `HandleClientHello`, `ReadHello`, `AnswerHello`, `SendRetry`, `Accept`, `SendServerFlight` |
| `server_finish_handshake`, `send_session_ticket` | `FinishFlight`, `SignAndFinish`, `SessionTicket`, `SendTickets` |
| `client_handle_hello`, `client_ech_select_hello` | `HandleHello`, `HandleServerHello`, `HandleRetry`, `EchSelectHello` |
| `client_handle_finished` | `HandleServerFinished` and its parts |
| `handle_input`, `ptls_handshake`, `ptls_receive` | `Input`, `Content`, `Skip`, `Finish`, `ServerResume` |
| `ptls_send`, `update_send_key`, `ptls_update_key` | `PtlsSend`, `ClientUpdateKey` |

A *plan* is a sequence of connections, each with the configuration of both ends,
the time since the last and the difference of the clocks; `ClientSettings` and
`ServerSettings` are what a configuration may be. What should come of a
connection is told from the configurations alone (`Compatible`, `Resumable`,
`EarlyAccepted`), without the handlers, and compared with what the handlers do.

A server that goes on with a deferred signature (`ServerResume`) does not pass the
end of `ptls_handshake`: the code returns `server_finish_handshake` directly
(picotls.c:6059), so a signature that fails then drops nothing and sends no alert, and
the output may hold a record that was begun (`Unfinished`). The client learns of it
when it cannot read that record or when the server closes.

### MqttClient and MqttPrograms
The TLS session is the channel that `TlsSession` implements: a prefix in order, a
time-out, or a failure. A packet travels as units that `recv_mqtt_packet_tls`
reads separately (first byte, length, one or two units of body), so that a
time-out can tear it. After that, the next call takes a body unit for a header,
and the packet it believes to see is arbitrary (`Garbage`). A waiting call is
named in `call`; `rx` is what `recv_mqtt_packet_tls` has read of its packet. The
broker may also chat: packets nobody waits for, one after the other for ever
(`BrokerChats`), each of which `mqtt_recv_message` reads and skips.

`MqttPrograms` adds the two programs of `mqtt_client.c`, as `main` runs them, and
a *caller*, who uses the session API in any order the header allows: one
connection, SUBSCRIBE at most once (mqtt_client.h:161), messages asked for only
after it worked, each freed before the next.

### MqttPacket
The bytes themselves, with `Base` in place of 128: a byte is below `2 * Base`, and
one of at least `Base` continues a length. First bytes keep their values. The loops
over the bytes of a length are written out by cases, for they end after four
bytes (`encode_variable_byte_integer`, `recv_mqtt_packet_tls`) or three
(`decode_variable_byte_integer`); so there is nothing recursive to prove about.
The model starts with a packet of the broker on the wire, followed by the first
byte of the next one (`Next1`), which a reader that goes too far would take.
The builders have each comparison of a length where the code has it. Where the code
writes into `body` before it compares, and a length makes it write past the end, they
return `Overrun`: nothing is said of what happens then.

## 3. Runs

| run | instance | checks |
|---|---|---|
| `recv_buffer` | 4 cells, chunks up to 3 bytes, 2 byte values, 2 sessions with 3 bytes each | types; each session gets its own bytes; refinement of `ByteFifo` |
| `tcp_connect` | up to 3 addresses, 8 fates each, with and without time-out | types; no descriptor or list leaks; first answer wins; it returns |
| `tls_handshake` | 11 first flights, 2 connections, every allocation and every send failing or not, up to 2 HelloRetryRequests | no leak; connected only after a whole handshake; an honest server is not refused; the assertions of picotls; order of the client's messages; key updates answered; calls return |
| `tls_receive` | 3 bytes in records of 1 or 2, a ticket cut in two or a key update, reads of up to 2 records, 2 connections | types; bytes in order; refinement of `TlsChannel` |
| `ptls_handshake` | 243 plans of one or two connections | types; assertions; compatible ends succeed; resumption; early data taken when fresh, and whole or not at all; data in order; no nonce twice; tickets agree; nothing garbled; refinement of `PtlsAgreement`; connections settle |
| `mqtt_programs` | every `qos` from -1 to 3, all faults, up to 3 messages and any number of packets in between; a caller with a connection and any two calls after it | types; order of packets; no buffer left; clean exit; messages in order; no torn packet read; success implies a SUBACK; termination once the broker falls silent |
| `mqtt_packet` | some 25,000 packets up to twice the buffers | types; framing; parsing; building |

Five runs each show a disagreement between the code and its own documentation:

| run | what TLC finds |
|---|---|
| `tls_records_in_one_read` | two records in one TCP read: `tls_recv` ignores `consumed`, the second is dropped, the third does not decrypt, and the call returns -1 on a healthy connection. `tls_handshake_step` drops a ticket that comes along with Finished in the same way |
| `mqtt_disconnect_as_ack` | `mqtt_data_send` takes a DISCONNECT for a PUBACK and returns 0 for a message nobody took |
| `mqtt_packet_id_reused` | the second QoS 2 message has the packet identifier of the first, which no PUBREL released: the broker drops it, the call returns 0 |
| `mqtt_torn_packet` | a time-out inside a packet; the next call takes the rest for a packet |
| `mqtt_refused_subscribe` | a SUBACK that refuses counts as success |

That records are dropped does not contradict `InOrder`: what follows a dropped
record does not decrypt, so the stream stops, it does not skip. `InOrder` and
`ImplementsChannel` show exactly that, and `tls_records_in_one_read` shows the
price.

## 4. Bounds, and why they are enough

* `RecvBuffer`: with 4 cells and chunks of 3, a chunk can fit, fit only after
  compaction (with the moved region overlapping itself), or be refused. The
  proofs cover every size.
* `TcpConnect`: three addresses give one before, one after and one in hand. The
  proofs cover every number.
* `TlsSession`: two connections, for what one could leave to the next; records of
  up to two bytes against reads of one, for a rest in the buffer; reads of up to
  four units, for two records in one read and for records torn at either unit;
  one ticket or key update per connection. `MaxRetry` is 2, so that a second
  HelloRetryRequest happens. `MaxSend` is 1: what a second `tls_send` could do
  differently is the key update, and that is in its state.
* `SharedBuffer`: two sessions are enough to get in each other's way; three bytes
  on a connection make a rest that is read in two calls. The proof covers any
  number of either.
* `PtlsConnection`: a plan differs from the plain one in a few settings, and the
  settings are chosen in pairs that meet: each of 13 clients against each of 12
  servers, 2 plans with data and key updates both ways, and 3 first connections
  against 29 second ones, for tickets under every change of client, server and
  clock. Records of early data go up to one more than may be skipped (`MaxSkip`
  is 2), and `MaxSeq` 3 makes a key wear out. `AgeModulus` is 4096 and `SevenDays`
  2000, so that ages wrap and expire. Left out: a client with an external PSK
  against a server that asks for a retry with a suite of another hash (the
  assertion at picotls.c:2420 fails there), and three connections in a row.
* `MqttClient`: one connection per process, as both programs have; three messages,
  so that the subscriber's loop goes round and the sequence can skip or repeat.
* `MqttPacket`: `Base` is 4, `MaxPacket` 18 and `BufSize` 22, so that bodies of 4
  and of 16 bytes cross what 128 and 16384 are in the code, and packets exceed
  both buffers; topics of `MaxPacket - 6` to `MaxPacket + 1` bytes cross the end of
  the array that `mqtt_publish_message` builds in. The proofs cover every `Base` above 2 and every packet whose length
  has at most four digits, which is what a broker can send; both buffers must hold at
  least 5 bytes and at most `Base^3` (2 MB in the code, where they have 4 KB
  and 64 KB), because `decode_variable_byte_integer` gives up at the fourth byte.

* The caller of `mqtt_programs` makes a connection and two more calls. What it is
  there for, `ClientProtocol` and `NothingHeld`, is proved for any number.

`CHECK_DEADLOCK FALSE` stands where the system stops: `tcp_connect` returns, a
program ends, a packet is read, the last connection of a plan is over, two
sessions got in each other's way.

## 5. Fairness

`TlsSession!FairSpec` and `MqttPrograms!FairSpec` have weak fairness of the
client's own steps: the thread is scheduled, and `poll` with a time-out expires.
The server, the broker and the network owe nothing. `CallsReturn` leaves out
`tls_recv` without a time-out, which may wait for ever. A time-out is that of one
TCP read, and it starts anew with each: `CallsReturn` says that calls return once
the peer falls silent, which the bounds on the peer's traffic make sure of.
`Terminates` has that as its premise (`BrokerFallsSilent`: from some time on the broker
sends nothing more), for in `MqttPrograms` the broker may chat for ever: a subscriber
in its loop runs as long as messages come, and `mqtt_recv_message` as long as other
packets do; without the premise TLC shows that run. `tcp_send_all` has no time-out;
a send that blocks for ever is not modelled.
`PtlsConnection!FairSpec`: each application, as long as a record waits for it, a
signature is ready or the other end has closed, sooner or later reads it, goes on
or notices. `Settles` rests on that: after a deferred signature that fails no alert is
sent, and the client ends because the server's application closes. It is weak fairness of these steps, spelled out as "again and again
not able to, or again and again done" because the handlers are too large for TLC
to evaluate ENABLED. Nothing is assumed of what an application sends.
`TcpConnect!FairSpec` assumes that a blocking `connect` comes back.

## 6. Proofs

Every theorem is checked by TLAPS for all values of the constants, from the
assumptions in the modules (sizes are natural numbers, the buffer is not empty,
one record fits into it, byte 0 is a byte, a qos is an integer, a flight is a
sequence of records).

* `RecvBufferProof!TypeCorrect`: the cursors stay ordered and inside the array.
  `TypeOK` is inductive as it stands.
* `RecvBufferProof!ArrayImplementsFifo`: every step of the array is a step of the
  FIFO. The heart is what `Store` does to the unread bytes, in place and when
  they move to the front; `TypeOK` supplies the ranges.
* `RecvBufferProof!SessionsGetTheirOwn` (`OwnBytes`), for any number of sessions.
  Inductive together with the types. Two lemmas do the work: what `rbuf_pop` takes
  is the front of what waits (from the refinement above), and a session that is
  not the last to have put bytes in has none waiting.
* `TlsSessionProof!NoCallLeaks` (`NothingLeaks`), `PicotlsCalledRight`
  (`PicotlsAsserts`) and `OnlyWholeHandshakes` (`WholeHandshake`), for every set of
  server flights and every bound. The invariant has four parts: `Shape`, the types
  of what the proof reads; `Stages`, which handshake states go with each place of the
  thread; `Together`, that socket and descriptor go with the handle except where
  `tls_connect` holds the socket in a variable of its own (`Connecting`), and that the
  heap holds the handle (`Handle`) and the blocks of that place (`Buffers`), no more
  and no less; and `SoFar`, the messages behind each handshake state, of which
  `WholeHandshake` is the last line. None of the three properties is inductive:
  a leak between calls is decided at the step that acquires or gives back, and what was
  seen at the end by what each state has behind it.
* `TcpConnectProof!TypeCorrect`, `NoDescriptorLeaks`, `FirstAnswerWins`. The
  invariant has three parts beyond the types: which descriptors are open at each
  system call (`Held`), what the earlier calls tell of the address in hand
  (`InHand`), and what the addresses behind it were (`SoFar`). Neither property
  is inductive: both speak of the end only. Two lemmas, one for a try that
  fails and one for a try that succeeds, serve all the system calls.
* `MqttProof!BuffersFreed` (`NothingHeld`) and `ProgramsLeaveNothing`
  (`CleanExit`), for every set of faults. One lemma says what a call that begins
  does to the session and the heap, one what a call that reads does, one what
  the broker and the network may do. The programs add where a message may be
  held (`MessageInHand`), and that a failed connection is already closed
  (`FailureClosed`), without which `NotConnected` could leave a session.
* `MqttProof!TypeCorrect` and `SpeaksInOrder` (`ClientProtocol`). Each
  step of a program is a call of the session API, a step that reads, or nothing
  to the session (`SessionSteps`), so the proofs are about the API and hold for
  any order of calls. `ClientProtocol` is not inductive: that the
  broker has accepted before a second packet is sent needs `AcceptedFirst`,
  which follows the positive CONNACK from the broker through the channel to the
  reader; that nothing follows DISCONNECT needs the link, hence `NothingHeld`.
  That the rest of a torn packet never reads as a positive CONNACK is part of the
  model (`Garbage`), not a result.
* `MqttProof!ProgramsStayAligned` (`Aligned`), `MessagesInOrder`
  (`ShownInOrder`) and `SuccessMeansSuback` (`SuccessIsSubscribed`), for any number
  of messages. `ProgramInv` follows a packet on its way. The broker sends
  `WholePackets`; a program waits only where it made its call (`InPlace`), and goes
  on reading (`GoesOn`) only as long as every read went well, so that the first unit
  of the channel is the next of the packet in hand (`InStep`). Hence no packet is
  garbled for a built-in program. `Numbered` says that the messages in the
  channel have the numbers behind those shown and the one in hand, rising by one,
  and end with the last the broker has published: the channel can be cut at its
  front only, where a program does not come back. `Request` follows the SUBSCRIBE:
  on its way, owed an answer, answered, never two of these, and a SUBACK comes only
  in the last. None of the three properties is inductive: they speak of what has
  been shown or returned, and nothing in that says what the next read will bring.
* `TlsSessionProof!TypeCorrect` (`TypeOK`), for every server: `Typed` has the type
  of every variable, with what the types alone do not say: `g_rbuf` holds no more
  than its array although `tls_recv` pushes without looking at the result, because
  it asks for records only when the buffer is empty.
* `TlsSessionProof!ConversationInOrder` (`ClientMessagesInOrder`) and
  `KeyUpdateIsAnswered` (`KeyUpdateAnswered`, an action property). `Conversation`
  says what the client's messages so far allow to follow, in each state of the
  session: an alert is last only where the next step is `tls_close`. `KeyUpdateAnswered`
  needs `Owed`: as long as an answer is due, either `needs_key_update` is still set or
  the server can read nothing more. A `tls_send` that fails after the update was sealed
  clears the first only where it makes the second true. That such a session goes on
  to return 0 for data that nobody can decrypt is in the model and not excluded.
* `TlsSessionProof!BytesInOrder` (`InOrder`), for every buffer size, cut and loss.
  The server's records of a connection form a log, numbered within each key; the
  wire is a part of it, in order (`InStream`). A record is accepted only under the
  key and number the client expects, which is one place in the log, and the bytes
  delivered are those sent up to that place. A record that was dropped leaves the
  client waiting for its number, and nothing behind it opens: the stream stops.
  `InOrder` alone says nothing of records, so the induction is on the log.
* `TlsSessionProof!SessionImplementsChannel` (`ImplementsChannel`): every step maps
  to a step of `TlsChannel` or leaves its variables alone. It uses `InOrder` for
  what is handed out, and the types for what the server adds.
* `TlsSessionProof!HonestHandshakes` (`HonestNotRefused`), for every set of flights.
  Which of them keep to the protocol is a definition (`Honest`): ServerHello to
  Finished in any number of records, each with messages that may share one, messages
  cut in two where the client knows cuts (`Cuts`), change_cipher_spec anywhere; or a
  HelloRetryRequest. The invariant (`NotRefusedYet`) names the records of the
  connection, `G`, and how many the client has handled, `k`: the units that it has not
  handled, in `recvbuf.rec`, in the read and on the wire, are those of `G` behind the
  first `k` records as far as they go (`Ahead`), so a read, a header that is kept and a
  reset change nothing. `FlightBehind` puts the last message handled beside the state
  of the client: what may follow it is what the client waits for (`Ready`), or the
  messages in hand are that (`InHand`), and the next record has the number the client
  will open it with (`NextNumber`, `Protected`). `HelloBehind` says that no more than
  one ClientHello is without an answer (and none before the first step of the
  handshake, `Unsaid`), so that a flight never meets a retry that is
  still on its way. What the server sends before the client's Finished, tickets
  included, is behind all of `G`. `HonestNotRefused` says nothing of what is still to
  be read and is far from inductive.

* `PtlsConnectionProof!TypeCorrect` (`TypeOK`) and `KeysNumberOnce` (`NonceUnique`),
  for every plan, with all settings of both ends, and any number of records, key
  updates and tickets. `NonceUnique` speaks of the records under way only, so the
  induction is on the secrets that each end has sealed with on this connection, `U`
  and `V`. `Apart`: such a secret is derived under a label of its own end or follows
  from one used before by `NextSecret`, and none is in both sets. `Numbered`: every
  sealed record is under a secret of its sender's set, and no two have one key and
  number. `UsesKey`: of the key in use the secret has no successor in the set yet, and
  all its records have numbers below `seq`. `ClientStage` and `ServerStage` say which
  labels are still unused in each state of the state machines: so `c_hs_traffic` is set
  up once, be it with ServerHello, or with Finished when early data went before it. The
  heart is `DerivedIsNew` and `NextIsNew` (what is set up was never used),
  `KeyIsSetUp` and `RecordsAreAdded`; then there is one lemma per handler. An end that
  has failed needs nothing more than that what it sent before was `Numbered`; after a
  stateless retry the new server finds the labels unused, for its predecessor sent
  only in clear.
* `PtlsAgreementProof!EndsAgree` (`ImplementsAgreement`), for every plan: every step
  of the two ends is a step of `PtlsAgreement` or leaves it alone. The induction does
  not compare the ends step by step, for they never are at the same place. It says of
  each end alone what can be read off its own transcript (`Opening`, `Told`, `Ended`):
  suite and PSK stand in ServerHello, the protocol and early data in
  EncryptedExtensions, ECH in the ClientHello before them, and the exporter secret is
  derived from the messages up to the last Finished that is hashed. Which message is
  ServerHello need not be guessed: the handshake secret holds the messages up to it,
  so their number is its length (`HelloNumber`). Two ends that read the same secret,
  algorithm and messages come to the same outcome (`OneOutcome`). `ClientStory` and
  `ServerStory` say what is in place in each state of the state machines, with what
  each handler needs: that an ECH which the server may refuse has its outer
  ClientHello hashed beside (`EchFits`), that a server says it takes early data only
  when it does (`Sure`), and that no one takes early data under a PSK that nobody
  knows (`Doubt`). The one link between the ends is `Fins`: a Finished on its way to
  the server, whatever became of the client since, carries a MAC over messages off
  which the client's outcome can be read. The server takes it only if it is the MAC
  over its own messages under its own secret, and so reads the same. That the MAC
  cannot be had otherwise is the symbolic cryptography of `PtlsKeySchedule`, an
  assumption of the model and not a result.
* `PtlsDeliveryProof!DataInOrder` (`DeliveredInOrder`), for every plan, any number of
  records, key updates, tickets and retries. `Carries` says that a stream holds,
  record by record, what its sender has sent beyond the first `a` messages, and that
  its receiver has taken those. Towards the client that is nearly all (`Back`): a
  record with data that is not delivered ends the connection. Towards the server it
  is not, for a server that refuses early data drops what it cannot open, with no
  error, and would drop anything. So `Forth` adds where the early data ends: the
  client's Finished stands behind exactly its `k` messages of early data (`Split`, the
  set `{k}` in `Carries`), the server takes that Finished before it delivers what
  follows, and `Unlocks` says that behind it every record, key updates included, is
  sealed under the key and number that follow one after the other from the client's
  application secret; the last of these keys is the one the client will use next. That
  the server starts with this secret is where `EndsAgree` is used: the two agree on
  the exporter secret, and both application secrets are derived from what it is derived
  from (`AppSecret`, `Tale`). Hence a server in `POST_HANDSHAKE` opens whatever comes
  first, although its code would still skip. `Tale` has what the server's branches
  rely on: it skips only if it has not accepted early data, holds back the handshake
  key only if it has, and a stateless retry forgets nothing because nothing was sent
  or taken. `DeliveredInOrder` itself says nothing of records or keys and is far from
  inductive.
* `PtlsDeliveryProof!EarlyDataWhole` (`EarlyDataAllOrNothing`), from the same
  invariant. That a server in `POST_HANDSHAKE` has read all of the early data or
  none is in `Taken`: the client's Finished stands behind the `k` messages of early
  data, and the server that has taken it has taken `k` messages at least. That the
  client's application was told the same is the work of `EarlyTaken` and
  `FinishedFirst`: a client that was told of acceptance has the early exporter
  secret in its outcome and one that was refused has none, a Finished under way
  carries that outcome (`Fins`), and so the server that takes it has the same.

* `MqttPacketProof!PacketTypes` (`TypeOK`), `Framing` (`ExactFraming`), `Parsed`
  (`ParsedAsSent`) and `Built` (`BuiltAsGiven`), for every packet and all sizes. The
  invariant `IInv` says that the bytes read and the bytes still on the wire make up
  the packet and the byte behind it, and, while the length is being read, that
  what has been read of it and the rest add up: the length of the body is `remaining`
  plus `multiplier` times the quotient that the bytes still to come encode
  (`Weighted`, from `v = Base * (v \div Base) + v % Base`). `TypeOK` and
  `ExactFraming` follow; neither is inductive, for both are silent about the length
  until it is complete. The rest is about the codec: `VarInt` says which digits
  the bytes of a length are, `DecodeAt` that they decode to it wherever they stand
  in a packet, and `PublishParts` where the parts of a PUBLISH stand in its body.
  `ConnackParsed`, `SubackParsed` and `PublishParsed` put these together for one
  parser each; `PublishBuilt` brings a PUBLISH of the client to the form of the
  broker's, so that `PublishParsed` serves `Built` as well, and reduces the three checks of
  `mqtt_publish_message` to the lengths (`Outcome`): from these it follows for which
  messages the body is overrun, which are refused, and which are built and read back.

One assumption is on the settings (`PlansAssumption`): numbers of tickets are
natural numbers, lists are sequences, and so on, as the C types have it.
Another is on the server's flights (`FlightsAssumption`): a record has a
content type and carries a sequence of message types (`Contents`), in any
combination. A third is on the broker's packets (`InputAssumption`): they have the
fields of an MQTT packet, identifiers and topics' lengths fit into two bytes, and
the length of a body has at most four digits.

Only model-checked: all liveness (`Returns`, `CallsReturn`, `Terminates`,
`Settles`), which is out of the prover's reach; and some of `PtlsConnection`:

* `PtlsAsserts` does not hold of every plan. An external PSK with a hash that no
  offered suite has, or a HelloRetryRequest that chooses a suite of another hash
  than the PSK's, makes the client fail an assertion. TLC checks it for the plans of
  the run; a theorem would need the settings that are safe named as an assumption.
* `HonestSucceeds` and `ResumesWhenPossible` compare the ends with `Compatible`,
  `Resumable` and `EarlyAccepted`, which are written from the settings alone: a proof
  has to follow both ends through every decision in lockstep, across two connections
  and the ticket store between them.
* `TicketsAgree` needs, besides what `Carries` says of data, the tickets under way
  one by one, and the transcripts of both ends to be equal up to the client's
  Finished and not only in their outcome.
* `NeverGarbled` needs every record under way, not only the data and the Finished, to
  open under the key that the receiver will have when it comes to it.

## 7. Assumptions about what is outside

The TLS server and the MQTT broker are modelled from what the client expects of
them: a server that numbers its records, may send any of the first flights in
`MCTlsSession`, tickets, key updates, an alert, FIN or a reset; a broker that
answers CONNECT, PUBLISH and SUBSCRIBE, treats a QoS 2 PUBLISH with a known
packet identifier as a repetition, may send messages between SUBSCRIBE and
SUBACK, and may go at any time.

The applications over picotls in `PtlsConnection` read what comes, send what they
are given once `ptls_handshake` has returned 0, and stop at the first error; after
a stateless retry a fresh `ptls_t` meets the second ClientHello. The streams
between them lose and reorder nothing. Three exceptions in the properties are
behaviours of the code, not of the model: `TicketsAgree` leaves out client
authentication, because the server computes a ticket's secret ahead of the
client's Certificate (picotls.c:1908); `NeverGarbled` leaves out an alert that
follows a dropped flight under that flight's keys (6094), a certificate asked of
a client whose ECH was rejected (3506), and early data that meets the fresh
server of a stateless retry.

In `MqttClient` a time-out may strike whenever a call waits, even if bytes are on
their way; in `TlsSession` only when nothing has arrived.

## 8. Not modelled

* In picotls: compressed certificates, `ptls_export` and `ptls_import`, raw public
  keys, the QUIC interface (`ptls_handle_message`), exporters, the byte layout of
  messages, certificate verification itself (a constant of the plan). Messages cut
  over more than two records: the buffer holds one part at a time either way.
* Cryptographic algorithms (`picotls/lib`, `cifra`, `micro-ecc`): ideal.
* PEM, ASN.1 and Base64: they load a server's keys, and nothing here calls them.
* `penlib`: libc wrappers, the log and time formatting.
* `mqtt_packet_dump` and all logging.
* What happens after a builder has written past its array: `BuiltAsGiven` says for
  which lengths `mqtt_publish_message` (mqtt_message_create.c:149-154; topics of 4092 to
  4094 bytes with QoS above 0, of 4094 with QoS 0) and `mqtt_connect_message` (line 88;
  client identifiers of more than 4083 bytes) do that, and no more. Both are defects of
  the code; no line of the repository speaks of such lengths.
* The handle and socket that `tls_connect` overwrites on a session still connected: no
  caller in the repository does that.
* Allocations of picotls inside `ptls_handshake` and `ptls_receive` that fail on the
  way, such as that of a new key's AEAD in `update_traffic_key`.
* The choice of the key of a ticket's expected Finished (picotls.c:1918-1920): a
  transcript holds Finished without its `verify_data`, so a wrong choice would not be
  seen. Milliseconds and seconds in a ticket's age are one unit. `tls_ctx_init` ignores
  `verify_cert`; certificates are not verified by this client, and no property says so.
* `tcp_send_all` that blocks for ever, and the broker's send quota for messages
  that are never acknowledged.

## 9. Plan

1. A composition of `MqttClient` over `TlsChannel`: the channel of the MQTT model
   as a refinement, in bytes.
2. `ptls_export` and `ptls_import` as an action of `PtlsConnection`: what the
   imported end forgets (a pending key update, a part of a record).
3. Acknowledgement of received QoS 1 messages, the broker's quota, keep-alive.
4. Proofs about `PtlsConnection`: `TicketsAgree` and `NeverGarbled`, on the
   invariant of `PtlsDeliveryProof` that relates the ends to the streams between
   them; `PtlsAsserts` once the settings it needs are named as an assumption.

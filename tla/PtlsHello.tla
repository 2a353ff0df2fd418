------------------------------ MODULE PtlsHello ------------------------------
(***************************************************************************)
(* What the two ends of picotls.c decide in their hello messages: the PSK, *)
(* key share and Encrypted ClientHello the client offers, and the cipher   *)
(* suite, group, ticket and key exchange mode the server takes.            *)
(*                                                                         *)
(* C is the client's ptls_context_t and handshake properties, S the        *)
(* server's.  An optional value is <<>> or a sequence of one.  A group is  *)
(* also its own key share.  Times are in seconds.                          *)
(***************************************************************************)
EXTENDS PtlsKeySchedule

CONSTANTS SevenDays,          \* how long the client keeps a ticket
          EarlyDataMaxDelay,  \* PTLS_EARLY_DATA_MAX_DELAY
          AgeModulus          \* the width of a 32-bit age in milliseconds

ASSUME AgesAssumption ==
    /\ {SevenDays, EarlyDataMaxDelay, AgeModulus} \subseteq Nat
    /\ SevenDays < AgeModulus

NoEch == [offered |-> FALSE, grease |-> FALSE, on |-> FALSE,
          accepted |-> FALSE, first |-> <<>>]

FirstOf(seq, S) ==
    LET hits == {i \in DOMAIN seq : seq[i] \in S}
    IN  IF hits = {} THEN <<>> ELSE <<seq[Min(hits)]>>

\* The alert of the first test that fails; tests are <<failed, alert>>.
FirstAlert(tests) ==
    LET failed == {i \in DOMAIN tests : tests[i][1]}
    IN  IF failed = {} THEN "none" ELSE tests[Min(failed)][2]

-----------------------------------------------------------------------------
(* Emitters: e is an end of the connection, with enc, sched, ccs and out.  *)

Record(m) == [key |-> <<>>, seq |-> 0, msg |-> m]

Sealed(tp, m) == IF tp.aead = <<>> THEN Record(m)
                 ELSE [key |-> tp.aead, seq |-> tp.seq, msg |-> m]

Emit(e, m) == [e EXCEPT !.out = Append(@, Sealed(e.enc, m)),
                        !.enc.seq = IF e.enc.aead = <<>> THEN @ ELSE @ + 1]

\* The same message n times.
EmitCopies(e, m, n) ==
    [e EXCEPT !.out = @ \o [i \in 1..n |-> Sealed([e.enc EXCEPT !.seq = @ + i - 1], m)],
              !.enc.seq = IF e.enc.aead = <<>> THEN @ ELSE @ + n]

\* ptls_push_message: emitted and hashed.
Push(e, m) == [Emit(e, m) EXCEPT !.sched = Update(@, m)]

PushCCS(e) == IF e.ccs THEN [e EXCEPT !.out = Append(@, Record([mt |-> "CCS"])),
                                      !.ccs = FALSE]
              ELSE e

-----------------------------------------------------------------------------
(* The client's offer                                                      *)

\* decode_stored_session_ticket: a ticket is used if its group and suite are
\* still configured and it is not too old.
StoredTicketUsable(C, t, now) ==
    /\ t.kx \in ToSet(C.groups) /\ t.cs \in ToSet(C.ciphers)
    /\ t.obtained <= now /\ now - t.obtained < SevenDays

ExternalPsk(C) ==
    [id |-> <<"external", C.psk[1].id>>, label |-> "ext_binder", age |-> 0,
     secret |-> C.psk[1].secret, kx |-> <<>>, early |-> TRUE,
     cs |-> FirstOf(C.ciphers, {cs \in ToSet(C.ciphers) : HashOf(cs) = C.psk[1].hash})]

\* Faulty variant: the age is not obfuscated.
TicketPsk_plainAge(t, now) ==
    [id |-> <<"ticket", t.box>>, label |-> "res_binder", age |-> now - t.obtained,
     secret |-> t.secret, kx |-> <<t.kx>>, cs |-> <<t.cs>>, early |-> t.maxEarly # 0]

TicketPsk(t, now) ==
    [id |-> <<"ticket", t.box>>, label |-> "res_binder",
     age |-> (now - t.obtained + t.ageAdd) % AgeModulus,
     secret |-> t.secret, kx |-> <<t.kx>>, cs |-> <<t.cs>>, early |-> t.maxEarly # 0]

\* The external PSK if there is one, else the ticket if it can be used.
ClientPsk(C, now) ==
    CASE C.psk # <<>> -> <<ExternalPsk(C)>>
      [] C.psk = <<>> /\ C.ticket # <<>> /\ C.groups # <<>>
           /\ StoredTicketUsable(C, C.ticket[1], now) -> <<TicketPsk(C.ticket[1], now)>>
      [] OTHER -> <<>>

EchExt(typ, key, second, inner) ==
    <<[typ |-> typ, key |-> key, second |-> second, inner |-> inner]>>

\* encode_client_hello.  ClientHelloOuter has the public name and a random PSK
\* identity, which no server knows.
EncodeClientHello(C, cl, outer, second, psk, cookie, ech) ==
    [mt      |-> "CH",
     sid     |-> C.ccs,
     ciphers |-> C.ciphers,
     groups  |-> C.groups,
     share   |-> cl.share,
     sni     |-> IF outer /\ cl.ech.offered THEN "public" ELSE C.sni,
     alpn    |-> C.alpn,
     ech     |-> ech,
     cookie  |-> cookie,
     tickets |-> IF C.save THEN C.tickets ELSE <<0, 0>>,
     modes   |-> IF ~C.save /\ psk = <<>> THEN {}
                 ELSE {"psk_dhe"} \union (IF C.dheOnly THEN {} ELSE {"psk"}),
     early   |-> psk # <<>> /\ cl.usingEarly /\ ~second,
     psk     |-> IF psk = <<>> THEN <<>>
                 ELSE <<[id     |-> IF outer THEN <<"random">> ELSE psk[1].id,
                         age    |-> IF outer THEN 0 ELSE psk[1].age,
                         binder |-> <<>>]>>]

Binder(sched, ch, label) == VerifyData(Update(sched, ch), DeriveEmpty(sched, label))

\* The key share: the one a HelloRetryRequest selected, else the ticket's, else
\* the first group unless negotiate_before_key_exchange.
OfferedShare(C, cl, psk) ==
    CASE cl.share # <<>> -> cl.share
      [] cl.share = <<>> /\ psk # <<>> /\ psk[1].kx # <<>> -> psk[1].kx
      [] OTHER -> IF C.groups = <<>> \/ C.negotiateFirst THEN <<>> ELSE <<C.groups[1]>>

\* ECH is set up in the first flight, for a host name; an empty configuration
\* means greasing.
SetupEch(C) ==
    IF C.ech = "off" \/ C.sni = "none" THEN NoEch
    ELSE [NoEch EXCEPT !.on = TRUE, !.offered = C.ech # "grease",
                       !.grease = C.ech = "grease"]

\* The client with what it offers chosen.
Offering(C, cl, psk, second) ==
    LET early == cl.usingEarly \/ (~second /\ psk # <<>> /\ C.early /\ psk[1].early)
    IN  [cl EXCEPT
           !.ech = IF second THEN @ ELSE SetupEch(C),
           !.offeredPsk = @ \/ psk # <<>>,
           !.usingEarly = early,
           !.acceptance = IF early THEN "UNKNOWN" ELSE "REJECTED",
           !.share = OfferedShare(C, cl, psk),
           !.cs = IF psk = <<>> \/ (second /\ C.psk # <<>>) THEN @ ELSE psk[1].cs]

\* A new key schedule in the first flight.  pen_assert: the suite fits the hash
\* of an external PSK; early data is over in the second flight.
Scheduled(C, cl, psk, second) ==
    [cl EXCEPT
       !.sched = IF second THEN @
                 ELSE Extract(NewSchedule(cl.cs, C.ciphers, cl.ech.on),
                              IF psk = <<>> THEN Zero ELSE Psk(psk[1].secret)),
       !.asserts = /\ @
                   /\ C.psk = <<>> \/ (cl.cs # <<>> /\ HashOf(cl.cs[1]) = C.psk[1].hash)
                   /\ cl.usingEarly => ~second]

\* The ClientHello that counts: the inner one with ECH.
InnerHello(C, cl, second, psk, cookie) ==
    LET bare == EncodeClientHello(C, cl, FALSE, second, psk, cookie,
                                  IF cl.ech.on THEN EchExt("inner", "none", second, <<>>)
                                  ELSE cl.ech.first)
    IN  IF psk = <<>> THEN bare
        ELSE [bare EXCEPT !.psk[1].binder = Binder(cl.sched, bare, psk[1].label)]

\* The ClientHello on the wire: the outer one with ECH.
WireHello(C, cl, second, psk, cookie, inner) ==
    IF cl.ech.on THEN EncodeClientHello(C, cl, TRUE, second, psk, cookie,
                                        EchExt("outer", C.ech, second, <<inner>>))
    ELSE inner

EmitHello(cl, second, inner, wire) ==
    Emit([cl EXCEPT
            !.sched = IF cl.ech.on THEN UpdateOuter(Update(@, inner), wire)
                      ELSE Update(@, inner),
            !.ech.first = IF cl.ech.on /\ ~second THEN wire.ech ELSE @], wire)

\* Early data can be sent at once.
KeyEarly(cl, psk, second) ==
    LET keyed == [cl EXCEPT !.enc = SetupTraffic(cl.cs[1], Derive(cl.sched, "c_e_traffic"), 1)]
        said  == IF cl.usingEarly THEN PushCCS(keyed) ELSE cl
    IN  [said EXCEPT
           !.expEarly = IF psk # <<>> /\ ~second THEN Derive(cl.sched, "e_exp_master") ELSE @,
           !.st = IF second THEN "EXPECT_SECOND_SERVER_HELLO" ELSE "EXPECT_SERVER_HELLO"]

SendOffer(C, cl, psk, second, cookie, inner) ==
    KeyEarly(EmitHello(cl, second, inner, WireHello(C, cl, second, psk, cookie, inner)),
             psk, second)

SendPrepared(C, cl, psk, second, cookie) ==
    SendOffer(C, cl, psk, second, cookie, InnerHello(C, cl, second, psk, cookie))

\* send_client_hello, for the first flight or after a HelloRetryRequest.
SendClientHello(C, cl, now, second, cookie) ==
    LET psk == ClientPsk(C, now)
    IN  SendPrepared(C, Scheduled(C, Offering(C, cl, psk, second), psk, second),
                     psk, second, cookie)

-----------------------------------------------------------------------------
(* The server's choices                                                    *)

\* select_cipher: in the client's order, or the server's, which a client whose
\* first suite is ChaCha overrides.  An external PSK fixes the hash.
ChooseCipher(S, offered) ==
    LET fits(cs) == S.psk = <<>> \/ HashOf(cs) = S.psk[1].hash
        usable   == {cs \in ToSet(S.ciphers) : fits(cs)}
        chacha   == S.chacha /\ offered[1] = "chacha" /\ "chacha" \in usable
    IN  IF S.preference /\ ~chacha
        THEN FirstOf(S.ciphers, usable \intersect ToSet(offered))
        ELSE FirstOf(offered, usable)

CookieSig(s, group, tbs) == <<"cookie_key", s.name, s.cs, group, tbs>>

\* calc_cookie_signature over ch1_hash and sent_key_share.
Cookie(s, group, algo, ch, sentShare) ==
    LET tbs == [ch1 |-> MessageHash(algo, <<Hashed(ch)>>), sent |-> sentShare]
    IN  <<[tbs |-> tbs, sig |-> CookieSig(s, group, tbs)]>>

\* try_psk_handshake on a ticket: issued by this server, within its lifetime,
\* for the same name and protocol, with a group and the suite in use.
TicketAccepted(S, s, box, now) ==
    LET t == box.id[1]
    IN  /\ S.ticketKey # "none" /\ S.groups # <<>>
        /\ box.key = S.ticketKey /\ box.id # <<>>
        /\ t.issued <= now /\ now - t.issued <= S.lifetime
        /\ t.name = s.name
        /\ t.kx \in ToSet(S.groups) /\ <<t.cs>> = s.cs
        /\ t.alpn \in {"none", s.alpn}

Abs(x) == IF x < 0 THEN -x ELSE x

\* The age the client reports agrees with the server's within ten seconds.
FreshEnough(t, age, now) ==
    Abs((now - t.issued) - ((age - t.ageAdd) % AgeModulus)) <= EarlyDataMaxDelay

NoPsk == [found |-> FALSE, early |-> FALSE, kx |-> <<>>, secret |-> <<>>]

\* The PSK the server takes from ClientHello, if any, and whether it would
\* accept early data with it.
ServerPsk(S, s, ch, now) ==
    LET p == ch.psk[1]
    IN  CASE S.psk # <<>> /\ p.id = <<"external", S.psk[1].id>> ->
               [found |-> TRUE, early |-> ch.early, kx |-> <<>>, secret |-> S.psk[1].secret]
          [] S.psk = <<>> /\ p.id[1] = "ticket" /\ TicketAccepted(S, s, p.id[2], now) ->
               LET t == p.id[2].id[1]
               IN  [found |-> TRUE, kx |-> <<t.kx>>, secret |-> t.secret,
                    early |-> ch.early /\ S.maxEarly # 0 /\ FreshEnough(t, p.age, now)]
          [] OTHER -> NoPsk

\* How many tickets follow the handshake.
TicketCount(S, ch, isPsk, modes) ==
    LET asked == IF ch.tickets[1] = 0 THEN 1
                 ELSE IF isPsk THEN ch.tickets[2] ELSE ch.tickets[1]
    IN  IF modes = {} \/ S.lifetime = 0 THEN 0
        ELSE IF asked > S.maxTickets THEN S.maxTickets ELSE asked
=============================================================================

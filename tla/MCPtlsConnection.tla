-------------------------- MODULE MCPtlsConnection --------------------------
(***************************************************************************)
(* Configurations and plans for TLC: every plan is one or two connections, *)
(* and differs from the plain one in a few settings of either end.         *)
(***************************************************************************)
EXTENDS PtlsConnection

Client0 == [ciphers |-> <<"aes128", "aes256">>, groups |-> <<"x25519", "p256">>,
            negotiateFirst |-> FALSE, psk |-> <<>>, ticket |-> <<>>, resume |-> FALSE,
            early |-> FALSE, earlyRecords |-> 0, save |-> TRUE, tickets |-> <<1, 1>>,
            dheOnly |-> FALSE, ech |-> "off", sni |-> "name", alpn |-> <<"h2">>,
            ccs |-> FALSE, cert |-> FALSE, trusts |-> TRUE, omitEoed |-> FALSE,
            records |-> 0, rekeys |-> FALSE]

Server0 == [ciphers |-> <<"aes256", "chacha", "aes128">>, preference |-> FALSE,
            chacha |-> FALSE, groups |-> <<"x25519", "p256">>, psk |-> <<>>,
            ticketKey |-> "tk", lifetime |-> 1000, maxEarly |-> 1, retry |-> FALSE,
            cookie |-> FALSE, clientAuth |-> FALSE, certRequired |-> FALSE,
            dheOnly |-> FALSE, opener |-> "none", saveName |-> TRUE, alpn |-> "h2",
            signs |-> {"ok"}, omitEoed |-> FALSE, maxTickets |-> 2, ageAdd |-> 7,
            ccs |-> FALSE, records |-> 0]

Connect(c, s) == [c |-> c, s |-> s, wait |-> 5, lag |-> 0]

Key(id, secret, hash) == <<[id |-> id, secret |-> secret, hash |-> hash]>>

-----------------------------------------------------------------------------
(* One connection: what the client may ask for, against what the server may *)
(* insist on.                                                               *)

Clients ==
    {Client0,
     [Client0 EXCEPT !.groups = <<"p256">>, !.tickets = <<3, 1>>],
     [Client0 EXCEPT !.negotiateFirst = TRUE, !.ccs = TRUE],
     [Client0 EXCEPT !.groups = <<"x448">>],
     [Client0 EXCEPT !.groups = <<>>],
     [Client0 EXCEPT !.ciphers = <<"chacha", "aes128">>, !.save = FALSE],
     [Client0 EXCEPT !.ech = "k1", !.alpn = <<>>],
     [Client0 EXCEPT !.ech = "k2", !.groups = <<"x448", "p256">>],
     [Client0 EXCEPT !.ech = "grease", !.groups = <<"x448", "x25519">>],
     [Client0 EXCEPT !.cert = TRUE, !.sni = "none", !.ech = "k1"],
     [Client0 EXCEPT !.trusts = FALSE],
     [Client0 EXCEPT !.psk = Key("id", "s", "sha256")],
     [Client0 EXCEPT !.psk = Key("id", "s", "sha256"), !.early = TRUE, !.earlyRecords = 1]}

Servers ==
    {Server0,
     [Server0 EXCEPT !.groups = <<"p256">>, !.preference = TRUE],
     [Server0 EXCEPT !.retry = TRUE, !.opener = "k1"],
     [Server0 EXCEPT !.retry = TRUE, !.cookie = TRUE, !.opener = "k1", !.ccs = TRUE],
     [Server0 EXCEPT !.opener = "k2", !.saveName = FALSE],
     [Server0 EXCEPT !.clientAuth = TRUE, !.opener = "k1"],
     [Server0 EXCEPT !.clientAuth = TRUE, !.certRequired = TRUE],
     [Server0 EXCEPT !.signs = {"ok", "fails", "later"}],
     [Server0 EXCEPT !.preference = TRUE, !.chacha = TRUE, !.lifetime = 0],
     [Server0 EXCEPT !.psk = Key("id", "s", "sha256"), !.dheOnly = TRUE],
     [Server0 EXCEPT !.psk = Key("id", "s", "sha256"), !.groups = <<>>],
     [Server0 EXCEPT !.psk = Key("id", "t", "sha256")]}

\* Left out: a server without the PSK that asks for a retry with a suite whose
\* hash is not the PSK's; an assertion of the client's fails then.
OneConnection == {<<Connect(c, s)>> : c \in Clients, s \in Servers}
                 \ {<<Connect(c, s)>> : c \in {c \in Clients : c.psk # <<>>},
                                       s \in {s \in Servers : s.preference /\ ~s.chacha}}

\* Data and key updates in both directions.
Busy == {<<Connect([Client0 EXCEPT !.records = 3, !.rekeys = TRUE, !.tickets = <<2, 1>>],
                   [Server0 EXCEPT !.records = 3])>>,
         <<Connect([Client0 EXCEPT !.records = 1, !.cert = TRUE],
                   [Server0 EXCEPT !.records = 1, !.clientAuth = TRUE])>>}

-----------------------------------------------------------------------------
(* Two connections: the second one resumes with a ticket of the first.      *)

Again == [Client0 EXCEPT !.resume = TRUE, !.early = TRUE, !.earlyRecords = 1]

Later(c, s, wait, lag) == [c |-> c, s |-> s, wait |-> wait, lag |-> lag]

\* Another client, or another server, than the first time.
Changed ==
    {Later(Again, Server0, 5, 0),
     Later([Again EXCEPT !.earlyRecords = 2, !.records = 1], [Server0 EXCEPT !.records = 1], 5, 0),
     Later([Again EXCEPT !.dheOnly = TRUE, !.ccs = TRUE], Server0, 5, 0),
     Later(Again, [Server0 EXCEPT !.dheOnly = TRUE, !.maxEarly = 0], 5, 0),
     Later([Again EXCEPT !.earlyRecords = 3, !.records = 1], [Server0 EXCEPT !.ticketKey = "new"], 5, 0),
     Later([Again EXCEPT !.earlyRecords = 2, !.records = 1], [Server0 EXCEPT !.groups = <<"p256">>], 5, 0),
     Later(Again, [Server0 EXCEPT !.retry = TRUE, !.opener = "k1"], 5, 0),
     Later([Again EXCEPT !.early = FALSE, !.ech = "k1"],
           [Server0 EXCEPT !.retry = TRUE, !.cookie = TRUE, !.opener = "k1"], 5, 0),
     Later([Again EXCEPT !.early = FALSE], [Server0 EXCEPT !.retry = TRUE, !.cookie = TRUE], 5, 0),
     Later([Again EXCEPT !.ech = "k1"], [Server0 EXCEPT !.opener = "k1"], 5, 0),
     Later([Again EXCEPT !.ech = "grease"], [Server0 EXCEPT !.opener = "k1"], 5, 0),
     Later([Again EXCEPT !.ech = "k2"], [Server0 EXCEPT !.opener = "k1"], 5, 0),
     Later(Again, [Server0 EXCEPT !.preference = TRUE], 5, 0),
     Later([Again EXCEPT !.ciphers = <<"aes256", "aes128">>], Server0, 5, 0),
     Later([Again EXCEPT !.ciphers = <<"aes256">>], Server0, 5, 0),
     Later([Again EXCEPT !.groups = <<"p256">>], Server0, 5, 0),
     Later([Again EXCEPT !.sni = "other"], Server0, 5, 0),
     Later(Again, [Server0 EXCEPT !.saveName = FALSE], 5, 0),
     Later([Again EXCEPT !.alpn = <<"h3">>], Server0, 5, 0),
     Later(Again, [Server0 EXCEPT !.clientAuth = TRUE], 5, 0),
     Later(Again, [Server0 EXCEPT !.signs = {"fails"}], 5, 0),
     Later([Again EXCEPT !.omitEoed = TRUE, !.earlyRecords = 0],
           [Server0 EXCEPT !.omitEoed = TRUE], 5, 0)}

\* The clocks: lag is how far the server's is ahead of the client's.
Clocks ==
    {Later(Again, [Server0 EXCEPT !.ageAdd = 4095], 5, lag) : lag \in {0, 10, 11}}
    \union {Later(Again, Server0, wait, 0) : wait \in {995, 996, 1001, 2000}}

First ==
    {Later(Client0, Server0, 0, 0),
     Later([Client0 EXCEPT !.tickets = <<2, 1>>], [Server0 EXCEPT !.ageAdd = 4095], 0, 5),
     Later([Client0 EXCEPT !.ech = "k1", !.ciphers = <<"aes256">>],
           [Server0 EXCEPT !.opener = "k1", !.alpn = "none", !.retry = TRUE], 0, 0)}

TwoConnections == {<<one, two>> : one \in First, two \in Changed \union Clocks}

MCPlans == OneConnection \union Busy \union TwoConnections
=============================================================================

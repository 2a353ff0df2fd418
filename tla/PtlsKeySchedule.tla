--------------------------- MODULE PtlsKeySchedule ---------------------------
(***************************************************************************)
(* The key schedule of picotls/lib/picotls.c with symbolic cryptography: a *)
(* digest is the sequence of messages that was hashed, a secret is the     *)
(* term that says how it was derived, a MAC is the pair of the secret and  *)
(* the digest it covers.  Two ends hold the same secret exactly when they  *)
(* hold the same term.                                                     *)
(*                                                                         *)
(* Every operator takes a schedule and returns the next one:               *)
(*   algos    the hash algorithms kept, the preferred one first            *)
(*   gen      how many inputs were extracted                               *)
(*   secret   the inputs, each with the algorithm that extracted it        *)
(*   ctx      the messages hashed (by each of algos alike)                 *)
(*   outer    <<ctx_outer>> while ClientHelloOuter is hashed too, or <<>>  *)
(*   ok       no pen_assert of the schedule has failed                     *)
(***************************************************************************)
EXTENDS Integers, Sequences, SequencesExt

\* The hash of a cipher suite.
HashOf(cs) == IF cs = "aes256" THEN "sha384" ELSE "sha256"

Zero       == <<"zero">>
Psk(s)     == <<"psk", s>>
Dhe(group) == <<"dhe", group>>

\* `preferred` is <<>> or <<cs>>; `offered` is a sequence of cipher suites.
NewSchedule(preferred, offered, useOuter) ==
    [algos  |-> FoldLeft(LAMBDA hs, cs : IF HashOf(cs) \in ToSet(hs) THEN hs
                                         ELSE Append(hs, HashOf(cs)),
                         <<>>, preferred \o offered),
     gen    |-> 0,
     secret |-> <<>>,
     ctx    |-> <<>>,
     outer  |-> IF useOuter THEN <<<<>>>> ELSE <<>>,
     ok     |-> TRUE]

Extract(s, ikm) ==
    [s EXCEPT !.gen = @ + 1, !.secret = Append(@, <<s.algos[1], ikm>>)]

\* Only the hash of the cipher suite is kept; the early secret is extracted
\* again if it was not the preferred one.
SelectCipher(s, cs, reset, ikm) ==
    LET kept == [s EXCEPT !.algos = <<HashOf(cs)>>,
                          !.ok = @ /\ s.gen = 1 /\ HashOf(cs) \in ToSet(s.algos)]
    IN  IF reset \/ s.algos[1] # HashOf(cs)
        THEN Extract([kept EXCEPT !.gen = 0, !.secret = <<>>], ikm)
        ELSE kept

SelectOuter(s) ==
    [s EXCEPT !.ctx = s.outer[1], !.outer = <<>>,
              !.ok = @ /\ s.gen = 1 /\ Len(s.algos) = 1]

\* A message as it is hashed.  What is computed from the messages before it
\* (verify_data, a signature, a binder, the confirmation of ECH) adds nothing
\* to the digest.
Hashed(m) ==
    CASE m.mt \in {"FIN", "CV"}        -> [m EXCEPT !.mac = <<>>]
      [] m.mt = "CH" /\ m.psk # <<>>   -> [m EXCEPT !.psk[1].binder = <<>>]
      [] m.mt = "SH" /\ m.confirm # <<>> -> [m EXCEPT !.confirm = <<"set">>]
      [] OTHER                         -> m

Update(s, m)      == [s EXCEPT !.ctx = Append(@, Hashed(m))]
UpdateOuter(s, m) == [s EXCEPT !.outer = <<Append(@[1], Hashed(m))>>]

MessageHash(algo, ctx) == [mt |-> "message_hash", algo |-> algo, of |-> ctx]

\* After a HelloRetryRequest the first ClientHello counts by its hash.
TransformPostCh1(s) ==
    LET fold(ctx) == <<MessageHash(s.algos[1], ctx)>>
    IN  [s EXCEPT !.ctx = fold(@),
                  !.outer = IF @ = <<>> THEN <<>> ELSE <<fold(@[1])>>]

-----------------------------------------------------------------------------
(* Secrets                                                                 *)

DeriveFrom(s, label, ctx) == <<"derived", label, s.algos[1], s.secret, ctx>>

Derive(s, label) == DeriveFrom(s, label, s.ctx)

DeriveEmpty(s, label) == DeriveFrom(s, label, <<>>)

DeriveResumption(s) == <<"resumption", Derive(s, "res_master")>>

\* update_traffic_key: the next secret of a direction.
NextSecret(secret) == <<"traffic_upd", secret>>

VerifyData(s, secret) == <<"verify_data", secret, s.algos[1], s.ctx>>

SignData(s, who) == <<"signdata", who, s.algos[1], s.ctx>>

\* ech_calc_confirmation: the server saw ClientHelloInner.
Confirmation(s, m, label) ==
    <<label, "inner_random", s.algos[1], Append(s.ctx, [m EXCEPT !.confirm = <<>>])>>

-----------------------------------------------------------------------------
(* Traffic protection of one direction: aead is <<>> (none) or the suite   *)
(* and the secret it was keyed with.                                       *)

NoTraffic == [epoch |-> 0, secret |-> <<>>, aead |-> <<>>, seq |-> 0]

SetupTraffic(cs, secret, epoch) ==
    [epoch |-> epoch, secret |-> secret, aead |-> <<cs, secret>>, seq |-> 0]
=============================================================================

-------------------------- MODULE PtlsAgreementProof --------------------------
(***************************************************************************)
(* Proof that two ends of picotls.c come to the same outcome, for every    *)
(* plan of connections: PtlsConnection implements PtlsAgreement.           *)
(*                                                                         *)
(* The argument follows the transcript.  All that makes up an outcome can  *)
(* be read off the messages hashed and the inputs of the key schedule: the *)
(* suite and the PSK off ServerHello, the protocol and early data off      *)
(* EncryptedExtensions, ECH off ClientHello, the exporter secret off the   *)
(* transcript up to the server's Finished.  The invariant says so of each  *)
(* end, at every step of its handshake, and of each Finished on its way to *)
(* the server with respect to the client that sent it.  The server takes a *)
(* Finished only if the MAC is the one it computes itself, over its own    *)
(* transcript under its own secret, hence what it reads off them is what   *)
(* the client did.                                                         *)
(***************************************************************************)
EXTENDS PtlsConnectionProof

-----------------------------------------------------------------------------
(* Sequences that grow. *)

\* q2 begins with q.
Begins(q, q2) == /\ IsSeq(q) /\ IsSeq(q2) /\ Len(q) <= Len(q2)
                 /\ \A i \in 1..Len(q) : q2[i] = q[i]

LEMMA AppendIs ==
  ASSUME NEW q, NEW x, IsSeq(q)
  PROVE  /\ IsSeq(Append(q, x)) /\ Len(Append(q, x)) = Len(q) + 1 /\ Len(q) \in Nat
         /\ Append(q, x)[Len(q) + 1] = x /\ Last(Append(q, x)) = x
         /\ Append(q, x) # <<>>
         /\ \A i \in 1..Len(q) : Append(q, x)[i] = q[i]
         /\ Begins(q, Append(q, x))
<1>1. PICK X : q \in Seq(X)
  BY DEF IsSeq
<1> DEFINE Z == X \cup {x}
<1>2. q \in Seq(Z) /\ x \in Z
  BY <1>1, SeqMonotonic
<1> HIDE DEF Z
<1>3. /\ Append(q, x) \in Seq(Z) /\ Append(q, x) # <<>> /\ Len(Append(q, x)) = Len(q) + 1
      /\ \A i \in 1..Len(q) : Append(q, x)[i] = q[i]
      /\ Append(q, x)[Len(q) + 1] = x /\ Len(q) \in Nat
  BY <1>2, AppendProperties, LenProperties
<1> QED
  BY <1>1, <1>3 DEF IsSeq, Last, Begins

LEMMA SeqsEqual ==
  ASSUME NEW p, NEW q, IsSeq(p), IsSeq(q), Len(p) = Len(q), \A i \in 1..Len(p) : p[i] = q[i]
  PROVE  p = q
<1>1. PICK X : p \in Seq(X)
  BY DEF IsSeq
<1>2. PICK Y : q \in Seq(Y)
  BY DEF IsSeq
<1> DEFINE Z == X \cup Y
<1>3. p \in Seq(Z) /\ q \in Seq(Z)
  BY <1>1, <1>2, SeqMonotonic
<1> HIDE DEF Z
<1> QED
  BY <1>3, SeqEqual

LEMMA FrontIs ==
  ASSUME NEW q, IsSeq(q), NEW n \in 0..Len(q)
  PROVE  /\ IsSeq(SubSeq(q, 1, n)) /\ Len(SubSeq(q, 1, n)) = n
         /\ \A i \in 1..n : SubSeq(q, 1, n)[i] = q[i]
<1>1. PICK X : q \in Seq(X)
  BY DEF IsSeq
<1>2. Len(q) \in Nat /\ \A i \in 1..n : q[i] \in X
  BY <1>1, LenProperties
<1>3. n \in Nat /\ 1 \in Int /\ n \in Int
  BY <1>2
<1>4. /\ SubSeq(q, 1, n) \in Seq(X) /\ Len(SubSeq(q, 1, n)) = (IF 1 <= n THEN n - 1 + 1 ELSE 0)
      /\ \A i \in 1..n - 1 + 1 : SubSeq(q, 1, n)[i] = q[1 + i - 1]
  BY <1>2, <1>3, SubSeqProperties
<1> QED
  BY <1>3, <1>4 DEF IsSeq

LEMMA FrontKept ==
  ASSUME NEW q, NEW q2, Begins(q, q2), NEW n \in 0..Len(q)
  PROVE  SubSeq(q2, 1, n) = SubSeq(q, 1, n)
<1>1. Len(q) \in Nat /\ Len(q2) \in Nat /\ n \in 0..Len(q2) /\ n \in Nat
  BY LenOfSeq DEF Begins
<1>2. /\ IsSeq(SubSeq(q, 1, n)) /\ Len(SubSeq(q, 1, n)) = n
      /\ \A i \in 1..n : SubSeq(q, 1, n)[i] = q[i]
  BY FrontIs DEF Begins
<1>3. /\ IsSeq(SubSeq(q2, 1, n)) /\ Len(SubSeq(q2, 1, n)) = n
      /\ \A i \in 1..n : SubSeq(q2, 1, n)[i] = q2[i]
  BY <1>1, FrontIs DEF Begins
<1>4. \A i \in 1..n : q2[i] = q[i]
  BY <1>1 DEF Begins
<1> QED
  BY <1>2, <1>3, <1>4, SeqsEqual

LEMMA WholeFront == ASSUME NEW q, IsSeq(q) PROVE SubSeq(q, 1, Len(q)) = q
  BY SubSeqFull DEF IsSeq

LEMMA BeginsOn ==
  ASSUME NEW p, NEW q, NEW r, Begins(p, q), Begins(q, r)
  PROVE  Begins(p, r)
<1>1. Len(p) \in Nat /\ Len(q) \in Nat /\ Len(r) \in Nat
  BY LenOfSeq DEF Begins
<1> QED
  BY <1>1 DEF Begins

LEMMA SingleIs == ASSUME NEW x PROVE /\ IsSeq(<<x>>) /\ Len(<<x>>) = 1 /\ <<x>>[1] = x
                                     /\ <<x>> # <<>> /\ Append(<<>>, x) = <<x>>
<1>1. IsSeq(<<x>>) /\ Len(<<x>>) = 1 /\ <<x>>[1] = x
  BY EmptyIsSeq, SeqAppended
<1>2. Append(<<>>, x) = <<x>>
  OBVIOUS
<1>3. <<x>> # <<>>
  BY <1>1, EmptyIsSeq
<1> QED
  BY <1>1, <1>2, <1>3

-----------------------------------------------------------------------------
(* What an outcome can be read off: the handshake secret of the client, the *)
(* hash algorithm and the messages hashed.                                 *)

\* The client's handshake secret, from the messages up to ServerHello, the n-th.
HsSecret(algo, sec, ctx, n) == <<"derived", "c_hs_traffic", algo, sec, SubSeq(ctx, 1, n)>>

ExpOf(algo, sec, ctx, p) ==
    <<"derived", "exp_master", algo, Append(sec, <<algo, Zero>>), SubSeq(ctx, 1, p)>>

EarlyOf(algo, sec, ctx, n) ==
    <<"derived", "e_exp_master", algo, <<sec[1]>>, SubSeq(ctx, 1, n - 1)>>

\* No server takes early data: the PSK was not used, or is one nobody knows.
Doubt(sec, ctx, n) == sec[1][2] = Zero \/ Decoy(ctx[n - 1])

\* ServerHello says the suite and the PSK, the ClientHello before it whether ECH
\* is accepted.
Opening(e, hs, algo, ctx, n) ==
    /\ n \in 2..Len(ctx) /\ hs = HsSecret(algo, hs[4], ctx, n)
    /\ e.cs = <<ctx[n].cs>> /\ e.isPsk = ctx[n].psk
    /\ \/ e.ech.accepted = TRUE /\ Inside(ctx[n - 1])
       \/ e.ech.accepted = FALSE /\ ~Inside(ctx[n - 1])

\* EncryptedExtensions, the next one, says the protocol and the early data.
Told(e, early, hs, algo, ctx, n) ==
    /\ n < Len(ctx) /\ e.alpn = ctx[n + 1].alpn
    /\ ctx[n + 1].early => Doubt(hs[4], ctx, n) \/ early = EarlyOf(algo, hs[4], ctx, n)
    /\ ~ctx[n + 1].early => early = <<>>

\* The last Finished is the server's: the exporter secret comes from it.
Ended(e, hs, algo, ctx) ==
    \E p \in 1..Len(ctx) : /\ ctx[p].mt = "FIN" /\ \A i \in p + 1..Len(ctx) : ctx[i].mt # "FIN"
                           /\ e.exp = ExpOf(algo, hs[4], ctx, p)

Reads(e, early, hs, algo, ctx) ==
    \E n \in 2..Len(ctx) : /\ Opening(e, hs, algo, ctx, n) /\ Told(e, early, hs, algo, ctx, n)
                           /\ Ended(e, hs, algo, ctx)

\* The server says that it takes early data only when it does.
Sure(hs, ctx, n) == ctx[n + 1].early => ~Doubt(hs[4], ctx, n)

LEMMA HelloNumber ==
  ASSUME NEW hs, NEW algo, NEW sec, NEW ctx, IsSeq(ctx), NEW n \in 1..Len(ctx),
         hs = HsSecret(algo, sec, ctx, n)
  PROVE  n = Len(hs[5]) /\ sec = hs[4]
<1>1. Len(ctx) \in Nat
  BY LenOfSeq
<1>2. n \in 0..Len(ctx)
  BY <1>1
<1>3. Len(SubSeq(ctx, 1, n)) = n
  BY <1>2, FrontIs
<1> QED
  BY <1>3 DEF HsSecret

\* Two ends that read the same come to the same.
LEMMA OneOutcome ==
  ASSUME NEW c, NEW ec, NEW s, NEW es, NEW hs, NEW algo, NEW ctx, IsSeq(ctx),
         Reads(c, ec, hs, algo, ctx), NEW n \in 2..Len(ctx),
         Opening(s, hs, algo, ctx, n), Told(s, es, hs, algo, ctx, n), Sure(hs, ctx, n),
         Ended(s, hs, algo, ctx)
  PROVE  /\ c.cs = s.cs /\ c.isPsk = s.isPsk /\ c.ech.accepted = s.ech.accepted
         /\ c.alpn = s.alpn /\ c.exp = s.exp /\ ec = es
<1>1. PICK k \in 2..Len(ctx) : /\ Opening(c, hs, algo, ctx, k) /\ Told(c, ec, hs, algo, ctx, k)
                               /\ Ended(c, hs, algo, ctx)
  BY DEF Reads
<1>2. Len(ctx) \in Nat
  BY LenOfSeq
<1>3. k = n
  <2>1. n \in 1..Len(ctx) /\ k \in 1..Len(ctx)
    BY <1>2
  <2>2. hs = HsSecret(algo, hs[4], ctx, n) /\ hs = HsSecret(algo, hs[4], ctx, k)
    BY <1>1 DEF Opening
  <2>3. n = Len(hs[5])
    BY <2>1, <2>2, HelloNumber
  <2>4. k = Len(hs[5])
    BY <2>1, <2>2, HelloNumber
  <2> QED
    BY <2>3, <2>4
<1>4. c.cs = s.cs /\ c.isPsk = s.isPsk /\ c.ech.accepted = s.ech.accepted
  BY <1>1, <1>3 DEF Opening
<1>5. c.alpn = s.alpn /\ ec = es
  BY <1>1, <1>3 DEF Told, Sure
<1>6. c.exp = s.exp
  <2>1. PICK p \in 1..Len(ctx) :
           /\ ctx[p].mt = "FIN" /\ \A i \in p + 1..Len(ctx) : ctx[i].mt # "FIN"
           /\ c.exp = ExpOf(algo, hs[4], ctx, p)
    BY <1>1 DEF Ended
  <2>2. PICK r \in 1..Len(ctx) :
           /\ ctx[r].mt = "FIN" /\ \A i \in r + 1..Len(ctx) : ctx[i].mt # "FIN"
           /\ s.exp = ExpOf(algo, hs[4], ctx, r)
    BY DEF Ended
  <2>3. p = r
    BY <1>2, <2>1, <2>2
  <2> QED
    BY <2>1, <2>2, <2>3
<1> QED
  BY <1>4, <1>5, <1>6

\* What was read stays, for as long as no other Finished is hashed.
LEMMA FrontStays ==
  ASSUME NEW ctx, NEW ctx2, Begins(ctx, ctx2), NEW n \in 2..Len(ctx)
  PROVE  /\ SubSeq(ctx2, 1, n) = SubSeq(ctx, 1, n)
         /\ SubSeq(ctx2, 1, n - 1) = SubSeq(ctx, 1, n - 1)
         /\ ctx2[n] = ctx[n] /\ ctx2[n - 1] = ctx[n - 1] /\ n \in 2..Len(ctx2)
<1>1. Len(ctx) \in Nat /\ Len(ctx2) \in Nat /\ Len(ctx) <= Len(ctx2)
      /\ \A i \in 1..Len(ctx) : ctx2[i] = ctx[i]
  BY LenOfSeq DEF Begins
<1>2. n \in 0..Len(ctx) /\ n - 1 \in 0..Len(ctx)
  BY <1>1
<1>3. SubSeq(ctx2, 1, n) = SubSeq(ctx, 1, n)
  BY <1>2, FrontKept
<1>4. SubSeq(ctx2, 1, n - 1) = SubSeq(ctx, 1, n - 1)
  BY <1>2, FrontKept
<1>5. ctx2[n] = ctx[n] /\ ctx2[n - 1] = ctx[n - 1] /\ n \in 2..Len(ctx2)
  BY <1>1
<1> QED
  BY <1>3, <1>4, <1>5

LEMMA NextStays ==
  ASSUME NEW ctx, NEW ctx2, Begins(ctx, ctx2), NEW n \in 2..Len(ctx), n < Len(ctx)
  PROVE  ctx2[n + 1] = ctx[n + 1] /\ n < Len(ctx2)
<1>1. Len(ctx) \in Nat /\ Len(ctx2) \in Nat /\ Len(ctx) <= Len(ctx2)
      /\ \A i \in 1..Len(ctx) : ctx2[i] = ctx[i]
  BY LenOfSeq DEF Begins
<1> QED
  BY <1>1

LEMMA EarlyStays ==
  ASSUME NEW ctx, NEW ctx2, Begins(ctx, ctx2), NEW n \in 2..Len(ctx), NEW sec, NEW algo
  PROVE  EarlyOf(algo, sec, ctx2, n) = EarlyOf(algo, sec, ctx, n)
<1>1. SubSeq(ctx2, 1, n - 1) = SubSeq(ctx, 1, n - 1)
  BY FrontStays
<1> QED
  BY <1>1 DEF EarlyOf

LEMMA DoubtStays ==
  ASSUME NEW ctx, NEW ctx2, Begins(ctx, ctx2), NEW n \in 2..Len(ctx), NEW hs
  PROVE  Doubt(hs[4], ctx2, n) <=> Doubt(hs[4], ctx, n)
<1>1. ctx2[n - 1] = ctx[n - 1]
  BY FrontStays
<1> QED
  BY <1>1 DEF Doubt

LEMMA OpeningStays ==
  ASSUME NEW ctx, NEW ctx2, Begins(ctx, ctx2), NEW hs, NEW algo, NEW n \in 2..Len(ctx),
         NEW e, Opening(e, hs, algo, ctx, n),
         NEW e2, e2.cs = e.cs, e2.isPsk = e.isPsk, e2.ech.accepted = e.ech.accepted
  PROVE  Opening(e2, hs, algo, ctx2, n)
<1>1. /\ SubSeq(ctx2, 1, n) = SubSeq(ctx, 1, n)
      /\ ctx2[n] = ctx[n] /\ ctx2[n - 1] = ctx[n - 1] /\ n \in 2..Len(ctx2)
  BY FrontStays
<1> QED
  BY <1>1 DEF Opening, HsSecret

LEMMA ToldStays ==
  ASSUME NEW ctx, NEW ctx2, Begins(ctx, ctx2), NEW hs, NEW algo, NEW n \in 2..Len(ctx),
         NEW early, NEW e, Told(e, early, hs, algo, ctx, n), NEW e2, e2.alpn = e.alpn
  PROVE  Told(e2, early, hs, algo, ctx2, n)
<1>1. n < Len(ctx)
  BY DEF Told
<1>2. ctx2[n + 1] = ctx[n + 1] /\ n < Len(ctx2)
  BY <1>1, NextStays
<1>3. EarlyOf(algo, hs[4], ctx2, n) = EarlyOf(algo, hs[4], ctx, n)
  BY EarlyStays
<1>4. Doubt(hs[4], ctx2, n) <=> Doubt(hs[4], ctx, n)
  BY DoubtStays
<1> QED
  BY <1>2, <1>3, <1>4 DEF Told

LEMMA EndedStill ==
  ASSUME NEW ctx, IsSeq(ctx), NEW x, x.mt # "FIN", NEW e, NEW e2, NEW hs, NEW algo,
         Ended(e, hs, algo, ctx), e2.exp = e.exp
  PROVE  Ended(e2, hs, algo, Append(ctx, x))
<1> DEFINE ctx2 == Append(ctx, x)
<1>1. /\ Len(ctx2) = Len(ctx) + 1 /\ Len(ctx) \in Nat /\ ctx2[Len(ctx) + 1] = x
      /\ Begins(ctx, ctx2) /\ \A i \in 1..Len(ctx) : ctx2[i] = ctx[i]
  BY AppendIs
<1> HIDE DEF ctx2
<1>2. PICK p \in 1..Len(ctx) :
         /\ ctx[p].mt = "FIN" /\ \A i \in p + 1..Len(ctx) : ctx[i].mt # "FIN"
         /\ e.exp = ExpOf(algo, hs[4], ctx, p)
  BY DEF Ended
<1>3. p \in 0..Len(ctx)
  BY <1>1
<1>4. SubSeq(ctx2, 1, p) = SubSeq(ctx, 1, p)
  BY <1>1, <1>3, FrontKept
<1>5. ExpOf(algo, hs[4], ctx2, p) = ExpOf(algo, hs[4], ctx, p)
  BY <1>4 DEF ExpOf
<1>6. p \in 1..Len(ctx2) /\ ctx2[p].mt = "FIN" /\ \A i \in p + 1..Len(ctx2) : ctx2[i].mt # "FIN"
  BY <1>1, <1>2
<1> QED
  BY <1>2, <1>5, <1>6 DEF Ended, ctx2

-----------------------------------------------------------------------------
(* The key schedule. *)

Schedule(s) == /\ {"algos", "secret", "ctx", "outer"} \subseteq DOMAIN s
               /\ IsSeq(s.ctx) /\ IsSeq(s.secret)

LEMMA UpdateIs ==
  ASSUME NEW s, Schedule(s), NEW m
  PROVE  /\ Schedule(Update(s, m)) /\ Same(s, Update(s, m), {"ctx"})
         /\ Update(s, m).ctx = Append(s.ctx, Hashed(m))
         /\ Update(s, m).algos = s.algos /\ Update(s, m).secret = s.secret
         /\ Update(s, m).outer = s.outer
<1> DEFINE t == Update(s, m)
<1>1. Same(s, t, {"ctx"}) /\ t.ctx = Append(s.ctx, Hashed(m))
  BY DEF Update, Same, Schedule
<1> HIDE DEF t
<1>2. IsSeq(t.ctx)
  BY <1>1, AppendIs DEF Schedule
<1>3. t.algos = s.algos /\ t.secret = s.secret /\ t.outer = s.outer
      /\ {"algos", "secret", "ctx", "outer"} \subseteq DOMAIN t
  BY <1>1 DEF Same, Schedule
<1> QED
  BY <1>1, <1>2, <1>3 DEF Schedule, t

LEMMA ExtractIs ==
  ASSUME NEW s, {"algos", "secret", "ctx", "outer"} \subseteq DOMAIN s, IsSeq(s.ctx), IsSeq(s.secret),
         NEW ikm
  PROVE  /\ Schedule(Extract(s, ikm))
         /\ Extract(s, ikm).ctx = s.ctx /\ Extract(s, ikm).algos = s.algos
         /\ Extract(s, ikm).secret = Append(s.secret, <<s.algos[1], ikm>>)
         /\ Extract(s, ikm).outer = s.outer
         /\ s.secret = <<>> => /\ Len(Extract(s, ikm).secret) = 1
                               /\ Extract(s, ikm).secret = <<Extract(s, ikm).secret[1]>>
                               /\ Extract(s, ikm).secret[1][2] = ikm
<1> DEFINE t == Extract(s, ikm)
           x == <<s.algos[1], ikm>>
<1>1. Same(s, t, {"gen", "secret"}) /\ t.secret = Append(s.secret, x)
  BY DEF Extract, Same
<1>2. x[2] = ikm
  OBVIOUS
<1> HIDE DEF t, x
<1>3. IsSeq(t.secret)
  BY <1>1, AppendIs
<1>4. t.ctx = s.ctx /\ t.algos = s.algos /\ t.outer = s.outer
      /\ {"algos", "secret", "ctx", "outer"} \subseteq DOMAIN t
  BY <1>1 DEF Same
<1>5. ASSUME s.secret = <<>> PROVE Len(t.secret) = 1 /\ t.secret = <<t.secret[1]>> /\ t.secret[1] = x
  BY <1>1, <1>5, SingleIs
<1> QED
  BY <1>1, <1>2, <1>3, <1>4, <1>5 DEF Schedule, t, x

LEMMA SingleOf == ASSUME NEW q, IsSeq(q), Len(q) = 1 PROVE q = <<q[1]>>
<1> DEFINE x == q[1]
<1>1. IsSeq(<<x>>) /\ Len(<<x>>) = 1 /\ <<x>>[1] = x
  BY SingleIs
<1>2. \A i \in 1..1 : q[i] = <<x>>[i]
  BY <1>1
<1> HIDE DEF x
<1>3. q = <<x>>
  BY <1>1, <1>2, SeqsEqual
<1> QED
  BY <1>3 DEF x

LEMMA CipherSelected ==
  ASSUME NEW s, Schedule(s), Len(s.secret) = 1, NEW cs, NEW reset, NEW ikm
  PROVE  LET t == SelectCipher(s, cs, reset, ikm)
         IN  /\ Schedule(t) /\ t.ctx = s.ctx /\ t.outer = s.outer /\ Len(t.secret) = 1
             /\ (t.secret = s.secret /\ t.algos[1] = s.algos[1]) \/ t.secret[1][2] = ikm
<1> DEFINE kept == [s EXCEPT !.algos = <<HashOf(cs)>>,
                             !.ok = @ /\ s.gen = 1 /\ HashOf(cs) \in ToSet(s.algos)]
           bare == [kept EXCEPT !.gen = 0, !.secret = <<>>]
           t == SelectCipher(s, cs, reset, ikm)
<1>1. Same(s, kept, {"algos", "ok"}) /\ kept.algos = <<HashOf(cs)>>
  BY DEF Same, Schedule
<1>2. t = IF reset \/ s.algos[1] # HashOf(cs) THEN Extract(bare, ikm) ELSE kept
  BY DEF SelectCipher
<1> HIDE DEF kept, t
<1>3. Same(kept, bare, {"gen", "secret"}) /\ bare.secret = <<>>
  BY <1>1 DEF Same, Schedule
<1> HIDE DEF bare
<1>4. /\ kept.ctx = s.ctx /\ kept.outer = s.outer /\ kept.secret = s.secret /\ Schedule(kept)
      /\ kept.algos[1] = HashOf(cs)
  BY <1>1 DEF Same, Schedule
<1>5. /\ bare.ctx = s.ctx /\ bare.outer = s.outer
      /\ {"algos", "secret", "ctx", "outer"} \subseteq DOMAIN bare
  BY <1>3, <1>4 DEF Same, Schedule
<1>6. CASE reset \/ s.algos[1] # HashOf(cs)
  <2>1. IsSeq(bare.ctx) /\ IsSeq(bare.secret)
    BY <1>3, <1>5, EmptyIsSeq DEF Schedule
  <2>2. t = Extract(bare, ikm)
    BY <1>2, <1>6
  <2> QED
    BY <1>3, <1>5, <2>1, <2>2, ExtractIs DEF t
<1>7. CASE ~(reset \/ s.algos[1] # HashOf(cs))
  BY <1>2, <1>4, <1>7 DEF t
<1> QED
  BY <1>6, <1>7

LEMMA HashedIs ==
  ASSUME NEW m, MessageTyped(m)
  PROVE  /\ m.mt = "SH" => Hashed(m).cs = m.cs /\ Hashed(m).psk = m.psk
         /\ m.mt \in {"FIN", "CV"} => Hashed(m).mt = m.mt
         /\ m.mt \notin {"FIN", "CV", "CH", "SH"} => Hashed(m) = m
<1>1. CASE m.mt \in {"FIN", "CV"}
  BY <1>1 DEF Hashed, MessageTyped
<1>2. CASE m.mt = "SH"
  BY <1>2 DEF Hashed, MessageTyped
<1>3. CASE m.mt \notin {"FIN", "CV", "CH", "SH"}
  BY <1>3 DEF Hashed
<1>4. CASE m.mt = "CH"
  BY <1>4
<1> QED
  BY <1>1, <1>2, <1>3, <1>4

LEMMA HelloHashedIs ==
  ASSUME NEW m, HelloTyped(m)
  PROVE  (Inside(Hashed(m)) <=> Inside(m)) /\ (Decoy(Hashed(m)) <=> Decoy(m))
<1> DEFINE p == [m.psk EXCEPT ![1] = [m.psk[1] EXCEPT !.binder = <<>>]]
<1>1. \/ Hashed(m) = m
      \/ Hashed(m) = [m EXCEPT !.mac = <<>>]
      \/ Hashed(m) = [m EXCEPT !.confirm = <<"set">>]
      \/ m.psk # <<>> /\ Hashed(m) = [m EXCEPT !.psk = p]
  BY DEF Hashed
<1>2. CASE m.psk # <<>> /\ Hashed(m) = [m EXCEPT !.psk = p]
  <2>1. 1 \in DOMAIN m.psk /\ "id" \in DOMAIN m.psk[1]
    BY <1>2 DEF HelloTyped
  <2>2. p[1].id = m.psk[1].id /\ DOMAIN p = DOMAIN m.psk
    BY <2>1
  <2>3. DOMAIN <<>> = {}
    OBVIOUS
  <2> HIDE DEF p
  <2>4. p # <<>>
    BY <2>1, <2>2, <2>3
  <2>5. Hashed(m).psk = p /\ Hashed(m).ech = m.ech
    BY <1>2 DEF HelloTyped
  <2> QED
    BY <1>2, <2>2, <2>4, <2>5 DEF Inside, Decoy
<1>3. CASE Hashed(m).psk = m.psk /\ Hashed(m).ech = m.ech
  BY <1>3 DEF Inside, Decoy
<1> QED
  BY <1>1, <1>2, <1>3 DEF HelloTyped

-----------------------------------------------------------------------------
(* The client: what its state says of the transcript. *)

ClientEndFields == {"st", "ret", "sched", "enc", "out", "pend", "cs", "isPsk", "ech", "alpn",
                    "exp", "expEarly", "usingEarly", "acceptance"}

ClientEnd(e) ==
    /\ ClientEndFields \subseteq DOMAIN e /\ {"on", "accepted", "first"} \subseteq DOMAIN e.ech
    /\ {"secret", "seq", "aead"} \subseteq DOMAIN e.enc
    /\ e.usingEarly \in BOOLEAN /\ EchTyped(e.ech.first)

\* The client's handshake secret: kept aside while there is early data to send.
ClientHs(e) == IF e.pend # <<>> THEN e.pend[1] ELSE e.enc.secret

ClientEarly(e) == IF e.acceptance = "ACCEPTED" THEN e.expEarly ELSE <<>>

\* Early data that was accepted has a secret.
EarlyTaken(e) == e.acceptance = "ACCEPTED" => e.expEarly # <<>>

\* The ClientHello to which an ECH that is refused comes down is kept apart.
EchFits(e) ==
    \/ /\ e.ech.on /\ Inside(Last(e.sched.ctx))
       /\ e.sched.outer # <<>> /\ IsSeq(e.sched.outer[1]) /\ Len(e.sched.outer[1]) > 0
       /\ ~Inside(Last(e.sched.outer[1])) /\ Decoy(Last(e.sched.outer[1]))
    \/ ~e.ech.on /\ e.ech.accepted = FALSE /\ ~Inside(Last(e.sched.ctx))

Waits(e) ==
    /\ Schedule(e.sched) /\ Len(e.sched.secret) = 1 /\ Len(e.sched.ctx) > 0
    /\ e.acceptance # "ACCEPTED" /\ EchFits(e)
    /\ e.ech.first # <<>> => e.ech.first[1].typ = "outer"
    /\ e.usingEarly => e.expEarly = <<"derived", "e_exp_master", e.sched.algos[1],
                                      e.sched.secret, e.sched.ctx>>

\* In the server's flight, with its n-th message of the transcript ServerHello.
Hears(e, n) == /\ Schedule(e.sched)
               /\ e.usingEarly => e.pend # <<>>
               /\ ClientHs(e)[4] = e.sched.secret
               /\ Opening(e, ClientHs(e), e.sched.algos[1], e.sched.ctx, n)

AwaitsExtensions(e) ==
    /\ Hears(e, Len(e.sched.ctx)) /\ e.acceptance # "ACCEPTED"
    /\ e.usingEarly => e.expEarly # <<>>
    /\ e.usingEarly =>
          \/ Doubt(e.sched.secret, e.sched.ctx, Len(e.sched.ctx))
          \/ e.expEarly = EarlyOf(e.sched.algos[1], e.sched.secret, e.sched.ctx, Len(e.sched.ctx))

AwaitsFinished(e) ==
    /\ EarlyTaken(e)
    /\ \E n \in 2..Len(e.sched.ctx) :
          /\ Hears(e, n)
          /\ Told(e, ClientEarly(e), ClientHs(e), e.sched.algos[1], e.sched.ctx, n)

WaitStates == {"EXPECT_SERVER_HELLO", "EXPECT_SECOND_SERVER_HELLO"}
RestStates == {"EXPECT_CERTIFICATE_REQUEST_OR_CERTIFICATE", "EXPECT_CERTIFICATE",
               "EXPECT_CERTIFICATE_VERIFY", "EXPECT_FINISHED"}

ClientStory(e) ==
    /\ e.st = "HANDSHAKE_START" => ~e.usingEarly
    /\ e.st \in WaitStates => Waits(e)
    /\ e.st = "EXPECT_ENCRYPTED_EXTENSIONS" => AwaitsExtensions(e)
    /\ e.st \in RestStates => AwaitsFinished(e)

\* A MAC over messages that the outcome of e can be read off.
Backed(mac, e) == /\ mac = <<"verify_data", mac[2], mac[3], mac[4]>>
                  /\ EarlyTaken(e)
                  /\ Reads(e, ClientEarly(e), mac[2], mac[3], mac[4])

Fins(q, e) ==
    /\ IsSeq(q)
    /\ \A i \in 1..Len(q) : q[i].msg.mt = "FIN" =>
          e.st = "POST_HANDSHAKE" /\ Backed(q[i].msg.mac, e)

Silent(q) == IsSeq(q) /\ \A i \in 1..Len(q) : q[i].msg.mt # "FIN"

\* An outcome is kept.
SameOutcome(e, f) ==
    /\ f.cs = e.cs /\ f.isPsk = e.isPsk /\ f.ech.accepted = e.ech.accepted
    /\ f.alpn = e.alpn /\ f.exp = e.exp /\ f.expEarly = e.expEarly

ClientStays(e, f) == e.st = "POST_HANDSHAKE" =>
    f.st = "POST_HANDSHAKE" /\ SameOutcome(e, f) /\ f.acceptance = e.acceptance

\* What a call of picotls makes of the client e.
ClientTurns(e, f) == /\ ClientEnd(f) /\ Fins(f.out, f) /\ ClientStays(e, f)
                     /\ Open(f) => ClientStory(f)

LEMMA BackedStays ==
  ASSUME NEW e, NEW f, SameOutcome(e, f), f.acceptance = e.acceptance, NEW mac, Backed(mac, e)
  PROVE  Backed(mac, f)
<1>1. ClientEarly(f) = ClientEarly(e)
  BY DEF ClientEarly, SameOutcome
<1> DEFINE early == ClientEarly(e)
<1>2. \A hs, algo, ctx : Reads(e, early, hs, algo, ctx) => Reads(f, early, hs, algo, ctx)
  <2> HIDE DEF early
  <2> QED
    BY DEF Reads, Opening, Told, Ended, SameOutcome
<1>3. EarlyTaken(f)
  BY DEF Backed, EarlyTaken, SameOutcome
<1> QED
  BY <1>1, <1>2, <1>3 DEF Backed

LEMMA FinsStay ==
  ASSUME NEW q, NEW e, NEW f, Fins(q, e), ClientStays(e, f)
  PROVE  Fins(q, f)
  BY BackedStays DEF Fins, ClientStays

LEMMA FinsJoin ==
  ASSUME NEW q, NEW r, NEW e, Fins(q, e), Fins(r, e)
  PROVE  Fins(q \o r, e)
<1>1. /\ IsSeq(q \o r) /\ Len(q \o r) = Len(q) + Len(r) /\ Len(q) \in Nat /\ Len(r) \in Nat
      /\ \A i \in 1..Len(q) : (q \o r)[i] = q[i]
      /\ \A i \in 1..Len(r) : (q \o r)[Len(q) + i] = r[i]
  BY SeqSum DEF Fins
<1> DEFINE all == q \o r
<1> HIDE DEF all
<1>2. ASSUME NEW i \in 1..Len(all), all[i].msg.mt = "FIN"
      PROVE  e.st = "POST_HANDSHAKE" /\ Backed(all[i].msg.mac, e)
  <2>1. CASE i \in 1..Len(q)
    BY <1>1, <1>2, <2>1 DEF Fins, all
  <2>2. CASE i \notin 1..Len(q)
    <3>1. i - Len(q) \in 1..Len(r) /\ Len(q) + (i - Len(q)) = i
      BY <1>1, <1>2, <2>2 DEF all
    <3>2. all[i] = r[i - Len(q)]
      BY <1>1, <3>1 DEF all
    <3> QED
      BY <1>2, <3>1, <3>2 DEF Fins
  <2> QED
    BY <2>1, <2>2
<1> QED
  BY <1>1, <1>2 DEF Fins, all

LEMMA SilentIs ==
  ASSUME NEW q, Silent(q)
  PROVE  /\ \A e : Fins(q, e)
         /\ \A r : r.msg.mt # "FIN" => Silent(Append(q, r))
         /\ Silent(<<>>)
<1>1. \A e : Fins(q, e)
  BY DEF Fins, Silent
<1>2. Silent(<<>>)
  BY EmptyIsSeq DEF Silent
<1>3. ASSUME NEW r, r.msg.mt # "FIN" PROVE Silent(Append(q, r))
  <2> DEFINE t == Append(q, r)
  <2>1. /\ IsSeq(t) /\ Len(t) = Len(q) + 1 /\ Len(q) \in Nat
        /\ \A i \in 1..Len(q) : t[i] = q[i]
        /\ t[Len(q) + 1] = r
    BY AppendIs DEF Silent
  <2> HIDE DEF t
  <2>2. \A i \in 1..Len(t) : i \in 1..Len(q) \/ i = Len(q) + 1
    BY <2>1
  <2> QED
    BY <1>3, <2>1, <2>2 DEF Silent, t
<1> QED
  BY <1>1, <1>2, <1>3

\* What a story does not mention.
LEMMA StoryCarried ==
  ASSUME NEW e, NEW f, ClientStory(e), f.st = e.st, f.sched = e.sched, f.pend = e.pend,
         f.ech = e.ech, f.cs = e.cs, f.isPsk = e.isPsk, f.alpn = e.alpn,
         f.expEarly = e.expEarly, f.usingEarly = e.usingEarly, f.acceptance = e.acceptance,
         f.enc.secret = e.enc.secret \/ e.usingEarly
  PROVE  ClientStory(f)
<1>1. Waits(e) => Waits(f)
  BY DEF Waits, EchFits
<1>2. ClientEarly(f) = ClientEarly(e)
  BY DEF ClientEarly
<1>3. ASSUME NEW n, Hears(e, n) PROVE Hears(f, n) /\ ClientHs(f) = ClientHs(e)
  <2>1. ClientHs(f) = ClientHs(e)
    BY <1>3 DEF Hears, ClientHs
  <2> QED
    BY <1>3, <2>1 DEF Hears, Opening
<1>4. AwaitsExtensions(e) => AwaitsExtensions(f)
  BY <1>3 DEF AwaitsExtensions
<1>4a. EarlyTaken(e) => EarlyTaken(f)
  BY DEF EarlyTaken
<1>5. AwaitsFinished(e) => AwaitsFinished(f)
  <2> SUFFICES ASSUME AwaitsFinished(e) PROVE AwaitsFinished(f)
    OBVIOUS
  <2>1. PICK n \in 2..Len(e.sched.ctx) :
           /\ Hears(e, n)
           /\ Told(e, ClientEarly(e), ClientHs(e), e.sched.algos[1], e.sched.ctx, n)
    BY DEF AwaitsFinished
  <2>2. Told(f, ClientEarly(f), ClientHs(f), f.sched.algos[1], f.sched.ctx, n)
    BY <1>2, <1>3, <2>1 DEF Told
  <2> QED
    BY <1>3, <1>4a, <2>1, <2>2 DEF AwaitsFinished
<1> QED
  BY <1>1, <1>4, <1>5 DEF ClientStory

\* Steps that change nothing of what an outcome is made of.
LEMMA ClientRemains ==
  ASSUME NEW e, ClientEnd(e), ClientStory(e), Fins(e.out, e), NEW f,
         Same(e, f, {"ret", "dec", "got", "saved", "asserts", "needsKU", "reqKU", "certReq"})
  PROVE  ClientTurns(e, f) /\ ClientStory(f)
<1>1. /\ f.st = e.st /\ f.sched = e.sched /\ f.pend = e.pend /\ f.ech = e.ech /\ f.cs = e.cs
      /\ f.isPsk = e.isPsk /\ f.alpn = e.alpn /\ f.expEarly = e.expEarly /\ f.exp = e.exp
      /\ f.usingEarly = e.usingEarly /\ f.acceptance = e.acceptance /\ f.enc = e.enc
      /\ f.out = e.out /\ DOMAIN f = DOMAIN e
  BY DEF Same, ClientEnd, ClientEndFields
<1>2. ClientStory(f)
  BY <1>1, StoryCarried
<1>3. ClientStays(e, f)
  BY <1>1 DEF ClientStays, SameOutcome
<1>4. Fins(f.out, f)
  BY <1>1, <1>3, FinsStay
<1>5. ClientEnd(f)
  BY <1>1 DEF ClientEnd
<1> QED
  BY <1>2, <1>3, <1>4, <1>5 DEF ClientTurns

LEMMA FailIs ==
  ASSUME NEW e, ClientEnd(e), NEW alert
  PROVE  /\ Same(e, Fail(e, alert), {"ret"}) /\ Fail(e, alert).ret = alert
         /\ Fail(e, alert).st = e.st /\ Fail(e, alert).out = e.out
         /\ ClientEnd(Fail(e, alert))
  BY DEF Fail, Same, ClientEnd, ClientEndFields

-----------------------------------------------------------------------------
(* What the emitters change. *)

LEMMA EmitIs ==
  ASSUME NEW e, {"enc", "out"} \subseteq DOMAIN e, {"secret", "seq", "aead"} \subseteq DOMAIN e.enc,
         NEW m
  PROVE  /\ Same(e, Emit(e, m), {"enc", "out"})
         /\ Emit(e, m).enc.secret = e.enc.secret
         /\ DOMAIN Emit(e, m).enc = DOMAIN e.enc
         /\ \E r : r.msg = m /\ Emit(e, m).out = Append(e.out, r)
<1> DEFINE e2 == Emit(e, m)
           r == Sealed(e.enc, m)
<1>1. /\ Same(e, e2, {"enc", "out"}) /\ e2.out = Append(e.out, r)
      /\ e2.enc = [e.enc EXCEPT !.seq = IF e.enc.aead = <<>> THEN @ ELSE @ + 1]
  BY DEF Emit, Same
<1>2. r.msg = m
  BY SealedIs
<1> HIDE DEF e2, r
<1>3. e2.enc.secret = e.enc.secret /\ DOMAIN e2.enc = DOMAIN e.enc
  BY <1>1
<1> QED
  BY <1>1, <1>2, <1>3 DEF e2

LEMMA PushIs ==
  ASSUME NEW e, {"enc", "out", "sched"} \subseteq DOMAIN e,
         {"secret", "seq", "aead"} \subseteq DOMAIN e.enc, NEW m
  PROVE  /\ Same(e, Push(e, m), {"enc", "out", "sched"})
         /\ Push(e, m).enc.secret = e.enc.secret
         /\ DOMAIN Push(e, m).enc = DOMAIN e.enc
         /\ Push(e, m).sched = Update(e.sched, m)
         /\ \E r : r.msg = m /\ Push(e, m).out = Append(e.out, r)
<1> DEFINE t == Emit(e, m)
           f == Push(e, m)
<1>1. /\ Same(e, t, {"enc", "out"})
      /\ t.enc.secret = e.enc.secret
      /\ DOMAIN t.enc = DOMAIN e.enc
      /\ \E r : r.msg = m /\ t.out = Append(e.out, r)
  BY EmitIs
<1>2. Same(t, f, {"sched"}) /\ ("sched" \in DOMAIN t => f.sched = Update(t.sched, m))
  BY DEF Push, Same
<1> HIDE DEF t, f
<1>3. t.sched = e.sched /\ DOMAIN t = DOMAIN e
  BY <1>1 DEF Same
<1>4. f.enc = t.enc /\ f.out = t.out /\ f.sched = Update(e.sched, m) /\ Same(e, f, {"enc", "out", "sched"})
  BY <1>1, <1>2, <1>3 DEF Same
<1> QED
  BY <1>1, <1>4 DEF f

LEMMA PushCCSIs ==
  ASSUME NEW e, {"enc", "out"} \subseteq DOMAIN e
  PROVE  /\ Same(e, PushCCS(e), {"out", "ccs"})
         /\ \/ PushCCS(e).out = e.out
            \/ \E r : r.msg.mt = "CCS" /\ PushCCS(e).out = Append(e.out, r)
<1> DEFINE r == Record([mt |-> "CCS"])
<1>1. r.msg.mt = "CCS"
  BY DEF Record
<1>2. Same(e, PushCCS(e), {"out", "ccs"})
      /\ (PushCCS(e).out = e.out \/ PushCCS(e).out = Append(e.out, r))
  BY DEF PushCCS, Same
<1> HIDE DEF r
<1> QED
  BY <1>1, <1>2

LEMMA UpdateOuterIs ==
  ASSUME NEW s, Schedule(s), NEW m
  PROVE  /\ Schedule(UpdateOuter(s, m))
         /\ UpdateOuter(s, m).ctx = s.ctx /\ UpdateOuter(s, m).secret = s.secret
         /\ UpdateOuter(s, m).algos = s.algos
         /\ UpdateOuter(s, m).outer = <<Append(s.outer[1], Hashed(m))>>
<1> DEFINE t == UpdateOuter(s, m)
<1>1. Same(s, t, {"outer"}) /\ t.outer = <<Append(s.outer[1], Hashed(m))>>
  BY DEF UpdateOuter, Same, Schedule
<1> HIDE DEF t
<1> QED
  BY <1>1 DEF Same, Schedule, t

LEMMA SetupIs ==
  ASSUME NEW cs, NEW secret, NEW epoch
  PROVE  /\ SetupTraffic(cs, secret, epoch).secret = secret
         /\ DOMAIN SetupTraffic(cs, secret, epoch) = {"epoch", "secret", "aead", "seq"}
  BY DEF SetupTraffic

\* The key schedule the client begins with.
LEMMA ScheduleBegun ==
  ASSUME NEW cs, NEW offered, NEW outer, NEW ikm
  PROVE  LET s == Extract(NewSchedule(cs, offered, outer), ikm)
         IN  /\ Schedule(s) /\ Len(s.secret) = 1 /\ s.ctx = <<>> /\ s.secret[1][2] = ikm
             /\ outer => s.outer # <<>> /\ s.outer[1] = <<>>
<1> DEFINE t == NewSchedule(cs, offered, outer)
           s == Extract(t, ikm)
<1>1. /\ {"algos", "secret", "ctx", "outer"} \subseteq DOMAIN t /\ t.secret = <<>> /\ t.ctx = <<>>
      /\ t.outer = IF outer THEN <<<<>>>> ELSE <<>>
  BY DEF NewSchedule
<1> HIDE DEF t
<1>2. IsSeq(t.secret) /\ IsSeq(t.ctx)
  BY <1>1, EmptyIsSeq
<1>3. /\ Schedule(s) /\ s.ctx = <<>> /\ s.outer = t.outer /\ Len(s.secret) = 1
      /\ s.secret[1][2] = ikm
  BY <1>1, <1>2, ExtractIs
<1>4. <<<<>>>> # <<>> /\ <<<<>>>>[1] = <<>>
  BY SingleIs
<1> HIDE DEF s
<1>5. ASSUME outer PROVE s.outer # <<>> /\ s.outer[1] = <<>>
  BY <1>1, <1>3, <1>4, <1>5
<1> QED
  BY <1>3, <1>5 DEF s, t

-----------------------------------------------------------------------------
(* The client's hello messages. *)

\* Fit to send a ClientHello: the schedule is there, the outer one with ECH.
Ready(e) ==
    /\ Schedule(e.sched) /\ Len(e.sched.secret) = 1
    /\ e.ech.first # <<>> => e.ech.first[1].typ = "outer"
    /\ \/ e.ech.on /\ e.sched.outer # <<>> /\ IsSeq(e.sched.outer[1])
       \/ ~e.ech.on /\ e.ech.accepted = FALSE

LEMMA OfferPrepared ==
  ASSUME NEW cfg, NEW e, ClientEnd(e), ~e.usingEarly, Silent(e.out), NEW second \in BOOLEAN,
         second => Ready(e), NEW psk, NEW x,
         x = Scheduled(cfg, Offering(cfg, e, psk, second), psk, second)
  PROVE  /\ ClientEnd(x) /\ Ready(x) /\ Silent(x.out) /\ x.acceptance # "ACCEPTED"
         /\ x.usingEarly => psk # <<>> /\ ~second
<1> DEFINE o == Offering(cfg, e, psk, second)
           early == e.usingEarly \/ (~second /\ psk # <<>> /\ cfg.early /\ psk[1].early)
           begun == Extract(NewSchedule(o.cs, cfg.ciphers, o.ech.on),
                            IF psk = <<>> THEN Zero ELSE Psk(psk[1].secret))
<1>1. /\ Same(e, o, {"ech", "offeredPsk", "usingEarly", "acceptance", "share", "cs"})
      /\ o.usingEarly = early
      /\ o.acceptance = IF early THEN "UNKNOWN" ELSE "REJECTED"
      /\ o.ech = IF second THEN e.ech ELSE SetupEch(cfg)
  BY DEF Offering, Same, ClientEnd, ClientEndFields
<1>2. early \in BOOLEAN /\ (early => ~second /\ psk # <<>>)
  OBVIOUS
<1>3. /\ {"on", "accepted", "first"} \subseteq DOMAIN SetupEch(cfg)
      /\ SetupEch(cfg).first = <<>> /\ SetupEch(cfg).accepted = FALSE
  BY DEF SetupEch, NoEch
<1>4. /\ Same(o, x, {"sched", "asserts"})
      /\ "sched" \in DOMAIN o => x.sched = IF second THEN o.sched ELSE begun
  BY DEF Scheduled, Same
<1> HIDE DEF o, early
<1>5. LET s == begun
      IN  /\ Schedule(s) /\ Len(s.secret) = 1 /\ s.ctx = <<>>
          /\ o.ech.on => s.outer # <<>> /\ s.outer[1] = <<>>
  BY ScheduleBegun
<1> HIDE DEF begun
<1>6. ClientEnd(o) /\ o.sched = e.sched /\ o.out = e.out
  <2>1. {"on", "accepted", "first"} \subseteq DOMAIN o.ech /\ EchTyped(o.ech.first)
    BY <1>1, <1>3 DEF ClientEnd, EchTyped
  <2> QED
    BY <1>1, <1>2, <2>1 DEF Same, ClientEnd, ClientEndFields
<1>7. /\ ClientEnd(x) /\ x.ech = o.ech /\ x.usingEarly = o.usingEarly
      /\ x.acceptance = o.acceptance /\ x.out = e.out
      /\ x.sched = IF second THEN e.sched ELSE begun
  BY <1>4, <1>6 DEF Same, ClientEnd, ClientEndFields
<1>8. Ready(x)
  <2>1. CASE second
    BY <1>1, <1>7, <2>1 DEF Ready
  <2>2. CASE ~second
    BY <1>1, <1>3, <1>5, <1>7, <2>2, EmptyIsSeq DEF Ready
  <2> QED
    BY <2>1, <2>2
<1> QED
  BY <1>1, <1>2, <1>7, <1>8

LEMMA HelloEmitted ==
  ASSUME NEW cfg, cfg.tickets \in Nat \X Nat, NEW x, ClientEnd(x), Ready(x), Silent(x.out),
         NEW second \in BOOLEAN, NEW psk, NEW cookie, NEW inner, NEW wire,
         inner = InnerHello(cfg, x, second, psk, cookie),
         wire = WireHello(cfg, x, second, psk, cookie, inner),
         NEW h, h = EmitHello(x, second, inner, wire)
  PROVE  /\ ClientEnd(h) /\ Silent(h.out) /\ EchFits(h) /\ Schedule(h.sched)
         /\ Len(h.sched.secret) = 1 /\ Len(h.sched.ctx) > 0
         /\ h.ech.first # <<>> => h.ech.first[1].typ = "outer"
         /\ h.usingEarly = x.usingEarly /\ h.acceptance = x.acceptance
<1>1. /\ MessageTyped(wire) /\ EchTyped(wire.ech) /\ HelloTyped(inner) /\ HelloTyped(wire)
      /\ x.ech.on => /\ Inside(inner) /\ ~Inside(wire) /\ Decoy(wire)
                     /\ wire.ech # <<>> /\ wire.ech[1].typ = "outer"
      /\ ~x.ech.on => inner.ech = x.ech.first
  BY HelloIsTyped DEF ClientEnd
<1>2. (Inside(Hashed(inner)) <=> Inside(inner)) /\ (Inside(Hashed(wire)) <=> Inside(wire))
      /\ (Decoy(Hashed(wire)) <=> Decoy(wire))
  BY <1>1, HelloHashedIs
<1>3. wire.mt = "CH"
  <2>1. /\ EncodeClientHello(cfg, x, TRUE, second, psk, cookie,
                             EchExt("outer", cfg.ech, second, <<inner>>)).mt = "CH"
    BY DEF EncodeClientHello
  <2>2. inner.mt = "CH"
    BY DEF EncodeClientHello, InnerHello
  <2> QED
    BY <2>1, <2>2 DEF WireHello
<1> DEFINE u == Update(x.sched, inner)
           w == UpdateOuter(u, wire)
           base == [x EXCEPT !.sched = IF x.ech.on THEN w ELSE u,
                             !.ech.first = IF x.ech.on /\ ~second THEN wire.ech ELSE @]
<1>4. /\ Schedule(u) /\ u.ctx = Append(x.sched.ctx, Hashed(inner))
      /\ u.secret = x.sched.secret /\ u.outer = x.sched.outer
  BY UpdateIs DEF Ready
<1>5. /\ Schedule(w) /\ w.ctx = u.ctx /\ w.secret = u.secret
      /\ w.outer = <<Append(u.outer[1], Hashed(wire))>>
  BY <1>4, UpdateOuterIs
<1>6. h = Emit(base, wire)
  BY DEF EmitHello
<1> HIDE DEF u, w
<1>7. /\ Same(x, base, {"sched", "ech"}) /\ base.sched = (IF x.ech.on THEN w ELSE u)
      /\ base.ech = [x.ech EXCEPT !.first = IF x.ech.on /\ ~second THEN wire.ech ELSE @]
  BY DEF Same, ClientEnd, ClientEndFields
<1> HIDE DEF base
<1>8. /\ Same(x.ech, base.ech, {"first"})
      /\ base.ech.first = (IF x.ech.on /\ ~second THEN wire.ech ELSE x.ech.first)
  BY <1>7 DEF Same, ClientEnd
<1>9. EchTyped(base.ech.first) /\ (base.ech.first # <<>> => base.ech.first[1].typ = "outer")
  BY <1>1, <1>8 DEF ClientEnd, Ready
<1>10. ClientEnd(base) /\ base.usingEarly = x.usingEarly /\ base.acceptance = x.acceptance
       /\ base.ech.on = x.ech.on /\ base.ech.accepted = x.ech.accepted /\ base.out = x.out
  BY <1>7, <1>8, <1>9 DEF Same, ClientEnd, ClientEndFields
<1>11. /\ Same(base, h, {"enc", "out"}) /\ DOMAIN h.enc = DOMAIN base.enc
       /\ \E r : r.msg = wire /\ h.out = Append(base.out, r)
  BY <1>6, <1>10, EmitIs DEF ClientEnd, ClientEndFields
<1>12. /\ ClientEnd(h) /\ h.sched = base.sched /\ h.ech = base.ech
       /\ h.usingEarly = x.usingEarly /\ h.acceptance = x.acceptance
  BY <1>10, <1>11 DEF Same, ClientEnd, ClientEndFields
<1>13. Silent(h.out)
  <2>1. PICK r : r.msg = wire /\ h.out = Append(base.out, r)
    BY <1>11
  <2> QED
    BY <1>3, <1>10, <2>1, SilentIs
<1>14. /\ Len(u.ctx) > 0 /\ Last(u.ctx) = Hashed(inner)
  BY <1>4, AppendIs DEF Ready, Schedule
<1>15. CASE x.ech.on
  <2>1. h.sched = w /\ h.ech.on
    BY <1>7, <1>10, <1>12, <1>15
  <2>2. IsSeq(u.outer[1])
    BY <1>4, <1>15 DEF Ready
  <2> DEFINE p == Append(u.outer[1], Hashed(wire))
  <2>3. IsSeq(p) /\ Len(p) > 0 /\ Last(p) = Hashed(wire)
    BY <2>2, AppendIs
  <2> HIDE DEF p
  <2>4. w.outer # <<>> /\ w.outer[1] = p
    BY <1>5, SingleIs DEF p
  <2>5. EchFits(h)
    BY <1>1, <1>2, <1>5, <1>14, <1>15, <2>1, <2>3, <2>4 DEF EchFits
  <2> QED
    BY <1>4, <1>5, <1>8, <1>9, <1>12, <1>13, <1>14, <2>1, <2>5 DEF Ready
<1>16. CASE ~x.ech.on
  <2>1. h.sched = u /\ ~h.ech.on /\ h.ech.accepted = FALSE
    BY <1>7, <1>10, <1>12, <1>16 DEF Ready
  <2>2. ~Inside(inner)
    BY <1>1, <1>16 DEF Ready, Inside
  <2>3. EchFits(h)
    BY <1>2, <1>14, <2>1, <2>2 DEF EchFits
  <2> QED
    BY <1>4, <1>9, <1>12, <1>13, <1>14, <2>1, <2>3 DEF Ready
<1> QED
  BY <1>15, <1>16

LEMMA EarlyKeyed ==
  ASSUME NEW h, ClientEnd(h), Silent(h.out), EchFits(h), Schedule(h.sched),
         Len(h.sched.secret) = 1, Len(h.sched.ctx) > 0,
         h.ech.first # <<>> => h.ech.first[1].typ = "outer", h.acceptance # "ACCEPTED",
         NEW psk, NEW second \in BOOLEAN, h.usingEarly => psk # <<>> /\ ~second,
         NEW f, f = KeyEarly(h, psk, second)
  PROVE  ClientEnd(f) /\ Waits(f) /\ Silent(f.out) /\ f.st \in WaitStates
<1> DEFINE key == SetupTraffic(h.cs[1], Derive(h.sched, "c_e_traffic"), 1)
           keyed == [h EXCEPT !.enc = key]
           said == IF h.usingEarly THEN PushCCS(keyed) ELSE h
           exp == Derive(h.sched, "e_exp_master")
<1>1. /\ Same(said, f, {"expEarly", "st"})
      /\ "st" \in DOMAIN said => f.st \in WaitStates
      /\ "expEarly" \in DOMAIN said /\ psk # <<>> /\ ~second => f.expEarly = exp
  BY DEF KeyEarly, Same, WaitStates
<1>2. exp = <<"derived", "e_exp_master", h.sched.algos[1], h.sched.secret, h.sched.ctx>>
  BY DEF Derive, DeriveFrom
<1>3. DOMAIN key = {"epoch", "secret", "aead", "seq"}
  BY SetupIs
<1> HIDE DEF key, exp
<1>4. Same(h, keyed, {"enc"}) /\ keyed.enc = key
  BY DEF Same, ClientEnd, ClientEndFields
<1> HIDE DEF keyed
<1>5. ClientEnd(keyed) /\ keyed.out = h.out /\ keyed.sched = h.sched /\ keyed.ech = h.ech
      /\ keyed.usingEarly = h.usingEarly /\ keyed.acceptance = h.acceptance
  BY <1>3, <1>4 DEF Same, ClientEnd, ClientEndFields
<1>6. /\ Same(keyed, PushCCS(keyed), {"out", "ccs"})
      /\ \/ PushCCS(keyed).out = keyed.out
         \/ \E r : r.msg.mt = "CCS" /\ PushCCS(keyed).out = Append(keyed.out, r)
  BY <1>5, PushCCSIs DEF ClientEnd, ClientEndFields
<1>7. Silent(PushCCS(keyed).out)
  BY <1>5, <1>6, SilentIs
<1>8. /\ ClientEnd(said) /\ Silent(said.out) /\ said.sched = h.sched /\ said.ech = h.ech
      /\ said.usingEarly = h.usingEarly /\ said.acceptance = h.acceptance
  BY <1>5, <1>6, <1>7 DEF Same, ClientEnd, ClientEndFields
<1> HIDE DEF said
<1>9. /\ ClientEnd(f) /\ Silent(f.out) /\ f.sched = h.sched /\ f.ech = h.ech
      /\ f.usingEarly = h.usingEarly /\ f.acceptance = h.acceptance /\ f.st \in WaitStates
      /\ f.usingEarly => f.expEarly = exp
  BY <1>1, <1>8 DEF Same, ClientEnd, ClientEndFields
<1>10. Waits(f)
  BY <1>2, <1>9 DEF Waits, EchFits
<1> QED
  BY <1>9, <1>10

LEMMA HelloOffered ==
  ASSUME NEW cfg, cfg.tickets \in Nat \X Nat, NEW e, ClientEnd(e), ~e.usingEarly,
         Silent(e.out), NEW second \in BOOLEAN, second => Ready(e), NEW now0, NEW cookie,
         NEW f, f = SendClientHello(cfg, e, now0, second, cookie)
  PROVE  ClientEnd(f) /\ Waits(f) /\ Silent(f.out) /\ f.st \in WaitStates
<1> DEFINE psk == ClientPsk(cfg, now0)
           x == Scheduled(cfg, Offering(cfg, e, psk, second), psk, second)
           inner == InnerHello(cfg, x, second, psk, cookie)
           wire == WireHello(cfg, x, second, psk, cookie, inner)
           h == EmitHello(x, second, inner, wire)
<1>1. f = KeyEarly(h, psk, second)
  BY DEF SendClientHello, SendPrepared, SendOffer
<1> HIDE DEF psk
<1>2. /\ ClientEnd(x) /\ Ready(x) /\ Silent(x.out) /\ x.acceptance # "ACCEPTED"
      /\ x.usingEarly => psk # <<>> /\ ~second
  BY OfferPrepared
<1> HIDE DEF x
<1>3. /\ ClientEnd(h) /\ Silent(h.out) /\ EchFits(h) /\ Schedule(h.sched)
      /\ Len(h.sched.secret) = 1 /\ Len(h.sched.ctx) > 0
      /\ h.ech.first # <<>> => h.ech.first[1].typ = "outer"
      /\ h.usingEarly = x.usingEarly /\ h.acceptance = x.acceptance
  <2> HIDE DEF inner, wire, h
  <2>1. inner = InnerHello(cfg, x, second, psk, cookie)
    BY DEF inner
  <2>2. wire = WireHello(cfg, x, second, psk, cookie, inner)
    BY DEF wire
  <2>3. h = EmitHello(x, second, inner, wire)
    BY DEF h
  <2> QED
    BY <1>2, <2>1, <2>2, <2>3, HelloEmitted
<1> HIDE DEF h
<1> QED
  BY <1>1, <1>2, <1>3, EarlyKeyed

-----------------------------------------------------------------------------
(* ServerHello and HelloRetryRequest. *)

LEMMA TurnsOf ==
  ASSUME NEW e, e.st # "POST_HANDSHAKE", NEW f, ClientEnd(f), Silent(f.out),
         Open(f) => ClientStory(f)
  PROVE  ClientTurns(e, f)
  BY SilentIs DEF ClientTurns, ClientStays

LEMMA FailTurns ==
  ASSUME NEW e, e.st # "POST_HANDSHAKE", NEW f, ClientEnd(f), Silent(f.out), NEW alert,
         alert \notin {"IN_PROGRESS", "OK", "ASYNC_OPERATION"}
  PROVE  ClientTurns(e, Fail(f, alert))
<1>1. ClientEnd(Fail(f, alert)) /\ Fail(f, alert).ret = alert /\ Fail(f, alert).out = f.out
  BY FailIs
<1> QED
  BY <1>1, TurnsOf DEF Open

LEMMA TransformIs ==
  ASSUME NEW s, Schedule(s)
  PROVE  LET t == TransformPostCh1(s)
         IN  /\ Schedule(t) /\ t.secret = s.secret /\ t.algos = s.algos
             /\ s.outer # <<>> => t.outer # <<>> /\ IsSeq(t.outer[1])
<1> DEFINE fold(ctx) == <<MessageHash(s.algos[1], ctx)>>
           t == TransformPostCh1(s)
<1>1. /\ Same(s, t, {"ctx", "outer"}) /\ t.ctx = fold(s.ctx)
      /\ t.outer = IF s.outer = <<>> THEN <<>> ELSE <<fold(s.outer[1])>>
  BY DEF TransformPostCh1, Same, Schedule
<1>2. \A ctx : IsSeq(fold(ctx))
  BY SingleIs
<1> HIDE DEF fold, t
<1>3. <<fold(s.outer[1])>> # <<>> /\ <<fold(s.outer[1])>>[1] = fold(s.outer[1])
  BY SingleIs
<1> QED
  BY <1>1, <1>2, <1>3 DEF Same, Schedule, t

\* ECH is accepted, or what is kept apart for its refusal counts from here on.
EchChosen(e, x) ==
    \/ x.ech.on = e.ech.on /\ x.ech.accepted = TRUE /\ x.sched = e.sched
    \/ x.ech.on = FALSE /\ x.ech.accepted = FALSE /\ x.sched.ctx = e.sched.outer[1]

LEMMA EchSelectIs ==
  ASSUME NEW e, ClientEnd(e), Schedule(e.sched), e.sched.outer # <<>>, IsSeq(e.sched.outer[1]),
         NEW m, NEW label, NEW x, x = EchSelectHello(e, m, label)
  PROVE  /\ ClientEnd(x) /\ Schedule(x.sched) /\ x.ech.first = e.ech.first
         /\ x.out = e.out /\ x.cs = e.cs /\ x.isPsk = e.isPsk /\ x.enc = e.enc
         /\ x.usingEarly = e.usingEarly /\ x.acceptance = e.acceptance
         /\ x.expEarly = e.expEarly
         /\ x.sched.secret = e.sched.secret /\ x.sched.algos = e.sched.algos
         /\ EchChosen(e, x)
<1> DEFINE yes == [e EXCEPT !.ech.accepted = TRUE]
           t   == SelectOuter(e.sched)
           no  == [e EXCEPT !.ech.accepted = FALSE, !.ech.on = FALSE, !.sched = t]
<1>1. x = yes \/ x = no
  BY DEF EchSelectHello
<1>2. Same(e.sched, t, {"ctx", "outer", "ok"}) /\ t.ctx = e.sched.outer[1]
  BY DEF SelectOuter, Same, Schedule
<1> HIDE DEF t
<1>3. Schedule(t) /\ t.secret = e.sched.secret /\ t.algos = e.sched.algos
  BY <1>2 DEF Same, Schedule
<1>4. CASE x = yes
  <2>1. /\ Same(e, x, {"ech"}) /\ Same(e.ech, x.ech, {"accepted"}) /\ x.ech.accepted = TRUE
    BY <1>4 DEF Same, ClientEnd, ClientEndFields
  <2> QED
    BY <2>1 DEF Same, ClientEnd, ClientEndFields, EchChosen
<1>5. CASE x = no
  <2> DEFINE y == [[e.ech EXCEPT !.accepted = FALSE] EXCEPT !.on = FALSE]
  <2>a. /\ Same(e.ech, y, {"accepted", "on"}) /\ y.accepted = FALSE /\ y.on = FALSE
    BY DEF Same, ClientEnd
  <2>b. x = [[e EXCEPT !.ech = y] EXCEPT !.sched = t]
    BY <1>5 DEF ClientEnd, ClientEndFields
  <2> HIDE DEF y
  <2>c. Same(e, x, {"ech", "sched"}) /\ x.ech = y /\ x.sched = t
    BY <2>b DEF Same, ClientEnd, ClientEndFields
  <2>1. /\ Same(e, x, {"ech", "sched"}) /\ Same(e.ech, x.ech, {"accepted", "on"})
        /\ x.ech.accepted = FALSE /\ x.ech.on = FALSE /\ x.sched = t
    BY <2>a, <2>c
  <2> QED
    BY <1>2, <1>3, <2>1 DEF Same, ClientEnd, ClientEndFields, EchChosen
<1> QED
  BY <1>1, <1>4, <1>5

LEMMA RetryTurns ==
  ASSUME NEW cfg, cfg.tickets \in Nat \X Nat, NEW e, ClientEnd(e), Waits(e), Silent(e.out),
         e.st \in WaitStates, NEW m, NEW now0
  PROVE  ClientTurns(e, HandleRetry(cfg, e, m, now0))
<1> DEFINE ikm == IF cfg.psk = <<>> THEN Zero ELSE Psk(cfg.psk[1].secret)
           reset == FALSE
           t1  == SelectCipher(e.sched, m.cs, reset, ikm)
           t2  == TransformPostCh1(t1)
           e1  == [e EXCEPT !.cs = <<m.cs>>,
                     !.sched = TransformPostCh1(SelectCipher(@, m.cs, FALSE, ikm))]
           e2  == IF e.ech.on THEN EchSelectHello(e1, m, "hrr") ELSE e1
           share == IF m.share # <<>> THEN FirstOf(cfg.groups, ToSet(m.share)) ELSE e.share
           heard == [e2 EXCEPT !.sched = Update(@, m), !.share = share]
           e3  == EndRejected(heard)
<1>1. HandleRetry(cfg, e, m, now0) = IF share = <<>> THEN Fail(e3, "ILLEGAL_PARAMETER")
                                     ELSE SendClientHello(cfg, e3, now0, TRUE, m.cookie)
  BY DEF HandleRetry
<1> HIDE DEF ikm, reset
<1>2. Schedule(t1) /\ Len(t1.secret) = 1 /\ t1.outer = e.sched.outer
  BY CipherSelected DEF Waits
<1>3. Same(e, e1, {"cs", "sched"}) /\ e1.sched = t2
  BY DEF Same, ClientEnd, ClientEndFields, reset
<1> HIDE DEF t1, e1
<1>4. /\ Schedule(t2) /\ Len(t2.secret) = 1
      /\ e.sched.outer # <<>> => t2.outer # <<>> /\ IsSeq(t2.outer[1])
  BY <1>2, TransformIs
<1> HIDE DEF t2
<1>5. /\ ClientEnd(e1) /\ e1.ech = e.ech /\ e1.out = e.out /\ e1.sched = t2
  BY <1>3 DEF Same, ClientEnd, ClientEndFields
<1>6. /\ ClientEnd(e2) /\ Ready(e2) /\ e2.out = e.out
  <2>1. CASE e.ech.on
    <3>1. e2 = EchSelectHello(e1, m, "hrr")
      BY <2>1
    <3>2. /\ e1.sched.outer # <<>> /\ IsSeq(e1.sched.outer[1])
          /\ Schedule(e1.sched) /\ e1.ech.on
      BY <1>4, <1>5, <2>1 DEF Waits, EchFits
    <3> HIDE DEF e2
    <3>3. /\ ClientEnd(e2) /\ Schedule(e2.sched) /\ e2.out = e1.out
          /\ e2.ech.first = e1.ech.first /\ e2.sched.secret = e1.sched.secret
          /\ EchChosen(e1, e2)
      BY <1>5, <3>1, <3>2, EchSelectIs
    <3> QED
      BY <1>4, <1>5, <3>2, <3>3 DEF Ready, Waits, EchChosen
  <2>2. CASE ~e.ech.on
    <3>1. e2 = e1
      BY <2>2
    <3> HIDE DEF e2
    <3> QED
      BY <1>4, <1>5, <2>2, <3>1 DEF Ready, Waits, EchFits
  <2> QED
    BY <2>1, <2>2
<1> HIDE DEF e2, share
<1>7. /\ Schedule(Update(e2.sched, m)) /\ Update(e2.sched, m).secret = e2.sched.secret
      /\ Update(e2.sched, m).outer = e2.sched.outer
  BY <1>6, UpdateIs DEF Ready
<1>8. Same(e2, heard, {"sched", "share"}) /\ heard.sched = Update(e2.sched, m)
  BY <1>6 DEF Same, ClientEnd, ClientEndFields
<1> HIDE DEF heard
<1>9. /\ ClientEnd(heard) /\ heard.out = e.out /\ heard.ech = e2.ech
  BY <1>6, <1>8 DEF Same, ClientEnd, ClientEndFields
<1>10. Ready(heard)
  BY <1>6, <1>7, <1>8, <1>9 DEF Ready
<1>11. /\ Same(heard, e3, {"usingEarly", "enc"}) /\ e3.usingEarly = FALSE
       /\ e3.enc = [heard.enc EXCEPT !.aead = <<>>]
  BY <1>9 DEF EndRejected, Same, ClientEnd, ClientEndFields
<1> HIDE DEF e3
<1>12. /\ ClientEnd(e3) /\ ~e3.usingEarly /\ e3.out = e.out
       /\ e3.sched = heard.sched /\ e3.ech = heard.ech
  BY <1>9, <1>11 DEF Same, ClientEnd, ClientEndFields
<1>13. Ready(e3)
  BY <1>10, <1>12 DEF Ready
<1>14. e.st # "POST_HANDSHAKE"
  BY DEF WaitStates
<1>15. CASE share = <<>>
  BY <1>1, <1>12, <1>14, <1>15, FailTurns
<1>16. CASE share # <<>>
  <2> DEFINE f == SendClientHello(cfg, e3, now0, TRUE, m.cookie)
  <2>1. HandleRetry(cfg, e, m, now0) = f
    BY <1>1, <1>16
  <2>2. ClientEnd(f) /\ Waits(f) /\ Silent(f.out) /\ f.st \in WaitStates
    BY <1>12, <1>13, HelloOffered
  <2> HIDE DEF f
  <2>3. ClientStory(f)
    BY <2>2 DEF ClientStory, WaitStates, RestStates
  <2> QED
    BY <1>14, <2>1, <2>2, <2>3, TurnsOf
<1> QED
  BY <1>15, <1>16

\* What ServerHello is hashed behind: the ClientHello that counts, and the early
\* secret.
Answered(e) ==
    /\ Schedule(e.sched) /\ Len(e.sched.secret) = 1 /\ Len(e.sched.ctx) > 0
    /\ \/ e.ech.accepted = TRUE /\ Inside(Last(e.sched.ctx))
       \/ e.ech.accepted = FALSE /\ ~Inside(Last(e.sched.ctx))
    /\ e.usingEarly => e.expEarly # <<>>
    /\ e.usingEarly =>
          \/ e.sched.secret[1][2] = Zero \/ Decoy(Last(e.sched.ctx))
          \/ e.expEarly = <<"derived", "e_exp_master", e.sched.algos[1], e.sched.secret,
                            e.sched.ctx>>

\* The client once it has taken from ServerHello the suite, and whether ECH and
\* the PSK are accepted.
CipherTaken(e, m) == [e EXCEPT !.cs = <<m.cs>>, !.isPsk = m.psk,
                               !.sched = SelectCipher(@, m.cs, ResetOf(e, m), Zero)]

EchTaken(e, m) == IF e.ech.on THEN EchSelectHello(CipherTaken(e, m), m, "sh")
                  ELSE CipherTaken(e, m)

LEMMA HelloAnswerIs ==
  ASSUME NEW e, ClientEnd(e), Waits(e), NEW m, NEW e2, e2 = EchTaken(e, m)
  PROVE  /\ ClientEnd(e2) /\ Answered(e2) /\ e2.out = e.out /\ e2.cs = <<m.cs>> /\ e2.isPsk = m.psk
         /\ e2.usingEarly = e.usingEarly /\ e2.acceptance = e.acceptance /\ e2.enc = e.enc
<1> DEFINE reset == ResetOf(e, m)
           t == SelectCipher(e.sched, m.cs, reset, Zero)
           e1 == CipherTaken(e, m)
<1> HIDE DEF reset
<1>1. /\ Schedule(t) /\ t.ctx = e.sched.ctx /\ t.outer = e.sched.outer /\ Len(t.secret) = 1
      /\ (t.secret = e.sched.secret /\ t.algos[1] = e.sched.algos[1]) \/ t.secret[1][2] = Zero
  BY CipherSelected DEF Waits
<1>2. Same(e, e1, {"cs", "isPsk", "sched"}) /\ e1.sched = t /\ e1.cs = <<m.cs>> /\ e1.isPsk = m.psk
  BY DEF Same, ClientEnd, ClientEndFields, reset, CipherTaken
<1> HIDE DEF t, e1
<1>3. /\ ClientEnd(e1) /\ e1.ech = e.ech /\ e1.out = e.out /\ e1.usingEarly = e.usingEarly
      /\ e1.acceptance = e.acceptance /\ e1.enc = e.enc /\ e1.expEarly = e.expEarly
  BY <1>2 DEF Same, ClientEnd, ClientEndFields
<1>4. e1.usingEarly => \/ t.secret[1][2] = Zero
                       \/ e1.expEarly = <<"derived", "e_exp_master", t.algos[1], t.secret, t.ctx>>
  BY <1>1, <1>3 DEF Waits
<1>4a. e1.usingEarly => e1.expEarly # <<>>
  <2>1. e.usingEarly => e.expEarly[1] = "derived" /\ DOMAIN e.expEarly = 1..5
    BY DEF Waits
  <2>2. DOMAIN <<>> # 1..5
    OBVIOUS
  <2> QED
    BY <1>3, <2>1, <2>2
<1>5. CASE e.ech.on
  <2>1. /\ t.outer # <<>> /\ IsSeq(t.outer[1]) /\ Len(t.outer[1]) > 0 /\ Len(t.ctx) > 0
        /\ ~Inside(Last(t.outer[1])) /\ Decoy(Last(t.outer[1])) /\ Inside(Last(t.ctx))
    BY <1>1, <1>5 DEF Waits, EchFits
  <2>a. /\ e1.sched.outer # <<>> /\ IsSeq(e1.sched.outer[1]) /\ Schedule(e1.sched) /\ e1.ech.on
    BY <1>1, <1>2, <1>3, <1>5, <2>1
  <2>b. e2 = EchSelectHello(e1, m, "sh")
    BY <1>5 DEF EchTaken, e1
  <2>2. /\ ClientEnd(e2) /\ Schedule(e2.sched)
        /\ e2.out = e1.out /\ e2.cs = e1.cs /\ e2.isPsk = e1.isPsk /\ e2.enc = e1.enc
        /\ e2.usingEarly = e1.usingEarly /\ e2.acceptance = e1.acceptance
        /\ e2.expEarly = e1.expEarly
        /\ e2.sched.secret = e1.sched.secret /\ e2.sched.algos = e1.sched.algos
        /\ EchChosen(e1, e2)
    BY <1>3, <2>a, <2>b, EchSelectIs
  <2>3. /\ e2.out = e.out /\ e2.cs = <<m.cs>> /\ e2.isPsk = m.psk
        /\ e2.usingEarly = e.usingEarly /\ e2.acceptance = e.acceptance /\ e2.enc = e.enc
        /\ e2.expEarly = e1.expEarly
    BY <1>2, <1>3, <2>2
  <2>4. Answered(e2)
    BY <1>1, <1>2, <1>3, <1>4, <1>4a, <2>1, <2>2, <2>3 DEF Answered, EchChosen
  <2> QED
    BY <2>2, <2>3, <2>4
<1>6. CASE ~e.ech.on
  <2>1. e2 = e1 /\ e.ech.accepted = FALSE /\ ~Inside(Last(e.sched.ctx)) /\ Len(e.sched.ctx) > 0
    BY <1>6 DEF Waits, EchFits, EchTaken, e1
  <2>2. Answered(e2)
    BY <1>1, <1>2, <1>3, <1>4, <1>4a, <2>1 DEF Answered
  <2> QED
    BY <1>2, <1>3, <2>1, <2>2
<1> QED
  BY <1>5, <1>6

\* An input of the key schedule.
Joined(s, ikm) == <<s.algos[1], ikm>>

LEMMA Extracted ==
  ASSUME NEW s, Schedule(s), NEW ikm, NEW t, t = Extract(s, ikm)
  PROVE  /\ Schedule(t) /\ t.ctx = s.ctx /\ t.algos = s.algos
         /\ t.secret = Append(s.secret, Joined(s, ikm))
<1>1. {"algos", "secret", "ctx", "outer"} \subseteq DOMAIN s /\ IsSeq(s.ctx) /\ IsSeq(s.secret)
  BY DEF Schedule
<1> QED
  BY <1>1, ExtractIs DEF Joined

\* The schedule s once ServerHello is hashed, and the client's handshake secret.
Keyed(s, m, t, own) ==
    LET n == Len(t.ctx)
    IN  /\ Schedule(t) /\ t.algos = s.algos
        /\ n \in 2..Len(t.ctx) /\ t.ctx[n] = Hashed(m) /\ t.ctx[n - 1] = Last(s.ctx)
        /\ t.secret[1] = s.secret[1]
        /\ SubSeq(t.ctx, 1, n - 1) = s.ctx /\ <<t.secret[1]>> = s.secret
        /\ own = HsSecret(t.algos[1], t.secret, t.ctx, n)
        /\ own[4] = t.secret

LEMMA HelloSecretIs ==
  ASSUME NEW s, Schedule(s), Len(s.secret) = 1, Len(s.ctx) > 0, NEW m, NEW ikm,
         NEW t, t = Extract(Update(s, m), ikm)
  PROVE  Keyed(s, m, t, Derive(t, "c_hs_traffic"))
<1> DEFINE n == Len(t.ctx)
<1>0. n = Len(t.ctx)
  OBVIOUS
<1> HIDE DEF n
<1> DEFINE u == Update(s, m)
           x == Joined(u, ikm)
<1>1. /\ Schedule(u) /\ u.ctx = Append(s.ctx, Hashed(m)) /\ u.algos = s.algos
      /\ u.secret = s.secret
  BY UpdateIs
<1>1a. t = Extract(u, ikm)
  OBVIOUS
<1> HIDE DEF u
<1>2. /\ Schedule(t) /\ t.ctx = u.ctx /\ t.algos = u.algos /\ t.secret = Append(u.secret, x)
  BY <1>1, <1>1a, Extracted
<1> HIDE DEF x
<1>3. /\ Len(t.ctx) = Len(s.ctx) + 1 /\ Len(s.ctx) \in Nat /\ t.ctx[Len(s.ctx) + 1] = Hashed(m)
      /\ Begins(s.ctx, t.ctx) /\ IsSeq(t.ctx)
  BY <1>1, <1>2, AppendIs DEF Schedule
<1>4. n = Len(s.ctx) + 1 /\ n - 1 = Len(s.ctx) /\ n \in 2..Len(t.ctx) /\ n - 1 \in 1..Len(s.ctx)
      /\ n - 1 \in 0..Len(s.ctx)
  BY <1>0, <1>3
<1>5. t.ctx[n - 1] = Last(s.ctx)
  BY <1>3, <1>4 DEF Begins, Last
<1>6. SubSeq(t.ctx, 1, n - 1) = s.ctx
  <2>1. SubSeq(t.ctx, 1, n - 1) = SubSeq(s.ctx, 1, n - 1)
    BY <1>3, <1>4, FrontKept
  <2>2. SubSeq(s.ctx, 1, Len(s.ctx)) = s.ctx
    BY WholeFront DEF Schedule
  <2> QED
    BY <1>4, <2>1, <2>2
<1>7. t.secret[1] = s.secret[1]
  <2>1. t.secret = Append(s.secret, x) /\ IsSeq(s.secret)
    BY <1>1, <1>2 DEF Schedule
  <2>2. \A i \in 1..Len(s.secret) : t.secret[i] = s.secret[i]
    BY <2>1, AppendIs
  <2> QED
    BY <2>2
<1>8. <<t.secret[1]>> = s.secret
  BY <1>7, SingleOf DEF Schedule
<1>9. SubSeq(t.ctx, 1, n) = t.ctx
  BY <1>0, <1>3, WholeFront
<1> DEFINE own == Derive(t, "c_hs_traffic")
<1>10. own = <<"derived", "c_hs_traffic", t.algos[1], t.secret, t.ctx>> /\ own[4] = t.secret
  BY DEF Derive, DeriveFrom
<1> HIDE DEF own
<1>11. own = HsSecret(t.algos[1], t.secret, t.ctx, n)
  BY <1>9, <1>10 DEF HsSecret
<1>12. t.ctx[n] = Hashed(m)
  BY <1>3, <1>4
<1>13. Keyed(s, m, t, own)
  BY <1>0, <1>1, <1>2, <1>4, <1>5, <1>6, <1>7, <1>8, <1>10, <1>11, <1>12 DEF Keyed
<1> QED
  BY <1>13 DEF own

\* With the keys of ServerHello the client e2 has become f.
LEMMA AnswerKeyed ==
  ASSUME NEW e2, Answered(e2), e2.acceptance # "ACCEPTED", NEW m, MessageTyped(m), m.mt = "SH",
         e2.cs = <<m.cs>>, e2.isPsk = m.psk, NEW s, s.ctx = e2.sched.ctx,
         s.secret = e2.sched.secret, s.algos = e2.sched.algos, NEW t, NEW own, Keyed(s, m, t, own),
         NEW f, f.sched = t, f.ech.accepted = e2.ech.accepted,
         f.cs = e2.cs, f.isPsk = e2.isPsk, f.acceptance = e2.acceptance,
         f.usingEarly = e2.usingEarly, f.expEarly = e2.expEarly,
         f.pend = IF f.usingEarly THEN <<own>> ELSE <<>>,
         ~f.usingEarly => f.enc.secret = own
  PROVE  AwaitsExtensions(f)
<1> DEFINE n == Len(t.ctx)
<1>1. n = Len(t.ctx)
  OBVIOUS
<1> HIDE DEF n
<1>2. /\ Schedule(t) /\ t.algos = e2.sched.algos
      /\ n \in 2..Len(t.ctx) /\ t.ctx[n] = Hashed(m) /\ t.ctx[n - 1] = Last(e2.sched.ctx)
      /\ t.secret[1] = e2.sched.secret[1]
      /\ SubSeq(t.ctx, 1, n - 1) = e2.sched.ctx /\ <<t.secret[1]>> = e2.sched.secret
      /\ own = HsSecret(t.algos[1], t.secret, t.ctx, n)
      /\ own[4] = t.secret
  BY <1>1 DEF Keyed
<1>3. f.usingEarly => f.pend # <<>> /\ f.pend[1] = own
  BY SingleIs
<1>4. ClientHs(f) = own
  BY <1>3 DEF ClientHs
<1>5. Hashed(m).cs = m.cs /\ Hashed(m).psk = m.psk
  BY HashedIs
<1>6. Opening(f, own, t.algos[1], t.ctx, n)
  BY <1>2, <1>5 DEF Opening, Answered
<1>7. Hears(f, n)
  BY <1>2, <1>3, <1>4, <1>6 DEF Hears
<1>8. f.usingEarly => \/ Doubt(t.secret, t.ctx, n)
                      \/ f.expEarly = EarlyOf(t.algos[1], t.secret, t.ctx, n)
  <2>1. EarlyOf(t.algos[1], t.secret, t.ctx, n) =
           <<"derived", "e_exp_master", e2.sched.algos[1], e2.sched.secret, e2.sched.ctx>>
    BY <1>2 DEF EarlyOf
  <2>2. Doubt(t.secret, t.ctx, n) <=> \/ e2.sched.secret[1][2] = Zero
                                      \/ Decoy(Last(e2.sched.ctx))
    BY <1>2 DEF Doubt
  <2> QED
    BY <2>1, <2>2 DEF Answered
<1>9. f.usingEarly => f.expEarly # <<>>
  BY DEF Answered
<1> QED
  BY <1>1, <1>7, <1>8, <1>9 DEF AwaitsExtensions

LEMMA ServerHelloTurns ==
  ASSUME NEW cfg, NEW e, ClientEnd(e), Waits(e), Silent(e.out), e.st # "POST_HANDSHAKE",
         NEW m, MessageTyped(m), m.mt = "SH"
  PROVE  ClientTurns(e, HandleServerHello(cfg, e, m))
<1> DEFINE e2 == EchTaken(e, m)
           ikm == IF m.share = <<>> THEN Zero ELSE Dhe(m.share[1])
           t == Extract(Update([e2.sched EXCEPT !.outer = <<>>], m), ikm)
           own == Derive(t, "c_hs_traffic")
           key == SetupTraffic(m.cs, own, 2)
           peer == SetupTraffic(m.cs, Derive(t, "s_hs_traffic"), 2)
           f == [e2 EXCEPT !.sched = t, !.ech.on = FALSE, !.ech.first = <<>>, !.dec = peer,
                    !.pend = IF e.usingEarly THEN <<own>> ELSE <<>>,
                    !.enc  = IF e.usingEarly THEN @ ELSE key,
                    !.st   = "EXPECT_ENCRYPTED_EXTENSIONS"]
<1>1. HandleServerHello(cfg, e, m) =
         IF cfg.psk # <<>> /\ ~m.psk THEN Fail(e2, "HANDSHAKE_FAILURE") ELSE f
  BY DEF HandleServerHello, EchTaken, CipherTaken
<1> HIDE DEF e2
<1>2. /\ ClientEnd(e2) /\ Answered(e2) /\ e2.out = e.out /\ e2.cs = <<m.cs>> /\ e2.isPsk = m.psk
      /\ e2.usingEarly = e.usingEarly /\ e2.acceptance = e.acceptance /\ e2.enc = e.enc
  BY HelloAnswerIs DEF e2
<1>3. ClientTurns(e, Fail(e2, "HANDSHAKE_FAILURE"))
  BY <1>2, FailTurns
<1> HIDE DEF ikm
<1>4. DOMAIN key = {"epoch", "secret", "aead", "seq"} /\ key.secret = own
  BY SetupIs
<1> DEFINE s == [e2.sched EXCEPT !.outer = <<>>]
<1>5. Keyed(s, m, t, own) /\ s.ctx = e2.sched.ctx /\ s.secret = e2.sched.secret
      /\ s.algos = e2.sched.algos
  <2>1. /\ Schedule(s) /\ s.ctx = e2.sched.ctx /\ s.secret = e2.sched.secret
        /\ s.algos = e2.sched.algos /\ Len(s.secret) = 1 /\ Len(s.ctx) > 0
    BY <1>2 DEF Answered, Schedule
  <2>2. t = Extract(Update(s, m), ikm)
    OBVIOUS
  <2> HIDE DEF s, t
  <2> QED
    BY <2>1, <2>2, HelloSecretIs
<1> HIDE DEF s, t, key, peer
<1> DEFINE ech == [[e2.ech EXCEPT !.on = FALSE] EXCEPT !.first = <<>>]
           pend == IF e.usingEarly THEN <<own>> ELSE <<>>
           enc == IF e.usingEarly THEN e2.enc ELSE key
<1>6. /\ {"on", "accepted", "first"} \subseteq DOMAIN ech /\ ech.accepted = e2.ech.accepted
      /\ ech.first = <<>>
  BY <1>2 DEF ClientEnd
<1>7. f = [[[[[[e2 EXCEPT !.sched = t] EXCEPT !.ech = ech] EXCEPT !.dec = peer] EXCEPT !.pend = pend]
             EXCEPT !.enc = enc] EXCEPT !.st = "EXPECT_ENCRYPTED_EXTENSIONS"]
  BY <1>2 DEF ClientEnd, ClientEndFields
<1> HIDE DEF ech, pend, enc
<1>8. /\ Same(e2, f, {"sched", "ech", "dec", "pend", "enc", "st"})
      /\ f.sched = t /\ f.ech = ech /\ f.pend = pend /\ f.enc = enc
      /\ f.st = "EXPECT_ENCRYPTED_EXTENSIONS"
  BY <1>2, <1>7 DEF Same, ClientEnd, ClientEndFields
<1> HIDE DEF f
<1>9. EchTyped(ech.first)
  BY <1>6 DEF EchTyped
<1>10. {"secret", "seq", "aead"} \subseteq DOMAIN enc
  BY <1>2, <1>4 DEF ClientEnd, enc
<1>11. /\ ClientEnd(f) /\ f.out = e.out /\ f.cs = e2.cs /\ f.isPsk = e2.isPsk
       /\ f.acceptance = e2.acceptance /\ f.usingEarly = e2.usingEarly
       /\ f.expEarly = e2.expEarly
  BY <1>2, <1>6, <1>8, <1>9, <1>10 DEF Same, ClientEnd, ClientEndFields
<1>12. /\ f.pend = IF f.usingEarly THEN <<own>> ELSE <<>>
       /\ ~f.usingEarly => f.enc.secret = own
       /\ f.ech.accepted = e2.ech.accepted
  BY <1>2, <1>4, <1>6, <1>8, <1>11 DEF pend, enc
<1> HIDE DEF own
<1>13. AwaitsExtensions(f)
  BY <1>2, <1>5, <1>8, <1>11, <1>12, AnswerKeyed DEF Waits
<1>14. ClientStory(f)
  BY <1>8, <1>13 DEF ClientStory, WaitStates, RestStates
<1>15. ClientTurns(e, f)
  BY <1>11, <1>14, TurnsOf
<1> QED
  BY <1>1, <1>3, <1>15

LEMMA HelloTurns ==
  ASSUME NEW cfg, cfg.tickets \in Nat \X Nat, NEW e, ClientEnd(e), ClientStory(e),
         Silent(e.out), e.st \in WaitStates, NEW m, MessageTyped(m), m.mt = "SH", NEW now0
  PROVE  ClientTurns(e, HandleHello(cfg, e, m, now0))
<1>1. Waits(e) /\ e.st # "POST_HANDSHAKE" /\ Fins(e.out, e)
  BY SilentIs DEF ClientStory, WaitStates
<1>2. ClientTurns(e, Fail(e, ServerHelloAlert(cfg, e, m)))
  <2> DEFINE f == Fail(e, ServerHelloAlert(cfg, e, m))
  <2>1. Same(e, f, {"ret"})
    BY FailIs
  <2> HIDE DEF f
  <2>2. Same(e, f, {"ret", "dec", "got", "saved", "asserts", "needsKU", "reqKU", "certReq"})
    BY <2>1 DEF Same
  <2>3. ClientTurns(e, f)
    BY <1>1, <2>2, ClientRemains
  <2> QED
    BY <2>3 DEF f
<1>3. ClientTurns(e, HandleRetry(cfg, e, m, now0))
  BY <1>1, RetryTurns
<1>4. ClientTurns(e, HandleServerHello(cfg, e, m))
  BY <1>1, ServerHelloTurns
<1>5. HandleHello(cfg, e, m, now0) \in {Fail(e, ServerHelloAlert(cfg, e, m)),
         HandleRetry(cfg, e, m, now0), HandleServerHello(cfg, e, m)}
  BY DEF HandleHello
<1> QED
  BY <1>2, <1>3, <1>4, <1>5

-----------------------------------------------------------------------------
(* The rest of the server's flight. *)

\* What the client heard in the server's flight, with one message more.
LEMMA HearsOn ==
  ASSUME NEW e, NEW n \in 2..Len(e.sched.ctx), Hears(e, n), NEW m, NEW f, f.sched = Update(e.sched, m),
         f.cs = e.cs, f.isPsk = e.isPsk, f.ech.accepted = e.ech.accepted, f.pend = e.pend,
         f.enc = e.enc, f.usingEarly => e.usingEarly
  PROVE  /\ Hears(f, n) /\ ClientHs(f) = ClientHs(e) /\ Begins(e.sched.ctx, f.sched.ctx)
         /\ Len(f.sched.ctx) = Len(e.sched.ctx) + 1 /\ n \in 2..Len(f.sched.ctx)
         /\ f.sched.ctx[Len(e.sched.ctx) + 1] = Hashed(m)
         /\ f.sched.algos = e.sched.algos /\ f.sched.secret = e.sched.secret
<1>1. /\ Schedule(f.sched) /\ f.sched.ctx = Append(e.sched.ctx, Hashed(m))
      /\ f.sched.algos = e.sched.algos /\ f.sched.secret = e.sched.secret
  BY UpdateIs DEF Hears
<1>2. /\ Len(f.sched.ctx) = Len(e.sched.ctx) + 1 /\ Len(e.sched.ctx) \in Nat
      /\ f.sched.ctx[Len(e.sched.ctx) + 1] = Hashed(m) /\ Begins(e.sched.ctx, f.sched.ctx)
  BY <1>1, AppendIs DEF Hears, Schedule
<1>3. ClientHs(f) = ClientHs(e)
  BY DEF ClientHs
<1> DEFINE hs == ClientHs(e)
           algo == e.sched.algos[1]
<1>4. Opening(e, hs, algo, e.sched.ctx, n)
  BY DEF Hears
<1> HIDE DEF hs, algo
<1>5. Opening(f, hs, algo, f.sched.ctx, n)
  BY <1>2, <1>4, OpeningStays
<1>6. Hears(f, n)
  BY <1>1, <1>3, <1>5 DEF Hears, hs, algo
<1> QED
  BY <1>1, <1>2, <1>3, <1>6

LEMMA ExtensionsTurn ==
  ASSUME NEW cfg, NEW e, ClientEnd(e), ClientStory(e), Silent(e.out),
         e.st = "EXPECT_ENCRYPTED_EXTENSIONS", NEW m, m.mt = "EE"
  PROVE  ClientTurns(e, HandleEncryptedExtensions(cfg, e, m))
<1> DEFINE rejectable == (e.ech.offered \/ e.ech.grease) /\ ~e.ech.accepted
           tests == <<
             <<m.name /\ cfg.sni = "none", "ILLEGAL_PARAMETER">>,
             <<m.early /\ ~e.usingEarly, "ILLEGAL_PARAMETER">>,
             <<m.retryConfigs /\ ~rejectable, "UNSUPPORTED_EXTENSION">> >>
           alert == FirstAlert(tests)
           st == IF e.isPsk THEN "EXPECT_FINISHED" ELSE "EXPECT_CERTIFICATE_REQUEST_OR_CERTIFICATE"
           using == e.usingEarly /\ m.early
           f == [Absorb(e, m, st) EXCEPT !.alpn = m.alpn, !.usingEarly = @ /\ m.early,
                                         !.acceptance = Acceptance(e, m)]
<1>1. HandleEncryptedExtensions(cfg, e, m) = IF alert # "none" THEN Fail(e, alert) ELSE f
  BY DEF HandleEncryptedExtensions
<1>2. DOMAIN tests = 1..3 /\ \A i \in 1..3 : tests[i][2] # "none"
  OBVIOUS
<1> DEFINE bad == m.early /\ ~e.usingEarly
<1>2a. tests[2] = <<bad, "ILLEGAL_PARAMETER">>
  OBVIOUS
<1> HIDE DEF tests, bad
<1>2b. tests[2][1] = bad
  BY <1>2a
<1>3. CASE alert # "none"
  <2> DEFINE g == Fail(e, alert)
  <2>1. Same(e, g, {"ret"}) /\ Fins(e.out, e)
    BY FailIs, SilentIs
  <2> HIDE DEF g
  <2>2. Same(e, g, {"ret", "dec", "got", "saved", "asserts", "needsKU", "reqKU", "certReq"})
    BY <2>1 DEF Same
  <2>3. ClientTurns(e, g)
    BY <2>1, <2>2, ClientRemains
  <2> QED
    BY <1>1, <1>3, <2>3 DEF g
<1>4. CASE alert = "none"
  <2>1. m.early => e.usingEarly
    <3>1. \A i \in 1..3 : ~tests[i][1]
      BY <1>2, <1>4, AlertIs
    <3>2. 2 \in 1..3
      OBVIOUS
    <3>3. ~bad
      BY <1>2b, <3>1, <3>2, Zenon
    <3> QED
      BY <3>3 DEF bad
  <2>2. using \in BOOLEAN
    OBVIOUS
  <2> DEFINE heard == Absorb(e, m, st)
             u == Update(e.sched, m)
  <2> HIDE DEF u
  <2>3. /\ Same(e, heard, {"sched", "st"}) /\ heard.sched = u /\ heard.st = st
        /\ heard.usingEarly = e.usingEarly
    BY DEF Absorb, Same, ClientEnd, ClientEndFields, u
  <2>4. f = [heard EXCEPT !.alpn = m.alpn, !.usingEarly = @ /\ m.early,
                          !.acceptance = Acceptance(e, m)]
    OBVIOUS
  <2> HIDE DEF heard, f
  <2>5. /\ Same(heard, f, {"alpn", "usingEarly", "acceptance"}) /\ f.alpn = m.alpn
        /\ f.usingEarly = (heard.usingEarly /\ m.early) /\ f.acceptance = Acceptance(e, m)
    BY <2>3, <2>4 DEF Same, ClientEnd, ClientEndFields
  <2>6. f.usingEarly = using
    BY <2>3, <2>5
  <2> HIDE DEF st
  <2>7. /\ ClientEnd(f) /\ f.sched = u /\ f.st = st /\ f.cs = e.cs /\ f.isPsk = e.isPsk
        /\ f.ech = e.ech /\ f.pend = e.pend /\ f.enc = e.enc /\ f.expEarly = e.expEarly
        /\ f.out = e.out
    <3> HIDE DEF using
    <3> QED
      BY <2>2, <2>3, <2>5, <2>6 DEF Same, ClientEnd, ClientEndFields
  <2> DEFINE n == Len(e.sched.ctx)
             hs == ClientHs(e)
             algo == e.sched.algos[1]
  <2>8. /\ Hears(e, n) /\ e.acceptance # "ACCEPTED"
        /\ e.usingEarly => \/ Doubt(e.sched.secret, e.sched.ctx, n)
                           \/ e.expEarly = EarlyOf(algo, e.sched.secret, e.sched.ctx, n)
    BY DEF ClientStory, AwaitsExtensions
  <2>9. n \in 2..Len(e.sched.ctx) /\ hs[4] = e.sched.secret /\ n \in Nat
    BY <2>8, LenOfSeq DEF Hears, Opening, Schedule
  <2>9a. n = Len(e.sched.ctx)
    OBVIOUS
  <2> HIDE DEF n
  <2>10. /\ Hears(f, n) /\ ClientHs(f) = hs /\ Begins(e.sched.ctx, f.sched.ctx)
         /\ Len(f.sched.ctx) = n + 1 /\ n \in 2..Len(f.sched.ctx)
         /\ f.sched.ctx[n + 1] = Hashed(m)
         /\ f.sched.algos = e.sched.algos
    <3>1. f.sched = Update(e.sched, m) /\ f.ech.accepted = e.ech.accepted
      BY <2>7 DEF u
    <3>2. f.usingEarly => e.usingEarly
      BY <2>6
    <3> HIDE DEF using
    <3>3. /\ Hears(f, n) /\ ClientHs(f) = ClientHs(e) /\ Begins(e.sched.ctx, f.sched.ctx)
          /\ Len(f.sched.ctx) = Len(e.sched.ctx) + 1 /\ n \in 2..Len(f.sched.ctx)
          /\ f.sched.ctx[Len(e.sched.ctx) + 1] = Hashed(m)
          /\ f.sched.algos = e.sched.algos
      BY <2>7, <2>8, <2>9, <3>1, <3>2, HearsOn
    <3> QED
      BY <2>9a, <3>3
  <2>11. Hashed(m) = m
    BY DEF Hashed
  <2> HIDE DEF hs, algo
  <2>12a. EarlyOf(algo, hs[4], f.sched.ctx, n) = EarlyOf(algo, hs[4], e.sched.ctx, n)
    <3>1. Begins(e.sched.ctx, f.sched.ctx) /\ n \in 2..Len(e.sched.ctx)
      BY <2>9, <2>10
    <3>2. ASSUME NEW s, NEW al PROVE EarlyOf(al, s, f.sched.ctx, n) = EarlyOf(al, s, e.sched.ctx, n)
      BY <3>1, EarlyStays
    <3> QED
      BY <3>2
  <2>12b. Doubt(hs[4], f.sched.ctx, n) <=> Doubt(hs[4], e.sched.ctx, n)
    BY <2>9, <2>10, DoubtStays
  <2>12. Doubt(hs[4], e.sched.ctx, n) => Doubt(hs[4], f.sched.ctx, n)
    BY <2>12b
  <2>13. /\ m.early => ClientEarly(f) = e.expEarly
         /\ ~m.early => ClientEarly(f) = <<>>
    BY <2>1, <2>5, <2>7, <2>8 DEF ClientEarly, Acceptance
  <2>14. Told(f, ClientEarly(f), hs, algo, f.sched.ctx, n)
    <3>1. n < Len(f.sched.ctx) /\ f.alpn = f.sched.ctx[n + 1].alpn
      BY <2>5, <2>9, <2>10, <2>11
    <3>2. ASSUME m.early
          PROVE  Doubt(hs[4], f.sched.ctx, n) \/ ClientEarly(f) = EarlyOf(algo, hs[4], f.sched.ctx, n)
      BY <2>1, <2>8, <2>9, <2>12a, <2>12, <2>13, <3>2
    <3> QED
      BY <2>10, <2>11, <2>13, <3>1, <3>2 DEF Told
  <2>14a. EarlyTaken(f)
    <3>1. e.usingEarly => e.expEarly # <<>>
      BY DEF ClientStory, AwaitsExtensions
    <3>2. f.acceptance = "ACCEPTED" => e.usingEarly
      BY <2>1, <2>5, <2>8 DEF Acceptance
    <3> QED
      BY <2>7, <3>1, <3>2 DEF EarlyTaken
  <2>15. AwaitsFinished(f)
    BY <2>10, <2>14, <2>14a DEF AwaitsFinished, algo
  <2>16. ClientStory(f)
    BY <2>7, <2>15 DEF ClientStory, st, WaitStates
  <2>17. ClientTurns(e, f)
    BY <2>7, <2>16, TurnsOf
  <2> QED
    BY <1>1, <1>4, <2>17 DEF f, heard, st
<1> QED
  BY <1>3, <1>4

LEMMA RestTurns ==
  ASSUME NEW e, ClientEnd(e), AwaitsFinished(e), Silent(e.out), e.st \in RestStates,
         NEW m, NEW f, Same(e, f, {"sched", "st", "certReq"}), f.sched = Update(e.sched, m),
         f.st \in RestStates
  PROVE  ClientTurns(e, f)
<1>1. PICK n \in 2..Len(e.sched.ctx) :
         /\ Hears(e, n)
         /\ Told(e, ClientEarly(e), ClientHs(e), e.sched.algos[1], e.sched.ctx, n)
  BY DEF AwaitsFinished
<1>2. /\ ClientEnd(f) /\ f.cs = e.cs /\ f.isPsk = e.isPsk
      /\ f.ech = e.ech /\ f.pend = e.pend /\ f.enc = e.enc /\ f.expEarly = e.expEarly
      /\ f.out = e.out /\ f.alpn = e.alpn /\ f.acceptance = e.acceptance
      /\ f.usingEarly = e.usingEarly
  BY DEF Same, ClientEnd, ClientEndFields
<1>3. /\ Hears(f, n) /\ ClientHs(f) = ClientHs(e) /\ Begins(e.sched.ctx, f.sched.ctx)
      /\ n \in 2..Len(f.sched.ctx) /\ f.sched.algos = e.sched.algos
  BY <1>1, <1>2, HearsOn
<1> DEFINE hs == ClientHs(e)
           algo == e.sched.algos[1]
           early == ClientEarly(e)
<1>4. Told(e, early, hs, algo, e.sched.ctx, n)
  BY <1>1
<1>5. ClientEarly(f) = early
  BY <1>2 DEF ClientEarly
<1> HIDE DEF hs, algo, early
<1>6. Told(f, early, hs, algo, f.sched.ctx, n)
  BY <1>2, <1>3, <1>4, ToldStays
<1>6a. EarlyTaken(f)
  BY <1>2 DEF AwaitsFinished, EarlyTaken
<1>7. AwaitsFinished(f)
  BY <1>3, <1>5, <1>6, <1>6a DEF AwaitsFinished, hs, algo
<1>8. ClientStory(f)
  BY <1>7 DEF ClientStory, RestStates, WaitStates
<1> QED
  BY <1>2, <1>8, TurnsOf DEF RestStates

-----------------------------------------------------------------------------
(* The server's Finished: the client's flight. *)

\* The client x, whose handshake secret is hs, is writing its last flight.
Finishing(x, hs) ==
    /\ ClientEnd(x) /\ Silent(x.out) /\ Schedule(x.sched)
    /\ Reads(x, ClientEarly(x), hs, x.sched.algos[1], x.sched.ctx) /\ EarlyTaken(x)

LEMMA ReadsStill ==
  ASSUME NEW e, NEW early, NEW hs, NEW algo, NEW ctx, IsSeq(ctx), Reads(e, early, hs, algo, ctx),
         NEW x, x.mt # "FIN", NEW f, SameOutcome(e, f)
  PROVE  Reads(f, early, hs, algo, Append(ctx, x))
<1> DEFINE ctx2 == Append(ctx, x)
<1>1. PICK n \in 2..Len(ctx) : /\ Opening(e, hs, algo, ctx, n) /\ Told(e, early, hs, algo, ctx, n)
                               /\ Ended(e, hs, algo, ctx)
  BY DEF Reads
<1>2. Begins(ctx, ctx2)
  BY AppendIs
<1>3. Ended(f, hs, algo, ctx2)
  BY <1>1, EndedStill DEF SameOutcome
<1> HIDE DEF ctx2
<1>4. Opening(f, hs, algo, ctx2, n)
  BY <1>1, <1>2, OpeningStays DEF SameOutcome
<1>5. Told(f, early, hs, algo, ctx2, n)
  BY <1>1, <1>2, ToldStays DEF SameOutcome
<1>6. n \in 2..Len(ctx2)
  BY <1>2, FrontStays
<1>7. Reads(f, early, hs, algo, ctx2)
  BY <1>3, <1>4, <1>5, <1>6 DEF Reads
<1> QED
  BY <1>7 DEF ctx2

LEMMA ReadsSame ==
  ASSUME NEW e, NEW early, NEW hs, NEW algo, NEW ctx, Reads(e, early, hs, algo, ctx),
         NEW f, SameOutcome(e, f)
  PROVE  Reads(f, early, hs, algo, ctx)
  BY DEF Reads, Opening, Told, Ended, SameOutcome

LEMMA FinishingPushed ==
  ASSUME NEW x, NEW hs, Finishing(x, hs), NEW m, m.mt # "FIN", Hashed(m).mt # "FIN",
         NEW y, y = Push(x, m)
  PROVE  /\ Finishing(y, hs) /\ Same(x, y, {"enc", "out", "sched"}) /\ y.enc.secret = x.enc.secret
         /\ y.sched.secret = x.sched.secret
<1>0. {"enc", "out", "sched"} \subseteq DOMAIN x /\ {"secret", "seq", "aead"} \subseteq DOMAIN x.enc
  BY DEF Finishing, ClientEnd, ClientEndFields
<1>1. /\ Same(x, y, {"enc", "out", "sched"}) /\ y.enc.secret = x.enc.secret
      /\ DOMAIN y.enc = DOMAIN x.enc
      /\ y.sched = Update(x.sched, m)
      /\ \E r : r.msg = m /\ y.out = Append(x.out, r)
  BY <1>0, PushIs
<1>2. /\ Schedule(y.sched) /\ y.sched.ctx = Append(x.sched.ctx, Hashed(m))
      /\ y.sched.algos = x.sched.algos /\ y.sched.secret = x.sched.secret
  BY <1>1, UpdateIs DEF Finishing
<1>3. Silent(y.out)
  BY <1>1, SilentIs DEF Finishing
<1>4. ClientEnd(y) /\ SameOutcome(x, y) /\ ClientEarly(y) = ClientEarly(x)
  BY <1>1 DEF Finishing, ClientEnd, ClientEndFields, Same, SameOutcome, ClientEarly
<1>5. Reads(y, ClientEarly(y), hs, y.sched.algos[1], y.sched.ctx)
  <2> DEFINE early == ClientEarly(x)
             algo == x.sched.algos[1]
             h == Hashed(m)
  <2>1. Reads(x, early, hs, algo, x.sched.ctx) /\ IsSeq(x.sched.ctx)
    BY DEF Finishing, Schedule
  <2> HIDE DEF early, algo, h
  <2>2. Reads(y, early, hs, algo, Append(x.sched.ctx, h))
    BY <1>4, <2>1, ReadsStill DEF h
  <2> QED
    BY <1>2, <1>4, <2>2 DEF early, algo, h
<1>6. EarlyTaken(y)
  BY <1>1 DEF Finishing, ClientEnd, ClientEndFields, Same, EarlyTaken
<1> QED
  BY <1>1, <1>2, <1>3, <1>4, <1>5, <1>6 DEF Finishing

LEMMA FinishingKept ==
  ASSUME NEW x, NEW hs, Finishing(x, hs), NEW y, ClientEnd(y), Silent(y.out), y.sched = x.sched,
         SameOutcome(x, y), y.acceptance = x.acceptance
  PROVE  Finishing(y, hs)
<1>1. ClientEarly(y) = ClientEarly(x)
  BY DEF ClientEarly, SameOutcome
<1>2. Reads(y, ClientEarly(x), hs, x.sched.algos[1], x.sched.ctx)
  BY ReadsSame DEF Finishing
<1>3. EarlyTaken(y)
  BY DEF Finishing, SameOutcome, EarlyTaken
<1> QED
  BY <1>1, <1>2, <1>3 DEF Finishing

\* The exporter secret comes from the messages up to the server's Finished.
LEMMA FinishedHeard ==
  ASSUME NEW e, ClientEnd(e), AwaitsFinished(e), Silent(e.out), NEW m, MessageTyped(m),
         m.mt = "FIN", NEW s, s = Extract(Update(e.sched, m), Zero),
         NEW x, Same(e, x, {"sched", "exp", "dec"}), x.sched = s, x.exp = Derive(s, "exp_master")
  PROVE  /\ Finishing(x, ClientHs(x)) /\ x.out = e.out /\ x.pend = e.pend
         /\ x.usingEarly => x.pend # <<>>
<1> DEFINE u == Update(e.sched, m)
           hs == ClientHs(e)
           algo == e.sched.algos[1]
           early == ClientEarly(e)
           z == Joined(u, Zero)
<1>1. PICK n \in 2..Len(e.sched.ctx) : Hears(e, n) /\ Told(e, early, hs, algo, e.sched.ctx, n)
  BY DEF AwaitsFinished
<1>2. /\ Schedule(u) /\ u.ctx = Append(e.sched.ctx, Hashed(m))
      /\ u.algos = e.sched.algos /\ u.secret = e.sched.secret
  BY <1>1, UpdateIs DEF Hears
<1>3. s = Extract(u, Zero)
  OBVIOUS
<1> HIDE DEF u
<1>4. Schedule(s) /\ s.ctx = u.ctx /\ s.algos = u.algos /\ s.secret = Append(u.secret, z)
  BY <1>2, <1>3, Extracted
<1>5. z = <<algo, Zero>>
  BY <1>2 DEF Joined
<1> HIDE DEF z
<1>6. /\ Len(s.ctx) = Len(e.sched.ctx) + 1 /\ Len(e.sched.ctx) \in Nat
      /\ s.ctx[Len(e.sched.ctx) + 1] = Hashed(m) /\ Begins(e.sched.ctx, s.ctx) /\ IsSeq(s.ctx)
  BY <1>1, <1>2, <1>4, AppendIs DEF Hears, Schedule
<1>7. Hashed(m).mt = "FIN"
  BY HashedIs
<1>8. /\ ClientEnd(x) /\ x.cs = e.cs /\ x.isPsk = e.isPsk /\ x.ech = e.ech /\ x.alpn = e.alpn
      /\ x.expEarly = e.expEarly /\ x.acceptance = e.acceptance /\ x.out = e.out
      /\ x.pend = e.pend /\ x.usingEarly = e.usingEarly /\ x.enc = e.enc
  BY DEF Same, ClientEnd, ClientEndFields
<1>9. ClientHs(x) = hs /\ ClientEarly(x) = early
  BY <1>8 DEF ClientHs, ClientEarly
<1>10. Opening(e, hs, algo, e.sched.ctx, n) /\ hs[4] = e.sched.secret
  BY <1>1 DEF Hears
<1>10a. x.usingEarly => x.pend # <<>>
  BY <1>1, <1>8 DEF Hears
<1>11. Told(e, early, hs, algo, e.sched.ctx, n)
  BY <1>1
<1> DEFINE p == Len(s.ctx)
<1>12. Ended(x, hs, algo, s.ctx)
  <2>1. SubSeq(s.ctx, 1, p) = s.ctx
    BY <1>6, WholeFront
  <2>2. x.exp = <<"derived", "exp_master", s.algos[1], s.secret, s.ctx>>
    BY DEF Derive, DeriveFrom
  <2>3. s.secret = Append(hs[4], <<algo, Zero>>) /\ s.algos[1] = algo
    BY <1>2, <1>4, <1>5, <1>10
  <2>4. x.exp = ExpOf(algo, hs[4], s.ctx, p)
    <3> HIDE DEF hs, algo
    <3> QED
      BY <2>1, <2>2, <2>3 DEF ExpOf
  <2>5. p \in 1..Len(s.ctx) /\ s.ctx[p].mt = "FIN" /\ \A i \in p + 1..Len(s.ctx) : s.ctx[i].mt # "FIN"
    BY <1>6, <1>7
  <2> HIDE DEF hs, algo, p
  <2> QED
    BY <2>4, <2>5 DEF Ended
<1> HIDE DEF hs, algo, early, p
<1>13. Opening(x, hs, algo, s.ctx, n)
  BY <1>6, <1>8, <1>10, OpeningStays
<1>14. Told(x, early, hs, algo, s.ctx, n)
  BY <1>6, <1>8, <1>11, ToldStays
<1>15. n \in 2..Len(s.ctx)
  BY <1>6, FrontStays
<1>16. Reads(x, early, hs, algo, s.ctx)
  BY <1>12, <1>13, <1>14, <1>15 DEF Reads
<1>16a. EarlyTaken(x)
  BY <1>8 DEF AwaitsFinished, EarlyTaken
<1>17. Finishing(x, ClientHs(x))
  BY <1>2, <1>4, <1>8, <1>9, <1>16, <1>16a DEF Finishing, algo
<1> QED
  BY <1>8, <1>10a, <1>17

\* What else the client sends of its last flight.
LEMMA NotFinished ==
  /\ Hashed([mt |-> "EOED"]).mt # "FIN"
  /\ \A b : Hashed([mt |-> "CERT", has |-> b]).mt # "FIN"
  /\ \A a : Hashed([mt |-> "CV", mac |-> a]).mt # "FIN"
<1>1. Hashed([mt |-> "EOED"]).mt # "FIN"
  BY DEF Hashed
<1>2. ASSUME NEW b PROVE Hashed([mt |-> "CERT", has |-> b]).mt # "FIN"
  <2> DEFINE m == [mt |-> "CERT", has |-> b]
  <2>1. m.mt = "CERT"
    OBVIOUS
  <2> HIDE DEF m
  <2>2. Hashed(m).mt # "FIN"
    BY <2>1 DEF Hashed
  <2> QED
    BY <2>2 DEF m
<1>3. ASSUME NEW a PROVE Hashed([mt |-> "CV", mac |-> a]).mt # "FIN"
  <2> DEFINE m == [mt |-> "CV", mac |-> a]
             h == [m EXCEPT !.mac = <<>>]
  <2>1. m.mt = "CV" /\ h.mt = "CV"
    OBVIOUS
  <2>2. Hashed(m) = h
    <3> HIDE DEF h, m
    <3> QED
      BY <2>1 DEF Hashed, h
  <2> HIDE DEF h, m
  <2>3. Hashed(m).mt # "FIN"
    BY <2>1, <2>2
  <2> QED
    BY <2>3 DEF m
<1> QED
  BY <1>1, <1>2, <1>3

\* The early key gives way to that of the handshake.
LEMMA EarlyKeyDropped ==
  ASSUME NEW x, Finishing(x, ClientHs(x)), x.usingEarly => x.pend # <<>>, NEW cfg,
         NEW y, y = EndEarlyData(cfg, x)
  PROVE  Finishing(y, ClientHs(x)) /\ y.enc.secret = ClientHs(x)
<1> DEFINE hs == ClientHs(x)
           eoed == [mt |-> "EOED"]
           told == IF x.usingEarly /\ ~cfg.omitEoed THEN Push(x, eoed) ELSE x
           key == SetupTraffic(x.cs[1], x.pend[1], 2)
           f == [told EXCEPT !.usingEarly = FALSE, !.pend = <<>>,
                             !.asserts = @ /\ x.enc.aead # <<>>, !.enc = key]
<1>1. y = IF x.pend = <<>> THEN x ELSE f
  BY DEF EndEarlyData
<1>2. eoed.mt # "FIN" /\ Hashed(eoed).mt # "FIN"
  BY NotFinished
<1>3. key.secret = x.pend[1] /\ DOMAIN key = {"epoch", "secret", "aead", "seq"}
  BY SetupIs
<1> HIDE DEF eoed, key
<1>4. CASE x.pend = <<>>
  BY <1>1, <1>4 DEF ClientHs
<1>5. CASE x.pend # <<>>
  <2>1. hs = x.pend[1]
    BY <1>5 DEF ClientHs
  <2> HIDE DEF hs
  <2>2. Finishing(x, hs)
    BY DEF hs
  <2>3. Finishing(told, hs)
    BY <1>2, <2>2, FinishingPushed
  <2> HIDE DEF told
  <2>4. /\ Same(told, f, {"usingEarly", "pend", "asserts", "enc"}) /\ f.usingEarly = FALSE
        /\ f.enc = key
    BY <2>3 DEF Same, Finishing, ClientEnd, ClientEndFields
  <2> HIDE DEF f
  <2>5. ClientEnd(f) /\ f.out = told.out /\ f.sched = told.sched /\ f.acceptance = told.acceptance
    BY <1>3, <2>3, <2>4 DEF Same, Finishing, ClientEnd, ClientEndFields
  <2>6. SameOutcome(told, f)
    BY <2>3, <2>4 DEF Same, SameOutcome, Finishing, ClientEnd, ClientEndFields
  <2>7. Silent(f.out)
    BY <2>3, <2>5 DEF Finishing
  <2>8. Finishing(f, hs)
    BY <2>3, <2>5, <2>6, <2>7, FinishingKept
  <2>9. f.enc.secret = hs
    BY <1>3, <2>1, <2>4
  <2> QED
    BY <1>1, <1>5, <2>8, <2>9 DEF hs
<1> QED
  BY <1>4, <1>5

LEMMA SpecifierKept ==
  ASSUME NEW x, NEW hs, Finishing(x, hs), NEW y, y = PushCCS(x)
  PROVE  Finishing(y, hs) /\ y.enc = x.enc
<1>0. {"enc", "out"} \subseteq DOMAIN x
  BY DEF Finishing, ClientEnd, ClientEndFields
<1>1. /\ Same(x, y, {"out", "ccs"})
      /\ \/ y.out = x.out
         \/ \E r : r.msg.mt = "CCS" /\ y.out = Append(x.out, r)
  BY <1>0, PushCCSIs
<1>2. /\ ClientEnd(y) /\ y.sched = x.sched /\ y.acceptance = x.acceptance /\ y.enc = x.enc
      /\ SameOutcome(x, y)
  BY <1>1 DEF Same, SameOutcome, Finishing, ClientEnd, ClientEndFields
<1>3. Silent(y.out)
  <2>1. CASE y.out = x.out
    BY <2>1 DEF Finishing
  <2>2. CASE \E r : r.msg.mt = "CCS" /\ y.out = Append(x.out, r)
    <3>1. PICK r : r.msg.mt = "CCS" /\ y.out = Append(x.out, r)
      BY <2>2
    <3>2. Silent(x.out) /\ r.msg.mt # "FIN"
      BY <3>1 DEF Finishing
    <3> QED
      BY <3>1, <3>2, SilentIs
  <2> QED
    BY <1>1, <2>1, <2>2
<1> QED
  BY <1>2, <1>3, FinishingKept

LEMMA CertificateSent ==
  ASSUME NEW x, NEW hs, Finishing(x, hs), x.enc.secret = hs, NEW cfg,
         NEW y, y = SendClientCertificate(cfg, x)
  PROVE  Finishing(y, hs) /\ y.enc.secret = hs
<1> DEFINE cert == [mt |-> "CERT", has |-> cfg.cert]
           sent == Push(x, cert)
           cv == [mt |-> "CV", mac |-> SignData(sent.sched, "client")]
           both == Push(sent, cv)
<1>1. y = IF cfg.cert THEN both ELSE sent
  BY DEF SendClientCertificate
<1>2. /\ cert.mt # "FIN" /\ Hashed(cert).mt # "FIN"
      /\ cv.mt # "FIN" /\ Hashed(cv).mt # "FIN"
  BY NotFinished
<1> HIDE DEF cert, cv
<1>3. Finishing(sent, hs) /\ sent.enc.secret = hs
  BY <1>2, FinishingPushed
<1> HIDE DEF sent
<1>4. Finishing(both, hs) /\ both.enc.secret = hs
  BY <1>2, <1>3, FinishingPushed
<1> HIDE DEF both
<1> QED
  BY <1>1, <1>3, <1>4

\* The Finished itself.
LEMMA FinishedSent ==
  ASSUME NEW x, NEW hs, Finishing(x, hs), x.enc.secret = hs, NEW y, y = SendFinished(x),
         NEW f, Same(y, f, {"enc", "st", "ret"}), {"secret", "seq", "aead"} \subseteq DOMAIN f.enc,
         f.st = "POST_HANDSHAKE"
  PROVE  ClientEnd(f) /\ Fins(f.out, f)
<1> DEFINE mac == VerifyData(x.sched, x.enc.secret)
           m == [mt |-> "FIN", mac |-> mac]
           algo == x.sched.algos[1]
           ctx == x.sched.ctx
<1>0. {"enc", "out", "sched"} \subseteq DOMAIN x /\ {"secret", "seq", "aead"} \subseteq DOMAIN x.enc
  BY DEF Finishing, ClientEnd, ClientEndFields
<1>1. y = Push(x, m)
  BY DEF SendFinished
<1>2. m.mac = mac
  OBVIOUS
<1>3. mac[2] = hs /\ mac[3] = algo /\ mac[4] = ctx /\ mac = <<"verify_data", mac[2], mac[3], mac[4]>>
  BY DEF VerifyData
<1> HIDE DEF m, mac
<1>4. Same(x, y, {"enc", "out", "sched"}) /\ \E r : r.msg = m /\ y.out = Append(x.out, r)
  BY <1>0, <1>1, PushIs
<1>5. PICK r : r.msg = m /\ y.out = Append(x.out, r)
  BY <1>4
<1>6. ClientEnd(f) /\ f.out = y.out /\ SameOutcome(x, f) /\ f.acceptance = x.acceptance
  BY <1>4 DEF Same, SameOutcome, Finishing, ClientEnd, ClientEndFields
<1>7. ClientEarly(f) = ClientEarly(x)
  BY <1>6 DEF ClientEarly, SameOutcome
<1>8. Reads(f, ClientEarly(f), hs, algo, ctx)
  <2>1. Reads(x, ClientEarly(x), hs, algo, ctx)
    BY DEF Finishing
  <2> HIDE DEF algo, ctx
  <2> QED
    BY <1>6, <1>7, <2>1, ReadsSame
<1>8a. EarlyTaken(f)
  BY <1>6 DEF Finishing, SameOutcome, EarlyTaken
<1>9. Backed(mac, f)
  BY <1>3, <1>8, <1>8a DEF Backed
<1>10. /\ IsSeq(f.out) /\ Len(f.out) = Len(x.out) + 1 /\ Len(x.out) \in Nat
       /\ \A i \in 1..Len(x.out) : f.out[i] = x.out[i]
       /\ f.out[Len(x.out) + 1] = r
  BY <1>5, <1>6, AppendIs DEF Finishing, Silent
<1>11. \A i \in 1..Len(f.out) : i \in 1..Len(x.out) \/ i = Len(x.out) + 1
  BY <1>10
<1> HIDE DEF algo, ctx
<1>12. ASSUME NEW i \in 1..Len(f.out), f.out[i].msg.mt = "FIN"
       PROVE  Backed(f.out[i].msg.mac, f)
  <2>1. i = Len(x.out) + 1
    BY <1>10, <1>11, <1>12 DEF Finishing, Silent
  <2>2. f.out[i].msg.mac = mac
    BY <1>2, <1>5, <1>10, <2>1
  <2> QED
    BY <1>9, <2>2
<1> QED
  BY <1>6, <1>10, <1>12 DEF Fins

LEMMA FinishedTurns ==
  ASSUME NEW cfg, NEW e, ClientEnd(e), ClientStory(e), Silent(e.out), e.st = "EXPECT_FINISHED",
         NEW m, MessageTyped(m), m.mt = "FIN"
  PROVE  ClientTurns(e, HandleServerFinished(cfg, e, m))
<1> DEFINE rejected == e.ech.offered /\ ~e.ech.accepted
           s    == Extract(Update(e.sched, m), Zero)
           mine == Derive(s, "c_ap_traffic")
           x    == [e EXCEPT !.sched = s, !.exp = Derive(s, "exp_master"),
                             !.dec = SetupTraffic(e.cs[1], Derive(s, "s_ap_traffic"), 3)]
           x0   == EndEarlyData(cfg, x)
           x1   == PushCCS(x0)
           asked == ~rejected /\ e.certReq
           xc   == SendClientCertificate(cfg, x1)
           x2   == IF asked THEN xc ELSE x1
           y    == SendFinished(x2)
           key  == SetupTraffic(e.cs[1], mine, 3)
           ret  == IF rejected THEN "ECH_REQUIRED" ELSE "OK"
           f    == [y EXCEPT !.enc = key, !.st = "POST_HANDSHAKE", !.ret = ret]
           bad  == m.mac # VerifyData(e.sched, e.dec.secret)
<1>1. HandleServerFinished(cfg, e, m) = IF bad THEN Fail(e, "HANDSHAKE_FAILURE") ELSE f
  BY DEF HandleServerFinished
<1> HIDE DEF bad, asked, ret
<1>2. AwaitsFinished(e)
  BY DEF ClientStory, RestStates
<1>3. ClientTurns(e, Fail(e, "HANDSHAKE_FAILURE"))
  <2> DEFINE g == Fail(e, "HANDSHAKE_FAILURE")
  <2>1. Same(e, g, {"ret"}) /\ Fins(e.out, e)
    BY FailIs, SilentIs
  <2> HIDE DEF g
  <2>2. Same(e, g, {"ret", "dec", "got", "saved", "asserts", "needsKU", "reqKU", "certReq"})
    BY <2>1 DEF Same
  <2>3. ClientTurns(e, g)
    BY <2>1, <2>2, ClientRemains
  <2> QED
    BY <2>3 DEF g
<1>4. DOMAIN key = {"epoch", "secret", "aead", "seq"}
  BY SetupIs
<1>4a. s = Extract(Update(e.sched, m), Zero)
  OBVIOUS
<1> HIDE DEF key, s
<1>5. Same(e, x, {"sched", "exp", "dec"}) /\ x.sched = s /\ x.exp = Derive(s, "exp_master")
  BY DEF Same, ClientEnd, ClientEndFields
<1> HIDE DEF x
<1>6. Finishing(x, ClientHs(x)) /\ (x.usingEarly => x.pend # <<>>)
  BY <1>2, <1>4a, <1>5, FinishedHeard
<1> DEFINE hs == ClientHs(x)
<1>7. Finishing(x0, hs) /\ x0.enc.secret = hs
  BY <1>6, EarlyKeyDropped
<1> HIDE DEF x0, hs
<1>8. Finishing(x1, hs) /\ x1.enc.secret = hs
  BY <1>7, SpecifierKept
<1> HIDE DEF x1
<1>9. Finishing(xc, hs) /\ xc.enc.secret = hs
  BY <1>8, CertificateSent
<1> HIDE DEF xc
<1>10. Finishing(x2, hs) /\ x2.enc.secret = hs
  BY <1>8, <1>9
<1> HIDE DEF x2
<1>11. {"enc", "st", "ret"} \subseteq DOMAIN y
  <2>1. {"enc", "out", "sched"} \subseteq DOMAIN x2 /\ {"secret", "seq", "aead"} \subseteq DOMAIN x2.enc
        /\ {"enc", "st", "ret"} \subseteq DOMAIN x2
    BY <1>10 DEF Finishing, ClientEnd, ClientEndFields
  <2> DEFINE fin == [mt |-> "FIN", mac |-> VerifyData(x2.sched, x2.enc.secret)]
  <2>2. y = Push(x2, fin)
    BY DEF SendFinished
  <2> HIDE DEF fin, y
  <2>3. Same(x2, y, {"enc", "out", "sched"})
    BY <2>1, <2>2, PushIs
  <2> QED
    BY <2>1, <2>3 DEF Same
<1>12. y = SendFinished(x2)
  OBVIOUS
<1> HIDE DEF y
<1>13. Same(y, f, {"enc", "st", "ret"}) /\ f.enc = key /\ f.st = "POST_HANDSHAKE"
  BY <1>11 DEF Same
<1> HIDE DEF f
<1>14. ClientEnd(f) /\ Fins(f.out, f)
  BY <1>4, <1>10, <1>12, <1>13, FinishedSent
<1>15. ClientStory(f)
  BY <1>13 DEF ClientStory, WaitStates, RestStates
<1>16. ClientTurns(e, f)
  BY <1>14, <1>15 DEF ClientTurns, ClientStays
<1> QED
  BY <1>1, <1>3, <1>16

-----------------------------------------------------------------------------
(* Whatever the client is called with. *)

LEMMA ClientFails ==
  ASSUME NEW e, ClientEnd(e), ClientStory(e), Fins(e.out, e), NEW alert
  PROVE  ClientTurns(e, Fail(e, alert))
<1> DEFINE f == Fail(e, alert)
<1>1. Same(e, f, {"ret"})
  BY FailIs
<1> HIDE DEF f
<1>2. Same(e, f, {"ret", "dec", "got", "saved", "asserts", "needsKU", "reqKU", "certReq"})
  BY <1>1 DEF Same
<1>3. ClientTurns(e, f)
  BY <1>2, ClientRemains
<1> QED
  BY <1>3 DEF f

LEMMA CertificatesTurn ==
  ASSUME NEW cfg, NEW e, ClientEnd(e), ClientStory(e), Silent(e.out), e.st \in RestStates, NEW m
  PROVE  /\ ClientTurns(e, HandleCertificateRequest(e, m))
         /\ ClientTurns(e, HandleServerCertificate(cfg, e, m))
         /\ ClientTurns(e, HandleServerCertificateVerify(e, m))
<1>1. AwaitsFinished(e) /\ Fins(e.out, e)
  BY SilentIs DEF ClientStory
<1>2. ASSUME NEW st \in RestStates
      PROVE  /\ ClientTurns(e, Absorb(e, m, st))
             /\ ClientTurns(e, Absorb([e EXCEPT !.certReq = TRUE], m, st))
  <2> DEFINE f == Absorb(e, m, st)
             asked == [e EXCEPT !.certReq = TRUE]
             g == Absorb(asked, m, st)
  <2>1. Same(e, f, {"sched", "st", "certReq"}) /\ f.sched = Update(e.sched, m) /\ f.st = st
    BY DEF Absorb, Same, ClientEnd, ClientEndFields
  <2>2. Same(e, g, {"sched", "st", "certReq"}) /\ g.sched = Update(e.sched, m) /\ g.st = st
    BY DEF Absorb, Same, ClientEnd, ClientEndFields
  <2> HIDE DEF f, g
  <2>3. ClientTurns(e, f)
    BY <1>1, <2>1, RestTurns
  <2>4. ClientTurns(e, g)
    BY <1>1, <2>2, RestTurns
  <2> QED
    BY <2>3, <2>4 DEF f, g
<1>3. /\ ClientTurns(e, Fail(e, "BAD_CERTIFICATE")) /\ ClientTurns(e, Fail(e, "ILLEGAL_PARAMETER"))
      /\ ClientTurns(e, Fail(e, "DECRYPT_ERROR"))
  BY <1>1, ClientFails
<1>4. /\ "EXPECT_CERTIFICATE" \in RestStates /\ "EXPECT_CERTIFICATE_VERIFY" \in RestStates
      /\ "EXPECT_FINISHED" \in RestStates
  BY DEF RestStates
<1>5. HandleCertificateRequest(e, m) = Absorb([e EXCEPT !.certReq = TRUE], m, "EXPECT_CERTIFICATE")
  BY DEF HandleCertificateRequest
<1>6. HandleServerCertificate(cfg, e, m) \in {Fail(e, "BAD_CERTIFICATE"), Fail(e, "ILLEGAL_PARAMETER"),
         Absorb(e, m, "EXPECT_CERTIFICATE_VERIFY")}
  BY DEF HandleServerCertificate
<1>7. HandleServerCertificateVerify(e, m) \in {Fail(e, "DECRYPT_ERROR"), Absorb(e, m, "EXPECT_FINISHED")}
  BY DEF HandleServerCertificateVerify
<1>8. /\ ClientTurns(e, Absorb([e EXCEPT !.certReq = TRUE], m, "EXPECT_CERTIFICATE"))
      /\ ClientTurns(e, Absorb(e, m, "EXPECT_CERTIFICATE_VERIFY"))
      /\ ClientTurns(e, Absorb(e, m, "EXPECT_FINISHED"))
  BY <1>2, <1>4
<1> QED
  BY <1>3, <1>5, <1>6, <1>7, <1>8

LEMMA LaterTurns ==
  ASSUME NEW cfg, NEW e, ClientEnd(e), ClientStory(e), Fins(e.out, e), NEW m, NEW now0
  PROVE  /\ ClientTurns(e, HandleNewSessionTicket(cfg, e, m, now0))
         /\ ClientTurns(e, HandleKeyUpdate(e, m))
         /\ ClientTurns(e, Deliver(e, m))
         /\ ClientTurns(e, Opened(e)) /\ ClientStory(Opened(e))
<1> DEFINE free == {"ret", "dec", "got", "saved", "asserts", "needsKU", "reqKU", "certReq"}
<1>1. ASSUME NEW f, Same(e, f, free) PROVE ClientTurns(e, f) /\ ClientStory(f)
  BY <1>1, ClientRemains
<1>2. Same(e, HandleNewSessionTicket(cfg, e, m, now0), free)
  <2> DEFINE kept == [obtained |-> now0, kx |-> e.share[1], cs |-> e.cs[1],
                 ageAdd |-> m.ageAdd, box |-> m.box, maxEarly |-> m.maxEarly,
                 secret |-> DeriveResumption(e.sched)]
  <2>1. HandleNewSessionTicket(cfg, e, m, now0) \in {[e EXCEPT !.ret = "OK"],
           [e EXCEPT !.asserts = FALSE], [e EXCEPT !.saved = Append(@, kept), !.ret = "OK"]}
    <3> HIDE DEF kept
    <3> QED
      BY DEF HandleNewSessionTicket, kept
  <2> HIDE DEF kept
  <2>2. /\ Same(e, [e EXCEPT !.ret = "OK"], free)
        /\ Same(e, [e EXCEPT !.asserts = FALSE], free)
        /\ Same(e, [e EXCEPT !.saved = Append(@, kept), !.ret = "OK"], free)
    BY DEF Same
  <2> QED
    BY <2>1, <2>2
<1>3. Same(e, HandleKeyUpdate(e, m), free)
  BY DEF HandleKeyUpdate, Same
<1>4. Same(e, Opened(e), free)
  BY DEF Opened, Same
<1>5. Same(e, [e EXCEPT !.got = Append(@, m), !.ret = "OK"], free)
  BY DEF Same
<1>6. Deliver(e, m) \in {[e EXCEPT !.got = Append(@, m), !.ret = "OK"], Fail(e, "UNEXPECTED_MESSAGE")}
  BY DEF Deliver
<1>7. ClientTurns(e, Fail(e, "UNEXPECTED_MESSAGE"))
  BY ClientFails
<1> HIDE DEF free
<1>8. ClientTurns(e, [e EXCEPT !.got = Append(@, m), !.ret = "OK"])
  BY <1>1, <1>5
<1>9. ClientTurns(e, Deliver(e, m))
  BY <1>6, <1>7, <1>8
<1>10. ClientTurns(e, HandleNewSessionTicket(cfg, e, m, now0)) /\ ClientTurns(e, HandleKeyUpdate(e, m))
  BY <1>1, <1>2, <1>3
<1>11. ClientTurns(e, Opened(e)) /\ ClientStory(Opened(e))
  BY <1>1, <1>4
<1> QED
  BY <1>9, <1>10, <1>11

LEMMA MessageTurns ==
  ASSUME NEW cfg, cfg.tickets \in Nat \X Nat, NEW e, ClientEnd(e), ClientStory(e),
         Silent(e.out), NEW m, MessageTyped(m), NEW now0
  PROVE  ClientTurns(e, ClientHandle(cfg, e, m, now0))
<1> DEFINE f == ClientHandle(cfg, e, m, now0)
<1>0. Fins(e.out, e)
  BY SilentIs
<1>1. CASE e.st \in WaitStates /\ m.mt = "SH"
  <2>1. f = HandleHello(cfg, e, m, now0)
    BY <1>1 DEF ClientHandle, WaitStates
  <2> QED
    BY <1>1, <2>1, HelloTurns
<1>2. CASE e.st = "EXPECT_ENCRYPTED_EXTENSIONS" /\ m.mt = "EE"
  <2>1. f = HandleEncryptedExtensions(cfg, e, m)
    BY <1>2 DEF ClientHandle
  <2> QED
    BY <1>2, <2>1, ExtensionsTurn
<1> DEFINE certs == \/ e.st = "EXPECT_CERTIFICATE_REQUEST_OR_CERTIFICATE" /\ m.mt = "CR"
                    \/ /\ e.st \in {"EXPECT_CERTIFICATE_REQUEST_OR_CERTIFICATE", "EXPECT_CERTIFICATE"}
                       /\ m.mt = "CERT"
                    \/ e.st = "EXPECT_CERTIFICATE_VERIFY" /\ m.mt = "CV"
<1>3. CASE certs
  <2>1. \/ f = HandleCertificateRequest(e, m)
        \/ f = HandleServerCertificate(cfg, e, m)
        \/ f = HandleServerCertificateVerify(e, m)
    BY <1>3 DEF ClientHandle
  <2>2. e.st \in RestStates
    BY <1>3 DEF RestStates
  <2> HIDE DEF f, certs
  <2>3. ClientTurns(e, f)
    BY <2>1, <2>2, CertificatesTurn
  <2> QED
    BY <2>3 DEF f
<1>4. CASE e.st = "EXPECT_FINISHED" /\ m.mt = "FIN"
  <2>1. f = HandleServerFinished(cfg, e, m)
    BY <1>4 DEF ClientHandle
  <2> QED
    BY <1>4, <2>1, FinishedTurns
<1>5. CASE e.st = "POST_HANDSHAKE" /\ m.mt \in {"NST", "KU"}
  <2>1. f = HandleNewSessionTicket(cfg, e, m, now0) \/ f = HandleKeyUpdate(e, m)
    BY <1>5 DEF ClientHandle
  <2> HIDE DEF f
  <2>2. ClientTurns(e, f)
    BY <1>0, <2>1, LaterTurns
  <2> QED
    BY <2>2 DEF f
<1>6. \/ f = Fail(e, "UNEXPECTED_MESSAGE")
      \/ e.st \in WaitStates /\ m.mt = "SH"
      \/ e.st = "EXPECT_ENCRYPTED_EXTENSIONS" /\ m.mt = "EE"
      \/ certs
      \/ e.st = "EXPECT_FINISHED" /\ m.mt = "FIN"
      \/ e.st = "POST_HANDSHAKE" /\ m.mt \in {"NST", "KU"}
  BY DEF ClientHandle, WaitStates
<1>7. CASE f = Fail(e, "UNEXPECTED_MESSAGE")
  BY <1>0, <1>7, ClientFails
<1> HIDE DEF f, certs
<1>8. ClientTurns(e, f)
  BY <1>1, <1>2, <1>3, <1>4, <1>5, <1>6, <1>7 DEF f
<1> QED
  BY <1>8 DEF f

LEMMA RecordTurns ==
  ASSUME C.tickets \in Nat \X Nat, NEW e, ClientEnd(e), ClientStory(e), Silent(e.out),
         NEW r, MessageTyped(r.msg), NEW signs
  PROVE  ClientTurns(e, Input(e, FALSE, r, signs))
<1> DEFINE f == Input(e, FALSE, r, signs)
           x == Opened(e)
<1>0. Fins(e.out, e)
  BY SilentIs
<1>1. ASSUME NEW y, ClientEnd(y), ClientStory(y), Silent(y.out)
      PROVE  ClientTurns(y, Content(y, FALSE, r.msg, signs))
  <2>1. Content(y, FALSE, r.msg, signs) \in
           {Fail(y, "PEER_ALERT"), Deliver(y, r.msg), ClientHandle(C, y, r.msg, now)}
    BY DEF Content
  <2>2. Fins(y.out, y)
    BY <1>1, SilentIs
  <2>3. ClientTurns(y, ClientHandle(C, y, r.msg, now))
    BY <1>1, MessageTurns
  <2>4. ClientTurns(y, Fail(y, "PEER_ALERT")) /\ ClientTurns(y, Deliver(y, r.msg))
    BY <1>1, <2>2, ClientFails, LaterTurns
  <2> QED
    BY <2>1, <2>3, <2>4
<1>2. f \in {e, Fail(e, "HANDSHAKE_FAILURE"), Fail(e, "PEER_ALERT"), Fail(e, "BAD_RECORD_MAC"),
             Fail(e, "UNEXPECTED_MESSAGE"), Content(x, FALSE, r.msg, signs),
             Content(e, FALSE, r.msg, signs)}
  BY DEF Input, Skipping
<1> HIDE DEF f
<1>3. /\ ClientTurns(e, Fail(e, "HANDSHAKE_FAILURE")) /\ ClientTurns(e, Fail(e, "PEER_ALERT"))
      /\ ClientTurns(e, Fail(e, "BAD_RECORD_MAC")) /\ ClientTurns(e, Fail(e, "UNEXPECTED_MESSAGE"))
  BY <1>0, ClientFails
<1>4. ClientTurns(e, e)
  BY <1>0 DEF ClientTurns, ClientStays, SameOutcome
<1>5. ClientTurns(e, Content(e, FALSE, r.msg, signs))
  BY <1>1
<1>6. ClientTurns(e, Content(x, FALSE, r.msg, signs))
  <2>1. ClientTurns(e, x) /\ ClientStory(x)
    BY <1>0, LaterTurns
  <2>2. /\ x.out = e.out /\ x.st = e.st /\ x.acceptance = e.acceptance /\ SameOutcome(e, x)
    BY DEF Opened, ClientEnd, ClientEndFields, SameOutcome
  <2> HIDE DEF x
  <2>3. ClientTurns(x, Content(x, FALSE, r.msg, signs))
    BY <1>1, <2>1, <2>2 DEF ClientTurns
  <2> QED
    BY <2>2, <2>3 DEF ClientTurns, ClientStays, SameOutcome
<1>7. ClientTurns(e, f)
  BY <1>2, <1>3, <1>4, <1>5, <1>6
<1> QED
  BY <1>7 DEF f

LEMMA FinsAdd ==
  ASSUME NEW q, NEW e, Fins(q, e), NEW r, r.msg.mt # "FIN"
  PROVE  Fins(Append(q, r), e)
<1> DEFINE t == Append(q, r)
<1>1. /\ IsSeq(t) /\ Len(t) = Len(q) + 1 /\ Len(q) \in Nat
      /\ \A i \in 1..Len(q) : t[i] = q[i]
      /\ t[Len(q) + 1] = r
  BY AppendIs DEF Fins
<1> HIDE DEF t
<1>2. \A i \in 1..Len(t) : i \in 1..Len(q) \/ i = Len(q) + 1
  BY <1>1
<1> QED
  BY <1>1, <1>2 DEF Fins, t

\* The end of ptls_handshake: an end that stays open is left as it is, of the
\* other ones a Finished is kept or dropped.
Alerted(e, f) == \/ f = e
                 \/ /\ Same(e, f, {"out"}) /\ ~GoesOn(e)
                    /\ \E o \in {e.out, <<>>} : \/ f.out = o
                                                \/ \E r : r.msg.mt = "ALERT" /\ f.out = Append(o, r)

LEMMA FinishIs ==
  ASSUME NEW e, {"enc", "out", "ret"} \subseteq DOMAIN e, NEW before, NEW server \in BOOLEAN,
         NEW f, f = Finish(before, e, server)
  PROVE  Alerted(e, f)
<1> DEFINE m == [mt |-> "ALERT", desc |-> e.ret]
           o == IF e.ret = "ECH_REQUIRED" THEN e.out ELSE <<>>
           dropped == [e EXCEPT !.out = IF e.ret = "ECH_REQUIRED" THEN @ ELSE <<>>]
           empty == [e EXCEPT !.out = <<>>]
           r1 == Sealed(dropped.enc, m)
           r2 == Record(m)
<1>1. /\ Same(e, dropped, {"out"}) /\ dropped.out = o /\ dropped.ret = e.ret
      /\ Same(e, empty, {"out"}) /\ empty.out = <<>>
      /\ "out" \in DOMAIN dropped
  BY DEF Same
<1>2. f = e \/ (~GoesOn(e) /\ (f = empty \/ f = SendAlert(dropped, server)))
  BY DEF Finish, Open, GoesOn
<1>3. m.mt = "ALERT"
  OBVIOUS
<1> HIDE DEF m
<1>4. r1.msg = m /\ r2.msg = m
  <2>1. r1.msg = m
    BY SealedIs
  <2>2. r2.msg = m
    BY DEF Record
  <2> QED
    BY <2>1, <2>2
<1> HIDE DEF dropped
<1>5. \E r \in {r1, r2} : SendAlert(dropped, server) = [dropped EXCEPT !.out = Append(@, r)]
  <2> DEFINE m2 == [mt |-> "ALERT", desc |-> dropped.ret]
  <2>1. m2 = m
    BY <1>1 DEF m
  <2>2. SendAlert(dropped, server) =
           [dropped EXCEPT !.out = Append(@, IF server \/ dropped.st = "POST_HANDSHAKE"
                                             THEN Sealed(dropped.enc, m2) ELSE Record(m2))]
    BY DEF SendAlert
  <2> HIDE DEF m2
  <2> QED
    BY <2>1, <2>2
<1> HIDE DEF r1, r2, o
<1>6. CASE f = empty /\ ~GoesOn(e)
  <2>1. Same(e, f, {"out"}) /\ f.out = <<>>
    BY <1>1, <1>6
  <2> QED
    BY <1>6, <2>1 DEF Alerted
<1>7. CASE f = SendAlert(dropped, server) /\ ~GoesOn(e)
  <2>1. PICK r \in {r1, r2} : f = [dropped EXCEPT !.out = Append(@, r)]
    BY <1>5, <1>7
  <2>2. Same(dropped, f, {"out"}) /\ f.out = Append(o, r)
    BY <1>1, <2>1 DEF Same
  <2>3. Same(e, f, {"out"})
    BY <1>1, <2>2 DEF Same
  <2>4. o \in {e.out, <<>>} /\ r.msg.mt = "ALERT"
    BY <1>3, <1>4, <2>1 DEF o
  <2> QED
    BY <1>7, <2>2, <2>3, <2>4 DEF Alerted
<1> HIDE DEF empty
<1>8. CASE f = e
  BY <1>8 DEF Alerted
<1> QED
  BY <1>2, <1>6, <1>7, <1>8

LEMMA FinishTurns ==
  ASSUME NEW e, NEW x, ClientTurns(e, x), NEW before, NEW f, f = Finish(before, x, FALSE)
  PROVE  ClientTurns(e, f)
<1>1. {"enc", "out", "ret"} \subseteq DOMAIN x
  BY DEF ClientTurns, ClientEnd, ClientEndFields
<1>2. \/ f = x
      \/ /\ Same(x, f, {"out"}) /\ ~GoesOn(x)
         /\ \E o \in {x.out, <<>>} : \/ f.out = o
                                     \/ \E r : r.msg.mt = "ALERT" /\ f.out = Append(o, r)
  <2>1. f = Finish(before, x, FALSE)
    OBVIOUS
  <2>2. Alerted(x, f)
    BY <1>1, <2>1, FinishIs
  <2> QED
    BY <2>2 DEF Alerted
<1>3. CASE f = x
  BY <1>3
<1>4. CASE f # x
  <2>1. Same(x, f, {"out"}) /\ ~GoesOn(x)
    BY <1>2, <1>4
  <2>2. PICK o \in {x.out, <<>>} : \/ f.out = o
                                   \/ \E r : r.msg.mt = "ALERT" /\ f.out = Append(o, r)
    BY <1>2, <1>4
  <2>3. ClientEnd(f) /\ f.st = x.st /\ f.ret = x.ret /\ SameOutcome(x, f) /\ f.acceptance = x.acceptance
    BY <2>1 DEF Same, SameOutcome, ClientTurns, ClientEnd, ClientEndFields
  <2>4. ~Open(f)
    BY <2>1, <2>3 DEF GoesOn, Open
  <2>5. ClientStays(x, f) /\ ClientStays(e, f)
    BY <2>3 DEF ClientTurns, ClientStays, SameOutcome
  <2>6. Fins(o, x)
    <3>1. Silent(<<>>)
      BY EmptyIsSeq DEF Silent
    <3>2. Fins(<<>>, x)
      BY <3>1, SilentIs
    <3> QED
      BY <2>2, <3>2 DEF ClientTurns
  <2>7. Fins(f.out, x)
    BY <2>2, <2>6, FinsAdd
  <2>8. Fins(f.out, f)
    BY <2>5, <2>7, FinsStay
  <2> QED
    BY <2>3, <2>4, <2>5, <2>8 DEF ClientTurns
<1> QED
  BY <1>3, <1>4

\* ptls_send, while early data is sent or after the handshake.
LEMMA SendTurns ==
  ASSUME NEW e, ClientEnd(e), ClientStory(e), Silent(e.out), e.usingEarly \/ e.st = "POST_HANDSHAKE",
         NEW m, m.mt = "DATA"
  PROVE  ClientTurns(e, PtlsSend(e, m))
<1> DEFINE due     == e.needsKU \/ e.enc.seq >= MaxSeq
           ku      == [mt |-> "KU", request |-> e.reqKU]
           told    == Emit(e, ku)
           key     == UpdateKey(told.enc)
           turned  == [told EXCEPT !.enc = UpdateKey(@), !.needsKU = FALSE, !.reqKU = FALSE]
           changed == IF ~due THEN e ELSE turned
           sent    == Emit(changed, m)
           f       == [sent EXCEPT !.sent = Append(@, m)]
           part(x) == /\ Same(e, x, {"enc", "out", "needsKU", "reqKU", "sent"})
                      /\ {"secret", "seq", "aead"} \subseteq DOMAIN x.enc /\ Silent(x.out)
<1>1. PtlsSend(e, m) = f
  BY DEF PtlsSend
<1>2. ku.mt # "FIN" /\ m.mt # "FIN"
  OBVIOUS
<1> HIDE DEF due, ku
<1>3. ASSUME NEW x, part(x), NEW n, n.mt # "FIN" PROVE part(Emit(x, n))
  <2>1. {"enc", "out"} \subseteq DOMAIN x /\ {"secret", "seq", "aead"} \subseteq DOMAIN x.enc
    BY <1>3 DEF Same, ClientEnd, ClientEndFields
  <2>2. /\ Same(x, Emit(x, n), {"enc", "out"})
        /\ DOMAIN Emit(x, n).enc = DOMAIN x.enc
        /\ \E r : r.msg = n /\ Emit(x, n).out = Append(x.out, r)
    BY <2>1, EmitIs
  <2>3. Silent(Emit(x, n).out)
    BY <1>3, <2>2, SilentIs
  <2> QED
    BY <1>3, <2>1, <2>2, <2>3 DEF Same
<1>4. part(e)
  BY DEF Same, ClientEnd
<1>5. part(told)
  BY <1>2, <1>3, <1>4
<1>6. part(turned)
  <2>1. DOMAIN key = {"epoch", "secret", "aead", "seq"}
    BY SetupIs DEF UpdateKey
  <2>2. {"enc", "out"} \subseteq DOMAIN told
    BY <1>5 DEF Same, ClientEnd, ClientEndFields
  <2> HIDE DEF told
  <2>3. Same(told, turned, {"enc", "needsKU", "reqKU"}) /\ turned.enc = key /\ turned.out = told.out
    BY <2>2 DEF Same
  <2> HIDE DEF turned, key
  <2> QED
    BY <1>5, <2>1, <2>3 DEF Same
<1> HIDE DEF turned
<1>7. part(changed)
  BY <1>4, <1>6
<1> HIDE DEF changed
<1>8. part(sent)
  BY <1>2, <1>3, <1>7
<1> HIDE DEF sent
<1>9. Same(sent, f, {"sent"}) /\ f.enc = sent.enc /\ f.out = sent.out
  <2>1. {"enc", "out"} \subseteq DOMAIN sent
    BY <1>8 DEF Same, ClientEnd, ClientEndFields
  <2> QED
    BY <2>1 DEF Same
<1> HIDE DEF f
<1>10. part(f)
  BY <1>8, <1>9 DEF Same
<1>11. /\ f.st = e.st /\ f.sched = e.sched /\ f.pend = e.pend /\ f.ech = e.ech /\ f.cs = e.cs
       /\ f.isPsk = e.isPsk /\ f.alpn = e.alpn /\ f.expEarly = e.expEarly /\ f.exp = e.exp
       /\ f.usingEarly = e.usingEarly /\ f.acceptance = e.acceptance
       /\ ClientEnd(f) /\ Silent(f.out)
  BY <1>10 DEF Same, ClientEnd, ClientEndFields
<1>12. ClientStory(f)
  <2>1. CASE e.usingEarly
    BY <1>11, <2>1, StoryCarried
  <2>2. CASE e.st = "POST_HANDSHAKE"
    BY <1>11, <2>2 DEF ClientStory, WaitStates, RestStates
  <2> QED
    BY <2>1, <2>2
<1>13. Fins(f.out, f)
  BY <1>11, SilentIs
<1>14. ClientTurns(e, f)
  BY <1>11, <1>12, <1>13 DEF ClientTurns, ClientStays, SameOutcome
<1> QED
  BY <1>1, <1>14

-----------------------------------------------------------------------------
(* The client between two steps, with q on its way to the server. *)

ClientMarks(q, e) == /\ ClientEnd(e) /\ Fins(q, e)
                     /\ Open(e) => ClientStory(e)

LEMMA ClientGoesOn ==
  ASSUME NEW q, NEW e, Fins(q, e), NEW f, ClientTurns(e, f)
  PROVE  ClientMarks(q \o f.out, Sent(f)) /\ ClientStays(e, Sent(f))
<1> DEFINE c == Sent(f)
<1>1. Same(f, c, {"out"}) /\ c.out = <<>>
  BY DEF Sent, Same, ClientTurns, ClientEnd, ClientEndFields
<1> HIDE DEF c
<1>2. /\ ClientEnd(c) /\ c.st = f.st /\ c.ret = f.ret /\ SameOutcome(f, c)
      /\ c.acceptance = f.acceptance
  BY <1>1 DEF Same, SameOutcome, ClientTurns, ClientEnd, ClientEndFields
<1>3. ClientStays(f, c) /\ ClientStays(e, c)
  BY <1>2 DEF ClientTurns, ClientStays, SameOutcome
<1>4. Fins(q, c) /\ Fins(f.out, c)
  BY <1>3, FinsStay DEF ClientTurns
<1>5. Fins(q \o f.out, c)
  BY <1>4, FinsJoin
<1>6. Open(c) => ClientStory(c)
  <2>1. ASSUME Open(c) PROVE ClientStory(f)
    BY <1>2, <2>1 DEF Open, ClientTurns
  <2>2. /\ c.st = f.st /\ c.sched = f.sched /\ c.pend = f.pend /\ c.ech = f.ech /\ c.cs = f.cs
        /\ c.isPsk = f.isPsk /\ c.alpn = f.alpn /\ c.expEarly = f.expEarly
        /\ c.usingEarly = f.usingEarly /\ c.acceptance = f.acceptance /\ c.enc = f.enc
    BY <1>1 DEF Same, ClientTurns, ClientEnd, ClientEndFields
  <2> QED
    BY <2>1, <2>2, StoryCarried
<1> QED
  BY <1>2, <1>3, <1>5, <1>6 DEF ClientMarks, c

LEMMA FinsTail ==
  ASSUME NEW q, NEW e, Fins(q, e), q # <<>>
  PROVE  /\ Fins(Tail(q), e)
         /\ Head(q).msg.mt = "FIN" => e.st = "POST_HANDSHAKE" /\ Backed(Head(q).msg.mac, e)
<1>1. /\ IsSeq(Tail(q)) /\ Len(Tail(q)) = Len(q) - 1 /\ Len(q) \in Nat \ {0}
      /\ \A i \in 1..Len(Tail(q)) : Tail(q)[i] = q[i + 1]
      /\ Head(q) = q[1]
  BY SeqTail DEF Fins
<1> DEFINE t == Tail(q)
<1>2. \A i \in 1..Len(t) : t[i] = q[i + 1] /\ i + 1 \in 1..Len(q)
  BY <1>1
<1>3. 1 \in 1..Len(q)
  BY <1>1
<1> HIDE DEF t
<1>4. Fins(t, e)
  BY <1>1, <1>2 DEF Fins, t
<1>5. Head(q).msg.mt = "FIN" => e.st = "POST_HANDSHAKE" /\ Backed(Head(q).msg.mac, e)
  BY <1>1, <1>3 DEF Fins
<1> QED
  BY <1>4, <1>5 DEF t

LEMMA NewClientMarks ==
  ASSUME NEW cfg
  PROVE  ClientMarks(<<>>, NewClient(cfg))
<1> DEFINE e == NewClient(cfg)
<1>1. /\ ClientEndFields \subseteq DOMAIN e /\ e.st = "HANDSHAKE_START" /\ e.enc = NoTraffic
      /\ e.usingEarly = FALSE /\ e.ech = NoEch
  BY DEF NewClient, ClientEndFields
<1> HIDE DEF e
<1>2. /\ {"on", "accepted", "first"} \subseteq DOMAIN NoEch /\ EchTyped(NoEch.first)
      /\ {"secret", "seq", "aead"} \subseteq DOMAIN NoTraffic
  BY DEF NoEch, EchTyped, NoTraffic
<1>3. ClientEnd(e)
  BY <1>1, <1>2 DEF ClientEnd
<1>4. ClientStory(e)
  BY <1>1 DEF ClientStory, WaitStates, RestStates
<1>5. Fins(<<>>, e)
  BY EmptyIsSeq DEF Fins
<1> QED
  BY <1>3, <1>4, <1>5 DEF ClientMarks, e

\* What a step of the client does.
LEMMA ClientStepMarks ==
  ASSUME IInv, Client, ClientMarks(toSrv, cli)
  PROVE  ClientMarks(toSrv, cli)' /\ ClientStays(cli, cli') /\ srv' = srv /\ Open(cli)
<1>1. PICK U, V : Wire(toSrv, toCli, cli, srv, U, V)
  BY DEF IInv, Between
<1>2. C.tickets \in Nat \X Nat
  BY SettingsAre DEF IInv
<1>3. /\ ClientEnd(cli) /\ Fins(toSrv, cli) /\ (Open(cli) => ClientStory(cli))
      /\ cli.out = <<>> /\ Silent(cli.out)
  BY <1>1, EmptyIsSeq DEF ClientMarks, Wire, ClientRests, Silent
<1>4. ASSUME NEW f, ClientTurns(cli, f), ClientGoes(f), Open(cli), srv' = srv
      PROVE  ClientMarks(toSrv, cli)' /\ ClientStays(cli, cli') /\ srv' = srv /\ Open(cli)
  <2>1. cli' = Sent(f) /\ toSrv' = toSrv \o f.out
    BY <1>4 DEF ClientGoes
  <2>2. ClientMarks(toSrv \o f.out, Sent(f)) /\ ClientStays(cli, Sent(f))
    BY <1>3, <1>4, ClientGoesOn
  <2> QED
    BY <1>4, <2>1, <2>2
<1>5. CASE ClientStart
  <2> DEFINE f == SendClientHello(C, cli, now, FALSE, <<>>)
  <2>1. Open(cli) /\ cli.st = "HANDSHAKE_START" /\ ClientGoes(f) /\ srv' = srv
    BY <1>5 DEF ClientStart
  <2>2. ClientEnd(f) /\ Waits(f) /\ Silent(f.out) /\ f.st \in WaitStates
    BY <1>2, <1>3, <2>1, HelloOffered DEF ClientStory
  <2> HIDE DEF f
  <2>3. ClientStory(f)
    BY <2>2 DEF ClientStory, WaitStates, RestStates
  <2>4. ClientTurns(cli, f)
    BY <2>1, <2>2, <2>3, TurnsOf
  <2> QED
    BY <1>4, <2>1, <2>4
<1>6. CASE ClientReceive
  <2> DEFINE e == Input(cli, FALSE, Head(toCli), "none")
             f == Finish(cli, e, FALSE)
  <2>1. Open(cli) /\ toCli # <<>> /\ ClientGoes(f) /\ srv' = srv
    BY <1>6 DEF ClientReceive
  <2>2. MessageTyped(Head(toCli).msg)
    BY <1>1, <2>1, NumberedTail DEF Wire
  <2>3. ClientTurns(cli, e)
    BY <1>2, <1>3, <2>1, <2>2, RecordTurns
  <2> HIDE DEF e
  <2>4. ClientTurns(cli, f)
    BY <2>3, FinishTurns
  <2> HIDE DEF f
  <2> QED
    BY <1>4, <2>1, <2>4
<1>7. CASE ClientSendEarly
  <2> DEFINE m == Data(TRUE, Len(cli.sent) + 1)
  <2>1. m.mt = "DATA"
    BY DEF Data
  <2>2. Open(cli) /\ cli.usingEarly /\ ClientGoes(PtlsSend(cli, m)) /\ srv' = srv
    BY <1>7 DEF ClientSendEarly
  <2> HIDE DEF m
  <2>3. ClientTurns(cli, PtlsSend(cli, m))
    BY <1>3, <2>1, <2>2, SendTurns
  <2> QED
    BY <1>4, <2>2, <2>3
<1>8. CASE ClientSend
  <2> DEFINE m == Data(FALSE, Len(AppSent(cli)) + 1)
  <2>1. m.mt = "DATA"
    BY DEF Data
  <2>2. Open(cli) /\ cli.ret = "OK" /\ ClientGoes(PtlsSend(cli, m)) /\ srv' = srv
    BY <1>8 DEF ClientSend, Open
  <2> HIDE DEF m
  <2>3. cli.st = "POST_HANDSHAKE"
    BY <1>1, <2>2 DEF Wire, ClientRests, ClientHolds, ClientStage
  <2>4. ClientTurns(cli, PtlsSend(cli, m))
    BY <1>3, <2>1, <2>2, <2>3, SendTurns
  <2> QED
    BY <1>4, <2>2, <2>4
<1>9. ASSUME NEW f, cli' = f, Same(cli, f, {"ret", "needsKU", "reqKU"}), Open(cli),
             UNCHANGED <<srv, toSrv>>
      PROVE  ClientMarks(toSrv, cli)' /\ ClientStays(cli, cli') /\ srv' = srv /\ Open(cli)
  <2>1. Same(cli, f, {"ret", "dec", "got", "saved", "asserts", "needsKU", "reqKU", "certReq"})
    BY <1>9 DEF Same
  <2>2. Fins(cli.out, cli)
    BY <1>3, SilentIs
  <2>3. ClientTurns(cli, f) /\ ClientStory(f)
    BY <1>3, <1>9, <2>1, <2>2, ClientRemains
  <2>4. ClientStays(cli, f) /\ Fins(toSrv, f)
    BY <1>3, <2>3, FinsStay DEF ClientTurns
  <2> QED
    BY <1>9, <2>3, <2>4 DEF ClientMarks, ClientTurns
<1>10. CASE ClientUpdateKey
  <2> DEFINE f == [cli EXCEPT !.needsKU = TRUE, !.reqKU = TRUE]
  <2>1. cli' = f /\ UNCHANGED <<srv, toSrv>> /\ Open(cli)
    BY <1>10 DEF ClientUpdateKey, Open
  <2>2. Same(cli, f, {"ret", "needsKU", "reqKU"})
    BY DEF Same
  <2> HIDE DEF f
  <2> QED
    BY <1>9, <2>1, <2>2
<1>11. CASE ClientEof
  <2> DEFINE f == [cli EXCEPT !.ret = "EOF"]
  <2>1. cli' = f /\ UNCHANGED <<srv, toSrv>> /\ Open(cli)
    BY <1>11 DEF ClientEof
  <2>2. Same(cli, f, {"ret", "needsKU", "reqKU"})
    BY DEF Same
  <2> HIDE DEF f
  <2> QED
    BY <1>9, <2>1, <2>2
<1> QED
  BY <1>5, <1>6, <1>7, <1>8, <1>10, <1>11 DEF Client

-----------------------------------------------------------------------------
(* The server: what its state says of the transcript. *)

ServerEndFields == {"st", "ret", "sched", "enc", "dec", "out", "pend", "pendApp", "share", "cs",
                    "isPsk", "ech", "name", "alpn", "exp", "expEarly", "ccs", "skipped",
                    "tickets", "issued", "asserts", "got"}

ServerEnd(e) ==
    /\ ServerEndFields \subseteq DOMAIN e /\ {"on", "accepted"} \subseteq DOMAIN e.ech
    /\ {"secret", "seq", "aead"} \subseteq DOMAIN e.enc /\ {"secret", "seq"} \subseteq DOMAIN e.dec

\* The client's handshake secret: kept aside while there is early data to read.
ServerHs(e) == IF e.pend # <<>> THEN e.pend[1] ELSE e.dec.secret

\* The n-th message of the transcript is the server's ServerHello.
Speaks(e, n) == /\ Schedule(e.sched)
                /\ Opening(e, ServerHs(e), e.sched.algos[1], e.sched.ctx, n)

\* The ServerHello was the last message yet.
Greets(e) ==
    LET n == Len(e.sched.ctx)
    IN  /\ Speaks(e, n) /\ ServerHs(e)[4] = e.sched.secret
        /\ e.pend # <<>> =>
              /\ ~Doubt(e.sched.secret, e.sched.ctx, n)
              /\ e.expEarly = EarlyOf(e.sched.algos[1], e.sched.secret, e.sched.ctx, n)
        /\ e.pend = <<>> => e.expEarly = <<>>

\* EncryptedExtensions have followed.
Says(e, n) ==
    /\ Speaks(e, n) /\ Told(e, e.expEarly, ServerHs(e), e.sched.algos[1], e.sched.ctx, n)
    /\ Sure(ServerHs(e), e.sched.ctx, n)

Signs(e) == \E n \in 2..Len(e.sched.ctx) : Says(e, n) /\ ServerHs(e)[4] = e.sched.secret

\* The server's Finished has followed, and is the last one.
AwaitsEnd(e) ==
    \E n \in 2..Len(e.sched.ctx) :
       Says(e, n) /\ Ended(e, ServerHs(e), e.sched.algos[1], e.sched.ctx)

EndStates == {"EXPECT_CERTIFICATE", "EXPECT_CERTIFICATE_VERIFY", "EXPECT_END_OF_EARLY_DATA",
              "EXPECT_FINISHED"}

ServerStory(e) ==
    /\ e.st \in ServerHelloStates => e.pend = <<>> /\ e.expEarly = <<>>
    /\ e.st = "EXPECT_SECOND_CLIENT_HELLO" => Schedule(e.sched) /\ Len(e.sched.secret) = 1
    /\ e.st = "GENERATING_CERTIFICATE_VERIFY" => Signs(e)
    /\ e.st \in EndStates => AwaitsEnd(e) /\ (e.pend # <<>> <=> e.st = "EXPECT_END_OF_EARLY_DATA")

\* What a call of picotls makes of a server whose handshake is not over by then.
ServerWorks(f) == /\ ServerEnd(f) /\ f.st # "POST_HANDSHAKE"
                  /\ Open(f) => ServerStory(f)

\* What a story does not mention.
LEMMA ServerCarried ==
  ASSUME NEW e, ServerStory(e), NEW f, f.st = e.st, f.sched = e.sched, f.pend = e.pend,
         f.dec.secret = e.dec.secret, f.ech = e.ech, f.cs = e.cs, f.isPsk = e.isPsk,
         f.alpn = e.alpn, f.exp = e.exp, f.expEarly = e.expEarly
  PROVE  ServerStory(f)
<1>1. ServerHs(f) = ServerHs(e)
  BY DEF ServerHs
<1>2. ASSUME NEW n, Says(e, n) PROVE Says(f, n)
  BY <1>1, <1>2 DEF Says, Speaks, Opening, Told
<1>3. Signs(e) => Signs(f)
  BY <1>1, <1>2 DEF Signs
<1>4. AwaitsEnd(e) => AwaitsEnd(f)
  <2> SUFFICES ASSUME AwaitsEnd(e) PROVE AwaitsEnd(f)
    OBVIOUS
  <2>1. PICK n \in 2..Len(e.sched.ctx) :
           Says(e, n) /\ Ended(e, ServerHs(e), e.sched.algos[1], e.sched.ctx)
    BY DEF AwaitsEnd
  <2>2. Ended(f, ServerHs(f), f.sched.algos[1], f.sched.ctx)
    BY <1>1, <2>1 DEF Ended
  <2> QED
    BY <1>2, <2>1, <2>2 DEF AwaitsEnd
<1> QED
  BY <1>3, <1>4 DEF ServerStory

LEMMA ServerGivesUp ==
  ASSUME NEW e, ServerEnd(e), e.st # "POST_HANDSHAKE", NEW alert,
         alert \notin {"IN_PROGRESS", "OK", "ASYNC_OPERATION"}
  PROVE  ServerWorks(Fail(e, alert))
<1> DEFINE f == Fail(e, alert)
<1>1. Same(e, f, {"ret"}) /\ f.ret = alert
  BY DEF Fail, Same, ServerEnd, ServerEndFields
<1> HIDE DEF f
<1>2. ServerEnd(f) /\ f.st = e.st
  BY <1>1 DEF Same, ServerEnd, ServerEndFields
<1> QED
  BY <1>1, <1>2 DEF ServerWorks, Open, f

\* What was said stays said.
SameWords(e, f) ==
    /\ ServerHs(f) = ServerHs(e) /\ f.cs = e.cs /\ f.isPsk = e.isPsk
    /\ f.ech.accepted = e.ech.accepted /\ f.alpn = e.alpn /\ f.expEarly = e.expEarly

LEMMA SaysOn ==
  ASSUME NEW e, NEW n \in 2..Len(e.sched.ctx), Says(e, n), NEW m, NEW f,
         f.sched = Update(e.sched, m), SameWords(e, f)
  PROVE  /\ Says(f, n) /\ n \in 2..Len(f.sched.ctx)
         /\ f.sched.secret = e.sched.secret /\ f.sched.algos = e.sched.algos
         /\ f.sched.ctx = Append(e.sched.ctx, Hashed(m))
<1>1. /\ Schedule(f.sched) /\ f.sched.ctx = Append(e.sched.ctx, Hashed(m))
      /\ f.sched.algos = e.sched.algos /\ f.sched.secret = e.sched.secret
  BY UpdateIs DEF Says, Speaks
<1>2. Begins(e.sched.ctx, f.sched.ctx)
  BY <1>1, AppendIs DEF Says, Speaks, Schedule
<1> DEFINE hs == ServerHs(e)
           algo == e.sched.algos[1]
           early == e.expEarly
<1>3. /\ Opening(e, hs, algo, e.sched.ctx, n) /\ Told(e, early, hs, algo, e.sched.ctx, n)
      /\ Sure(hs, e.sched.ctx, n)
  BY DEF Says, Speaks
<1>4. /\ ServerHs(f) = hs /\ f.sched.algos[1] = algo /\ f.expEarly = early /\ f.cs = e.cs
      /\ f.isPsk = e.isPsk /\ f.ech.accepted = e.ech.accepted /\ f.alpn = e.alpn
  BY <1>1 DEF SameWords
<1> HIDE DEF hs, algo, early
<1>5. Opening(f, hs, algo, f.sched.ctx, n)
  BY <1>2, <1>3, <1>4, OpeningStays
<1>6. Told(f, early, hs, algo, f.sched.ctx, n)
  BY <1>2, <1>3, <1>4, ToldStays
<1>7. Sure(hs, f.sched.ctx, n)
  <2>1. n < Len(e.sched.ctx)
    BY <1>3 DEF Told
  <2>2. f.sched.ctx[n + 1] = e.sched.ctx[n + 1]
    BY <1>2, <2>1, NextStays
  <2>3. Doubt(hs[4], f.sched.ctx, n) <=> Doubt(hs[4], e.sched.ctx, n)
    BY <1>2, DoubtStays
  <2> QED
    BY <1>3, <2>2, <2>3 DEF Sure
<1>8. n \in 2..Len(f.sched.ctx)
  BY <1>2, FrontStays
<1>9. Says(f, n)
  BY <1>1, <1>4, <1>5, <1>6, <1>7 DEF Says, Speaks
<1> QED
  BY <1>1, <1>8, <1>9

LEMMA SaysSame ==
  ASSUME NEW e, NEW n, Says(e, n), NEW f, Schedule(f.sched), f.sched.ctx = e.sched.ctx,
         f.sched.algos = e.sched.algos, SameWords(e, f)
  PROVE  Says(f, n)
  BY DEF Says, Speaks, Opening, Told, SameWords

LEMMA ServerPushed ==
  ASSUME NEW e, ServerEnd(e), NEW m, NEW f, f = Push(e, m)
  PROVE  /\ ServerEnd(f) /\ Same(e, f, {"enc", "out", "sched"}) /\ f.sched = Update(e.sched, m)
         /\ ServerHs(f) = ServerHs(e) /\ f.pend = e.pend /\ f.cs = e.cs /\ f.isPsk = e.isPsk
         /\ f.ech = e.ech /\ f.alpn = e.alpn /\ f.expEarly = e.expEarly /\ f.st = e.st
<1>0. {"enc", "out", "sched"} \subseteq DOMAIN e /\ {"secret", "seq", "aead"} \subseteq DOMAIN e.enc
  BY DEF ServerEnd, ServerEndFields
<1>1. /\ Same(e, f, {"enc", "out", "sched"}) /\ DOMAIN f.enc = DOMAIN e.enc
      /\ f.sched = Update(e.sched, m)
  BY <1>0, PushIs
<1>2. /\ f.pend = e.pend /\ f.cs = e.cs /\ f.isPsk = e.isPsk /\ f.dec = e.dec /\ f.st = e.st
      /\ f.ech = e.ech /\ f.alpn = e.alpn /\ f.expEarly = e.expEarly
  BY <1>1 DEF Same, ServerEnd, ServerEndFields
<1>3. ServerEnd(f)
  BY <1>1, <1>2 DEF Same, ServerEnd
<1>4. ServerHs(f) = ServerHs(e)
  BY <1>2 DEF ServerHs
<1> QED
  BY <1>1, <1>2, <1>3, <1>4

LEMMA SaysPushed ==
  ASSUME NEW e, ServerEnd(e), NEW n \in 2..Len(e.sched.ctx), Says(e, n), NEW m,
         NEW f, f = Push(e, m)
  PROVE  Says(f, n) /\ n \in 2..Len(f.sched.ctx) /\ f.sched.secret = e.sched.secret
<1>1. f.sched = Update(e.sched, m) /\ SameWords(e, f)
  BY ServerPushed DEF SameWords
<1>2. Says(f, n)
  BY <1>1, SaysOn
<1>3. n \in 2..Len(f.sched.ctx)
  BY <1>1, SaysOn
<1>4. f.sched.secret = e.sched.secret
  BY <1>1, UpdateIs DEF Says, Speaks
<1> QED
  BY <1>2, <1>3, <1>4

LEMMA SignsOn ==
  ASSUME NEW e, ServerEnd(e), Signs(e), NEW m, NEW f, f = Push(e, m)
  PROVE  ServerEnd(f) /\ Signs(f) /\ Same(e, f, {"enc", "out", "sched"})
<1>1. PICK n \in 2..Len(e.sched.ctx) : Says(e, n) /\ ServerHs(e)[4] = e.sched.secret
  BY DEF Signs
<1>2. ServerEnd(f) /\ Same(e, f, {"enc", "out", "sched"}) /\ ServerHs(f) = ServerHs(e)
  BY ServerPushed
<1>3. /\ Says(f, n) /\ n \in 2..Len(f.sched.ctx) /\ f.sched.secret = e.sched.secret
  BY <1>1, SaysPushed
<1>4. Signs(f)
  BY <1>1, <1>2, <1>3 DEF Signs
<1> QED
  BY <1>2, <1>4

\* The server says that it takes early data when it keeps the key aside.
LEMMA ExtensionsSaid ==
  ASSUME NEW e, ServerEnd(e), Greets(e), NEW ee, ee.mt = "EE", ee.alpn = e.alpn,
         ee.early => e.pend # <<>>, ~ee.early => e.pend = <<>>, NEW f, f = Push(e, ee)
  PROVE  ServerEnd(f) /\ Signs(f) /\ Same(e, f, {"enc", "out", "sched"})
<1> DEFINE n == Len(e.sched.ctx)
           hs == ServerHs(e)
           algo == e.sched.algos[1]
           sec == e.sched.secret
           early == e.expEarly
<1>1. /\ Opening(e, hs, algo, e.sched.ctx, n) /\ Schedule(e.sched) /\ hs[4] = sec
      /\ e.pend # <<>> => ~Doubt(sec, e.sched.ctx, n) /\ early = EarlyOf(algo, sec, e.sched.ctx, n)
      /\ e.pend = <<>> => early = <<>>
  BY DEF Greets, Speaks
<1>2. n \in 2..Len(e.sched.ctx) /\ n \in Nat
  BY <1>1, LenOfSeq DEF Opening, Schedule
<1>3. /\ ServerEnd(f) /\ Same(e, f, {"enc", "out", "sched"}) /\ f.sched = Update(e.sched, ee)
      /\ ServerHs(f) = hs /\ f.cs = e.cs /\ f.isPsk = e.isPsk
      /\ f.ech.accepted = e.ech.accepted /\ f.alpn = e.alpn /\ f.expEarly = early
  BY ServerPushed
<1>4. Hashed(ee) = ee
  BY DEF Hashed
<1>5. /\ Schedule(f.sched) /\ f.sched.ctx = Append(e.sched.ctx, ee)
      /\ f.sched.algos = e.sched.algos /\ f.sched.secret = sec
  BY <1>1, <1>3, <1>4, UpdateIs
<1>6. /\ Len(f.sched.ctx) = n + 1 /\ f.sched.ctx[n + 1] = ee /\ Begins(e.sched.ctx, f.sched.ctx)
  BY <1>1, <1>5, AppendIs DEF Schedule
<1>7. f.sched.algos[1] = algo
  BY <1>5
<1> HIDE DEF n, hs, algo, sec, early
<1>8. Opening(f, hs, algo, f.sched.ctx, n)
  BY <1>1, <1>2, <1>3, <1>6, OpeningStays
<1>9. n \in 2..Len(f.sched.ctx)
  BY <1>2, <1>6
<1>10. EarlyOf(algo, sec, f.sched.ctx, n) = EarlyOf(algo, sec, e.sched.ctx, n)
  BY <1>2, <1>6, EarlyStays
<1>11. Doubt(hs[4], f.sched.ctx, n) <=> Doubt(hs[4], e.sched.ctx, n)
  BY <1>2, <1>6, DoubtStays
<1>12. ee.early => /\ ~Doubt(hs[4], f.sched.ctx, n)
                   /\ early = EarlyOf(algo, hs[4], f.sched.ctx, n)
  BY <1>1, <1>10, <1>11
<1>13. Told(f, early, hs, algo, f.sched.ctx, n) /\ Sure(hs, f.sched.ctx, n)
  BY <1>1, <1>2, <1>3, <1>6, <1>12 DEF Told, Sure
<1>14. Says(f, n)
  BY <1>3, <1>5, <1>7, <1>8, <1>13 DEF Says, Speaks
<1>15. Signs(f)
  BY <1>1, <1>3, <1>5, <1>9, <1>14 DEF Signs
<1> QED
  BY <1>3, <1>15

\* The exporter secret comes from the messages up to the server's Finished.
LEMMA KeysOver ==
  ASSUME NEW e, ServerEnd(e), Signs(e), NEW e1, e1 = SendFinished(e),
         NEW e2, e2 = ApplicationKeys(e1)
  PROVE  ServerEnd(e2) /\ AwaitsEnd(e2)
<1> DEFINE fin == [mt |-> "FIN", mac |-> VerifyData(e.sched, e.enc.secret)]
           hs == ServerHs(e)
           algo == e.sched.algos[1]
           k == Extract(e1.sched, Zero)
           z == Joined(e1.sched, Zero)
           key == SetupTraffic(e1.cs[1], Derive(k, "s_ap_traffic"), 3)
<1>1. PICK n \in 2..Len(e.sched.ctx) : Says(e, n) /\ ServerHs(e)[4] = e.sched.secret
  BY DEF Signs
<1>2. fin.mt = "FIN"
  OBVIOUS
<1>3. Hashed(fin).mt = "FIN"
  <2>1. MessageTyped(fin)
    BY DEF MessageTyped
  <2> HIDE DEF fin
  <2> QED
    BY <1>2, <2>1, HashedIs
<1>4. e1 = Push(e, fin)
  BY DEF SendFinished
<1> HIDE DEF fin
<1>5. /\ ServerEnd(e1) /\ e1.sched = Update(e.sched, fin)
      /\ ServerHs(e1) = ServerHs(e) /\ e1.cs = e.cs /\ e1.isPsk = e.isPsk
      /\ e1.ech.accepted = e.ech.accepted /\ e1.alpn = e.alpn /\ e1.expEarly = e.expEarly
  BY <1>4, ServerPushed
<1>6. /\ Says(e1, n) /\ n \in 2..Len(e1.sched.ctx) /\ e1.sched.secret = e.sched.secret
      /\ e1.sched.algos = e.sched.algos /\ e1.sched.ctx = Append(e.sched.ctx, Hashed(fin))
  <2>1. Says(e, n)
    BY <1>1
  <2>2. Says(e1, n) /\ n \in 2..Len(e1.sched.ctx) /\ e1.sched.secret = e.sched.secret
    BY <1>4, <2>1, SaysPushed
  <2>3. Schedule(e.sched)
    BY <2>1 DEF Says, Speaks
  <2>4. /\ e1.sched.algos = e.sched.algos /\ e1.sched.ctx = Append(e.sched.ctx, Hashed(fin))
    BY <1>5, <2>3, UpdateIs
  <2> QED
    BY <2>2, <2>4
<1>7. Schedule(e1.sched)
  BY <1>6 DEF Says, Speaks
<1>8. k = Extract(e1.sched, Zero) /\ key = SetupTraffic(e1.cs[1], Derive(k, "s_ap_traffic"), 3)
  OBVIOUS
<1> HIDE DEF k
<1>9. /\ Schedule(k) /\ k.ctx = e1.sched.ctx /\ k.algos = e1.sched.algos
      /\ k.secret = Append(e1.sched.secret, z)
  BY <1>7, <1>8, Extracted
<1>10. z = <<algo, Zero>>
  BY <1>6 DEF Joined
<1>11. DOMAIN key = {"epoch", "secret", "aead", "seq"}
  BY SetupIs
<1> HIDE DEF key, z
<1>12. /\ Same(e1, e2, {"sched", "enc", "pendApp", "exp", "asserts"}) /\ e2.sched = k /\ e2.enc = key
       /\ e2.exp = Derive(k, "exp_master")
  BY <1>5, <1>8 DEF ApplicationKeys, Same, ServerEnd, ServerEndFields, k
<1>13. /\ e2.pend = e1.pend /\ e2.cs = e1.cs /\ e2.isPsk = e1.isPsk /\ e2.dec = e1.dec
       /\ e2.ech = e1.ech /\ e2.alpn = e1.alpn /\ e2.expEarly = e1.expEarly
  BY <1>5, <1>12 DEF Same, ServerEnd, ServerEndFields
<1>14. ServerEnd(e2)
  BY <1>5, <1>11, <1>12, <1>13 DEF Same, ServerEnd
<1>15. ServerHs(e2) = ServerHs(e1) /\ ServerHs(e2) = hs
  BY <1>5, <1>13 DEF ServerHs
<1>16. Says(e2, n) /\ n \in 2..Len(e2.sched.ctx)
  <2>1. /\ Schedule(e2.sched) /\ e2.sched.ctx = e1.sched.ctx /\ e2.sched.algos = e1.sched.algos
        /\ e2.ech.accepted = e1.ech.accepted
    BY <1>9, <1>12, <1>13
  <2>2. SameWords(e1, e2)
    BY <1>13, <1>15 DEF SameWords
  <2>3. Says(e2, n)
    BY <1>6, <2>1, <2>2, SaysSame
  <2> QED
    BY <1>6, <2>1, <2>3
<1> DEFINE ctx == k.ctx
           p == Len(ctx)
<1>17. /\ p = Len(e.sched.ctx) + 1 /\ Len(e.sched.ctx) \in Nat /\ ctx[p] = Hashed(fin) /\ IsSeq(ctx)
  <2>1. IsSeq(e.sched.ctx) /\ ctx = Append(e.sched.ctx, Hashed(fin))
    BY <1>1, <1>6, <1>9 DEF Says, Speaks, Schedule
  <2> QED
    BY <2>1, AppendIs
<1>18. Ended(e2, hs, algo, ctx)
  <2>1. SubSeq(ctx, 1, p) = ctx
    BY <1>17, WholeFront
  <2>2. e2.exp = <<"derived", "exp_master", k.algos[1], k.secret, ctx>>
    BY <1>12 DEF Derive, DeriveFrom
  <2>3. k.secret = Append(hs[4], <<algo, Zero>>) /\ k.algos[1] = algo
    BY <1>1, <1>6, <1>9, <1>10
  <2> HIDE DEF hs, algo, ctx
  <2>4. e2.exp = ExpOf(algo, hs[4], ctx, p)
    BY <2>1, <2>2, <2>3 DEF ExpOf
  <2>5. p \in 1..Len(ctx) /\ ctx[p].mt = "FIN" /\ \A i \in p + 1..Len(ctx) : ctx[i].mt # "FIN"
    BY <1>3, <1>17
  <2> HIDE DEF p
  <2> QED
    BY <2>4, <2>5 DEF Ended
<1>19. AwaitsEnd(e2)
  <2>1. e2.sched.ctx = ctx /\ e2.sched.algos[1] = algo
    BY <1>6, <1>9, <1>12
  <2> HIDE DEF hs, algo, ctx
  <2> QED
    BY <1>15, <1>16, <1>18, <2>1 DEF AwaitsEnd
<1> QED
  BY <1>14, <1>19

\* What is waited for next.
LEMMA EndAwaited ==
  ASSUME NEW e, ServerEnd(e), AwaitsEnd(e), NEW cfg, NEW f, f = AwaitClient(cfg, e)
  PROVE  ServerEnd(f) /\ ServerStory(f) /\ f.st \in EndStates
<1> DEFINE key == SetupTraffic(e.cs[1], e.pend[1], 2)
<1>1. key.secret = e.pend[1] /\ DOMAIN key = {"epoch", "secret", "aead", "seq"}
  BY SetupIs
<1> HIDE DEF key
<1>2. /\ Same(e, f, {"dec", "pend", "st"}) /\ f.st \in EndStates
      /\ \/ /\ e.pend # <<>> /\ f.dec = key /\ f.pend = <<>> /\ f.st = "EXPECT_FINISHED"
         \/ /\ f.dec = e.dec /\ f.pend = e.pend
            /\ f.pend # <<>> <=> f.st = "EXPECT_END_OF_EARLY_DATA"
  <2>1. {"dec", "pend", "st"} \subseteq DOMAIN e
    BY DEF ServerEnd, ServerEndFields
  <2>2. CASE e.pend # <<>> /\ cfg.omitEoed
    <3>1. f = [e EXCEPT !.dec = key, !.pend = <<>>, !.st = "EXPECT_FINISHED"]
      BY <2>2 DEF AwaitClient, key
    <3> QED
      BY <2>1, <2>2, <3>1 DEF Same, EndStates
  <2>3. CASE e.pend # <<>> /\ ~cfg.omitEoed
    BY <2>1, <2>3 DEF AwaitClient, Same, EndStates
  <2>4. CASE e.pend = <<>>
    BY <2>1, <2>4 DEF AwaitClient, Same, EndStates
  <2> QED
    BY <2>2, <2>3, <2>4
<1>3. /\ f.cs = e.cs /\ f.isPsk = e.isPsk /\ f.sched = e.sched /\ f.enc = e.enc
      /\ f.ech = e.ech /\ f.alpn = e.alpn /\ f.expEarly = e.expEarly /\ f.exp = e.exp
  BY <1>2 DEF Same, ServerEnd, ServerEndFields
<1>4. ServerHs(f) = ServerHs(e)
  BY <1>1, <1>2 DEF ServerHs
<1>5. ServerEnd(f)
  BY <1>1, <1>2, <1>3 DEF Same, ServerEnd
<1>6. PICK n \in 2..Len(e.sched.ctx) :
         Says(e, n) /\ Ended(e, ServerHs(e), e.sched.algos[1], e.sched.ctx)
  BY DEF AwaitsEnd
<1>7. Schedule(f.sched)
  BY <1>3, <1>6 DEF Says, Speaks
<1>8. Says(f, n)
  <2>1. SameWords(e, f)
    BY <1>3, <1>4 DEF SameWords
  <2> QED
    BY <1>3, <1>6, <1>7, <2>1, SaysSame
<1>9. Ended(f, ServerHs(f), f.sched.algos[1], f.sched.ctx)
  BY <1>3, <1>4, <1>6 DEF Ended
<1>10. AwaitsEnd(f)
  BY <1>3, <1>8, <1>9 DEF AwaitsEnd
<1>11. f.pend # <<>> <=> f.st = "EXPECT_END_OF_EARLY_DATA"
  BY <1>2
<1>12. f.st \in EndStates
  BY <1>2
<1> QED
  BY <1>5, <1>10, <1>11, <1>12 DEF ServerStory, ServerHelloStates, EndStates

LEMMA FlightOver ==
  ASSUME NEW e, ServerEnd(e), Signs(e), NEW cfg, NEW now0
  PROVE  ServerWorks(FinishFlight(cfg, e, now0))
<1> DEFINE e1 == SendFinished(e)
           e2 == ApplicationKeys(e1)
           e3 == AwaitClient(cfg, e2)
           nst == SessionTicket(cfg, e3, ResumptionAhead(cfg, e3), now0)
           e4 == EmitCopies(e3, nst, e3.tickets)
           e5 == SendTickets(cfg, e3, now0)
<1>1. FinishFlight(cfg, e, now0) = e5
  BY DEF FinishFlight
<1>2. ServerEnd(e2) /\ AwaitsEnd(e2)
  BY KeysOver
<1> HIDE DEF e2
<1>3. ServerEnd(e3) /\ ServerStory(e3) /\ e3.st \in EndStates
  BY <1>2, EndAwaited
<1>4. Same(e4, e5, {"issued", "asserts", "ret"})
  BY DEF SendTickets, Same
<1>5. Same(e3, e4, {"enc", "out"}) /\ (e3.enc # e4.enc => DOMAIN e4.enc = DOMAIN e3.enc)
  <2> HIDE DEF e3, nst
  <2>1. {"enc", "out"} \subseteq DOMAIN e3
    BY <1>3 DEF ServerEnd, ServerEndFields
  <2> QED
    BY <2>1 DEF EmitCopies, Same
<1> HIDE DEF nst, e3, e4, e5
<1>6. Same(e3, e5, {"enc", "out", "issued", "asserts", "ret"}) /\ DOMAIN e5.enc = DOMAIN e3.enc
  BY <1>3, <1>4, <1>5 DEF Same, ServerEnd, ServerEndFields
<1>7. /\ e5.cs = e3.cs /\ e5.isPsk = e3.isPsk /\ e5.sched = e3.sched /\ e5.dec = e3.dec
      /\ e5.ech = e3.ech /\ e5.alpn = e3.alpn /\ e5.expEarly = e3.expEarly /\ e5.exp = e3.exp
      /\ e5.st = e3.st /\ e5.pend = e3.pend
  BY <1>3, <1>6 DEF Same, ServerEnd, ServerEndFields
<1>8. ServerEnd(e5)
  BY <1>3, <1>6, <1>7 DEF Same, ServerEnd
<1>9. ServerStory(e5)
  BY <1>3, <1>7, ServerCarried
<1> QED
  BY <1>1, <1>3, <1>7, <1>8, <1>9 DEF ServerWorks, EndStates

LEMMA SignedOver ==
  ASSUME NEW e, ServerEnd(e), Signs(e), e.st # "POST_HANDSHAKE", NEW cfg, NEW signs, NEW now0
  PROVE  ServerWorks(SignAndFinish(cfg, e, signs, now0))
<1> DEFINE cv == Push(e, [mt |-> "CV", mac |-> SignData(e.sched, "server")])
           later == [e EXCEPT !.st = "GENERATING_CERTIFICATE_VERIFY", !.ret = "ASYNC_OPERATION"]
<1>1. ServerWorks(FinishFlight(cfg, cv, now0))
  <2>1. ServerEnd(cv) /\ Signs(cv)
    BY SignsOn
  <2> HIDE DEF cv
  <2> QED
    BY <2>1, FlightOver
<1>2. ServerWorks(later)
  <2>1. Same(e, later, {"st", "ret"}) /\ later.st = "GENERATING_CERTIFICATE_VERIFY"
    BY DEF Same, ServerEnd, ServerEndFields
  <2> HIDE DEF later
  <2>2. /\ later.cs = e.cs /\ later.isPsk = e.isPsk /\ later.sched = e.sched /\ later.dec = e.dec
        /\ later.ech = e.ech /\ later.alpn = e.alpn /\ later.expEarly = e.expEarly
        /\ later.pend = e.pend /\ later.enc = e.enc
    BY <2>1 DEF Same, ServerEnd, ServerEndFields
  <2>3. ServerEnd(later)
    BY <2>1, <2>2 DEF Same, ServerEnd
  <2>4. PICK n \in 2..Len(e.sched.ctx) : Says(e, n) /\ ServerHs(e)[4] = e.sched.secret
    BY DEF Signs
  <2>5. ServerHs(later) = ServerHs(e)
    BY <2>2 DEF ServerHs
  <2>6. Says(later, n)
    BY <2>2, <2>4, <2>5, SaysSame DEF SameWords, Says, Speaks
  <2>7. Signs(later)
    BY <2>2, <2>4, <2>5, <2>6 DEF Signs
  <2> QED
    BY <2>1, <2>3, <2>7 DEF ServerWorks, ServerStory, ServerHelloStates, EndStates
<1>3. ServerWorks(Fail(e, "INTERNAL_ERROR"))
  BY ServerGivesUp
<1> HIDE DEF cv, later
<1> QED
  BY <1>1, <1>2, <1>3 DEF SignAndFinish, cv, later

LEMMA FlightGreeted ==
  ASSUME NEW e, ServerEnd(e), Greets(e), e.st # "POST_HANDSHAKE", NEW cfg, NEW ch, NEW signs,
         NEW now0
  PROVE  ServerWorks(SendServerFlight(cfg, e, ch, signs, now0))
<1> DEFINE ee == [mt |-> "EE", name |-> e.name # "none", alpn |-> e.alpn,
                  early |-> e.pend # <<>>,
                  retryConfigs |-> e.ech.offered /\ ~e.ech.accepted /\ cfg.opener # "none"]
           s1 == Push(e, ee)
           s2 == IF cfg.clientAuth THEN Push(s1, [mt |-> "CR"]) ELSE s1
           s3 == Push(s2, [mt |-> "CERT", has |-> TRUE])
<1>1. SendServerFlight(cfg, e, ch, signs, now0) =
         IF e.isPsk THEN FinishFlight(cfg, s1, now0) ELSE SignAndFinish(cfg, s3, signs, now0)
  BY DEF SendServerFlight
<1>2. ee.mt = "EE" /\ ee.alpn = e.alpn
  OBVIOUS
<1>3. ee.early => e.pend # <<>>
  <2> DEFINE b == e.pend # <<>>
  <2>1. ee.early = b
    OBVIOUS
  <2> HIDE DEF ee, b
  <2>2. ee.early => b
    BY <2>1, Zenon
  <2> QED
    BY <2>2 DEF b
<1>4. ~ee.early => e.pend = <<>>
  <2> DEFINE b == e.pend # <<>>
  <2>1. ee.early = b
    OBVIOUS
  <2> HIDE DEF ee, b
  <2>2. ~ee.early => ~b
    BY <2>1, Zenon
  <2> QED
    BY <2>2 DEF b
<1> HIDE DEF ee
<1>5. ServerEnd(s1) /\ Signs(s1) /\ Same(e, s1, {"enc", "out", "sched"})
  BY <1>2, <1>3, <1>4, ExtensionsSaid
<1>6. s1.st = e.st
  BY <1>5 DEF Same, ServerEnd, ServerEndFields
<1> HIDE DEF s1
<1>7. ServerEnd(s2) /\ Signs(s2) /\ s2.st = s1.st
  <2> DEFINE x == Push(s1, [mt |-> "CR"])
  <2>1. ServerEnd(x) /\ Signs(x) /\ x.st = s1.st
    BY <1>5, SignsOn, ServerPushed
  <2> HIDE DEF x
  <2>2. s2 = IF cfg.clientAuth THEN x ELSE s1
    BY DEF x
  <2> QED
    BY <1>5, <2>1, <2>2
<1> HIDE DEF s2
<1>8. ServerEnd(s3) /\ Signs(s3) /\ s3.st = s2.st
  BY <1>7, SignsOn, ServerPushed
<1> HIDE DEF s3
<1>9. ServerWorks(FinishFlight(cfg, s1, now0))
  BY <1>5, FlightOver
<1>10. ServerWorks(SignAndFinish(cfg, s3, signs, now0))
  BY <1>6, <1>7, <1>8, SignedOver
<1> QED
  BY <1>1, <1>9, <1>10

\* The server about to send ServerHello, with the ClientHello that counts hashed.
Answering(e) ==
    /\ ServerEnd(e) /\ e.st \in ServerHelloStates
    /\ Schedule(e.sched) /\ Len(e.sched.secret) = 1 /\ Len(e.sched.ctx) > 0
    /\ e.cs = <<e.cs[1]>>
    /\ \/ e.ech.accepted = TRUE /\ Inside(Last(e.sched.ctx))
       \/ e.ech.accepted = FALSE /\ ~Inside(Last(e.sched.ctx))
    /\ e.pend # <<>> =>
          /\ e.sched.secret[1][2] # Zero /\ ~Decoy(Last(e.sched.ctx))
          /\ e.expEarly = <<"derived", "e_exp_master", e.sched.algos[1], e.sched.secret,
                            e.sched.ctx>>
    /\ e.pend = <<>> => e.expEarly = <<>>

\* With the keys of ServerHello the server e has become f.
LEMMA GreetsOnceKeyed ==
  ASSUME NEW e, Answering(e), NEW m, MessageTyped(m), m.mt = "SH", m.cs = e.cs[1], m.psk = e.isPsk,
         NEW f, NEW own, Keyed(e.sched, m, f.sched, own), ServerHs(f) = own,
         f.cs = e.cs, f.isPsk = e.isPsk, f.ech.accepted = e.ech.accepted,
         f.expEarly = e.expEarly, f.pend # <<>> => e.pend # <<>>, f.pend = <<>> => e.pend = <<>>
  PROVE  Greets(f)
<1> DEFINE t == f.sched
           n == Len(t.ctx)
<1>1. /\ Schedule(t) /\ t.algos = e.sched.algos
      /\ n \in 2..Len(t.ctx) /\ t.ctx[n] = Hashed(m) /\ t.ctx[n - 1] = Last(e.sched.ctx)
      /\ t.secret[1] = e.sched.secret[1]
      /\ SubSeq(t.ctx, 1, n - 1) = e.sched.ctx /\ <<t.secret[1]>> = e.sched.secret
      /\ own = HsSecret(t.algos[1], t.secret, t.ctx, n)
      /\ own[4] = t.secret
  BY DEF Keyed
<1>2. Hashed(m).cs = m.cs /\ Hashed(m).psk = m.psk
  BY HashedIs
<1>0. n = Len(f.sched.ctx) /\ t = f.sched
  OBVIOUS
<1> HIDE DEF n, t
<1>3. Opening(f, own, t.algos[1], t.ctx, n)
  <2>1. own = HsSecret(t.algos[1], own[4], t.ctx, n)
    BY <1>1
  <2>2. f.cs = <<t.ctx[n].cs>> /\ f.isPsk = t.ctx[n].psk
    BY <1>1, <1>2 DEF Answering
  <2>3. \/ f.ech.accepted = TRUE /\ Inside(t.ctx[n - 1])
        \/ f.ech.accepted = FALSE /\ ~Inside(t.ctx[n - 1])
    BY <1>1 DEF Answering
  <2> QED
    BY <1>1, <2>1, <2>2, <2>3 DEF Opening
<1>4. ASSUME f.pend # <<>>
      PROVE  /\ ~Doubt(t.secret, t.ctx, n)
             /\ f.expEarly = EarlyOf(t.algos[1], t.secret, t.ctx, n)
  <2>1. ~Doubt(t.secret, t.ctx, n)
    BY <1>1, <1>4 DEF Doubt, Answering
  <2>2. f.expEarly = <<"derived", "e_exp_master", e.sched.algos[1], e.sched.secret, e.sched.ctx>>
    BY <1>4 DEF Answering
  <2>3. f.expEarly = EarlyOf(t.algos[1], t.secret, t.ctx, n)
    BY <1>1, <2>2 DEF EarlyOf
  <2> QED
    BY <2>1, <2>3
<1>5. f.pend = <<>> => f.expEarly = <<>>
  BY DEF Answering
<1> QED
  BY <1>0, <1>1, <1>3, <1>4, <1>5 DEF Greets, Speaks

LEMMA HelloGreets ==
  ASSUME NEW e, Answering(e), NEW cfg, NEW ch, NEW ks, NEW signs, NEW now0
  PROVE  ServerWorks(SendHello(cfg, e, ch, ks, signs, now0))
<1> DEFINE bare  == ServerHelloMessage(e, FALSE, ks, e.isPsk, <<>>, ch)
           hello == Confirmed(e, bare, "sh")
           e0    == Push(e, hello)
           e1    == PushCCS(e0)
           ikm   == IF ks = <<>> THEN Zero ELSE Dhe(ks[1])
           k     == Extract(e1.sched, ikm)
           peer  == Derive(k, "c_hs_traffic")
           key   == SetupTraffic(e1.cs[1], Derive(k, "s_hs_traffic"), 2)
           open  == SetupTraffic(e1.cs[1], peer, 2)
           early == e1.pend # <<>>
           f     == HandshakeKeys(e1, ch, ks)
<1>1. SendHello(cfg, e, ch, ks, signs, now0) = SendServerFlight(cfg, f, ch, signs, now0)
  BY DEF SendHello
<1>2. MessageTyped(hello) /\ hello.mt = "SH" /\ hello.cs = e.cs[1] /\ hello.psk = e.isPsk
  <2>1. MessageTyped(hello)
    BY ServerHelloIs
  <2>2. bare.mt = "SH" /\ bare.cs = e.cs[1] /\ bare.psk = e.isPsk
        /\ {"mt", "cs", "psk", "confirm"} \subseteq DOMAIN bare
    BY DEF ServerHelloMessage
  <2> HIDE DEF bare
  <2>3. hello.mt = "SH" /\ hello.cs = e.cs[1] /\ hello.psk = e.isPsk
    BY <2>2 DEF Confirmed
  <2> QED
    BY <2>1, <2>3
<1> HIDE DEF hello
<1>3. ServerEnd(e)
  BY DEF Answering
<1>4. /\ ServerEnd(e0) /\ e0.sched = Update(e.sched, hello) /\ e0.pend = e.pend /\ e0.cs = e.cs
      /\ e0.isPsk = e.isPsk /\ e0.ech = e.ech /\ e0.expEarly = e.expEarly /\ e0.st = e.st
  BY <1>3, ServerPushed
<1> HIDE DEF e0
<1>5. Same(e0, e1, {"out", "ccs"})
  <2>1. {"enc", "out"} \subseteq DOMAIN e0
    BY <1>4 DEF ServerEnd, ServerEndFields
  <2> QED
    BY <2>1, PushCCSIs
<1> HIDE DEF e1
<1>6. /\ ServerEnd(e1) /\ e1.sched = Update(e.sched, hello) /\ e1.pend = e.pend /\ e1.cs = e.cs
      /\ e1.isPsk = e.isPsk /\ e1.ech = e.ech /\ e1.expEarly = e.expEarly /\ e1.st = e.st
  BY <1>4, <1>5 DEF Same, ServerEnd, ServerEndFields
<1>7. /\ Same(e1, f, {"sched", "enc", "asserts", "ech", "pend", "dec", "skipped"})
      /\ f.sched = k /\ f.enc = key /\ f.ech = [e1.ech EXCEPT !.on = FALSE]
      /\ f.pend = (IF early THEN <<peer>> ELSE <<>>) /\ f.dec = (IF early THEN e1.dec ELSE open)
  <2>1. {"sched", "enc", "asserts", "ech", "pend", "dec", "skipped"} \subseteq DOMAIN e1
    BY <1>6 DEF ServerEnd, ServerEndFields
  <2> HIDE DEF early
  <2> QED
    BY <2>1 DEF HandshakeKeys, Same, early
<1>8. /\ open.secret = peer /\ DOMAIN open = {"epoch", "secret", "aead", "seq"}
      /\ DOMAIN key = {"epoch", "secret", "aead", "seq"}
  BY SetupIs
<1>9. k = Extract(Update(e.sched, hello), ikm)
  BY <1>6
<1>9a. peer = Derive(k, "c_hs_traffic")
  OBVIOUS
<1>9b. <<peer>> # <<>> /\ <<peer>>[1] = peer
  BY SingleIs
<1> HIDE DEF ikm, k, key, open, f
<1>10. Keyed(e.sched, hello, k, peer)
  <2>1. Schedule(e.sched) /\ Len(e.sched.secret) = 1 /\ Len(e.sched.ctx) > 0
    BY DEF Answering
  <2> HIDE DEF peer
  <2>2. Keyed(e.sched, hello, k, Derive(k, "c_hs_traffic"))
    BY <1>9, <2>1, HelloSecretIs
  <2> QED
    BY <1>9a, <2>2
<1> HIDE DEF peer
<1>11. ServerHs(f) = peer /\ (f.pend # <<>> => e.pend # <<>>) /\ (f.pend = <<>> => e.pend = <<>>)
  <2>1. CASE early
    <3>1. f.pend = <<peer>>
      BY <1>7, <2>1
    <3> QED
      BY <1>6, <1>9b, <2>1, <3>1 DEF ServerHs
  <2>2. CASE ~early
    <3>1. f.pend = <<>> /\ f.dec = open
      BY <1>7, <2>2
    <3> QED
      BY <1>6, <1>8, <2>2, <3>1 DEF ServerHs
  <2> QED
    BY <2>1, <2>2
<1>12. /\ f.cs = e.cs /\ f.isPsk = e.isPsk /\ f.expEarly = e.expEarly /\ f.st = e.st
  BY <1>6, <1>7 DEF Same, ServerEnd, ServerEndFields
<1>13. f.ech.accepted = e.ech.accepted /\ DOMAIN f.ech = DOMAIN e1.ech
  BY <1>6, <1>7 DEF ServerEnd
<1>14. ServerEnd(f)
  <2>1. DOMAIN f = DOMAIN e1 /\ (f.dec = open \/ f.dec = e1.dec)
    BY <1>7 DEF Same
  <2> QED
    BY <1>6, <1>7, <1>8, <1>13, <2>1 DEF ServerEnd
<1>15. Greets(f)
  <2>1. Keyed(e.sched, hello, f.sched, peer)
    BY <1>7, <1>10
  <2> QED
    BY <1>2, <1>11, <1>12, <1>13, <2>1, GreetsOnceKeyed
<1>16. f.st # "POST_HANDSHAKE"
  BY <1>12 DEF Answering, ServerHelloStates
<1>17. ServerWorks(SendServerFlight(cfg, f, ch, signs, now0))
  BY <1>14, <1>15, <1>16, FlightGreeted
<1> QED
  BY <1>1, <1>17

\* The server that has read a ClientHello: the early secret is extracted, or is
\* still to be.
Reading(e, ch) ==
    /\ ServerEnd(e) /\ e.st \in ServerHelloStates /\ e.pend = <<>> /\ e.expEarly = <<>>
    /\ Schedule(e.sched) /\ e.cs = <<e.cs[1]>> /\ HelloTyped(ch)
    /\ \/ e.ech.accepted = TRUE /\ Inside(ch)
       \/ e.ech.accepted = FALSE /\ ~Inside(ch)

\* The PSK is not nothing, and not the one of ClientHelloOuter.
LEMMA PskIsKnown ==
  ASSUME NEW cfg, NEW s, NEW ch, NEW modes, NEW resumed, NEW now0, NEW psk,
         psk = TriedPsk(cfg, s, ch, modes, resumed, now0), psk.early
  PROVE  /\ psk.found /\ ch.early /\ ~Decoy(ch) /\ Psk(psk.secret) # Zero
         /\ resumed => Psk(psk.secret) = ExternalIkm(cfg)
<1> DEFINE p == ch.psk[1]
           t == p.id[2].id[1]
           x == [found |-> TRUE, early |-> ch.early, kx |-> <<>>, secret |-> cfg.psk[1].secret]
           fresh == ch.early /\ cfg.maxEarly # 0 /\ FreshEnough(t, p.age, now0)
           y == [found |-> TRUE, kx |-> <<t.kx>>, secret |-> t.secret, early |-> fresh]
<1>0. /\ x.found /\ x.early = ch.early /\ x.secret = cfg.psk[1].secret
      /\ y.found /\ y.early = fresh
  <2> DEFINE b == ch.early
  <2> HIDE DEF b, fresh, t
  <2> QED
    OBVIOUS
<1> HIDE DEF x, y
<1>1. NoPsk.early = FALSE
  BY DEF NoPsk
<1>2. /\ ch.psk # <<>> /\ ((~resumed /\ cfg.ticketKey # "none") \/ cfg.psk # <<>>)
      /\ psk = ServerPsk(cfg, s, ch, now0)
  BY <1>1 DEF TriedPsk
<1>3. \/ cfg.psk # <<>> /\ p.id = <<"external", cfg.psk[1].id>> /\ psk = x
      \/ cfg.psk = <<>> /\ p.id[1] = "ticket" /\ psk = y
  BY <1>1, <1>2 DEF ServerPsk, x, y
<1>4. p.id # <<"random">>
  BY <1>3
<1>5. ~Decoy(ch)
  BY <1>2, <1>4 DEF Decoy
<1>6. Psk(psk.secret) # Zero
  BY DEF Psk, Zero
<1>7. CASE cfg.psk # <<>> /\ psk = x
  <2>1. psk.found /\ psk.early = ch.early /\ psk.secret = cfg.psk[1].secret
    BY <1>0, <1>7, Zenon
  <2>2. ch.early
    BY <2>1, Zenon
  <2> QED
    BY <1>5, <1>6, <1>7, <2>1, <2>2 DEF ExternalIkm
<1>8. CASE cfg.psk = <<>> /\ psk = y
  <2>1. psk.found
    BY <1>0, <1>8, Zenon
  <2>2. psk.early = fresh
    BY <1>0, <1>8, Zenon
  <2>3. ch.early
    <3>1. fresh
      <4> HIDE DEF fresh
      <4> QED
        BY <2>2, Zenon
    <3> QED
      BY <3>1
  <2>4. ~resumed
    BY <1>2, <1>8
  <2> QED
    BY <1>5, <1>6, <2>1, <2>3, <2>4
<1> QED
  BY <1>3, <1>7, <1>8

\* The early secret is there, and is no guess if early data is to be read under it.
LEMMA AcceptedWith ==
  ASSUME NEW cfg, NEW e, NEW ch, Reading(e, ch), Len(e.sched.secret) = 1, NEW psk,
         psk.early => e.sched.secret[1][2] # Zero /\ ~Decoy(ch),
         NEW ks, NEW modes, NEW dhe, NEW signs, NEW now0
  PROVE  ServerWorks(AcceptWith(cfg, e, ch, ks, psk, modes, dhe, signs, now0))
<1> DEFINE alert == AcceptAlert(cfg, e, ch, ks, psk, dhe)
           tests == <<
             <<BinderAlert(cfg, e, ch, psk) # "none", "DECRYPT_ERROR">>,
             <<cfg.psk # <<>> /\ ~psk.found, "UNKNOWN_PSK_IDENTITY">>,
             <<dhe /\ ks = <<>>, "HANDSHAKE_FAILURE">> >>
           x1 == [e EXCEPT !.sched = Update(@, ch), !.isPsk = psk.found,
                           !.share = IF dhe THEN ks ELSE psk.kx,
                           !.tickets = TicketCount(cfg, ch, psk.found, modes)]
           x2 == OpenEarly(cfg, x1, psk)
           key == SetupTraffic(x1.cs[1], Derive(x1.sched, "c_e_traffic"), 1)
           exp == Derive(x1.sched, "e_exp_master")
           keyed == [x1 EXCEPT !.pend = <<<<>>>>, !.expEarly = exp, !.dec = key]
<1>1. AcceptWith(cfg, e, ch, ks, psk, modes, dhe, signs, now0) =
         IF alert # "none" THEN Fail(e, alert)
         ELSE SendHello(cfg, x2, ch, IF dhe THEN ks ELSE <<>>, signs, now0)
  BY DEF AcceptWith
<1>2. alert = FirstAlert(tests)
  BY DEF AcceptAlert
<1>3. DOMAIN tests = 1..3
      /\ \A i \in 1..3 : tests[i][2] \notin {"IN_PROGRESS", "OK", "ASYNC_OPERATION"}
  OBVIOUS
<1> HIDE DEF tests, alert
<1>4. alert \notin {"IN_PROGRESS", "OK", "ASYNC_OPERATION"} \/ alert = "none"
  BY <1>2, <1>3, AlertIs
<1>5. /\ ServerEnd(e) /\ e.st \in ServerHelloStates /\ e.pend = <<>> /\ e.expEarly = <<>>
      /\ Schedule(e.sched) /\ e.cs = <<e.cs[1]>> /\ HelloTyped(ch)
      /\ \/ e.ech.accepted = TRUE /\ Inside(ch)
         \/ e.ech.accepted = FALSE /\ ~Inside(ch)
  BY DEF Reading
<1>6. /\ Same(e, x1, {"sched", "isPsk", "share", "tickets"}) /\ x1.sched = Update(e.sched, ch)
  BY <1>5 DEF Same, ServerEnd, ServerEndFields
<1>7. /\ DOMAIN key = {"epoch", "secret", "aead", "seq"}
  BY SetupIs
<1>8. exp = <<"derived", "e_exp_master", x1.sched.algos[1], x1.sched.secret, x1.sched.ctx>>
  BY DEF Derive, DeriveFrom
<1> HIDE DEF key, exp, x1
<1>9. /\ ServerEnd(x1) /\ x1.st = e.st /\ x1.pend = e.pend /\ x1.expEarly = e.expEarly
      /\ x1.cs = e.cs /\ x1.ech = e.ech
  BY <1>5, <1>6 DEF Same, ServerEnd, ServerEndFields
<1>10. /\ Schedule(x1.sched) /\ x1.sched.ctx = Append(e.sched.ctx, Hashed(ch))
       /\ x1.sched.secret = e.sched.secret
  BY <1>5, <1>6, UpdateIs
<1>11. Len(x1.sched.ctx) > 0 /\ Last(x1.sched.ctx) = Hashed(ch)
  <2>1. IsSeq(e.sched.ctx)
    BY <1>5 DEF Schedule
  <2> DEFINE h == Hashed(ch)
  <2> HIDE DEF h
  <2>2. Len(Append(e.sched.ctx, h)) = Len(e.sched.ctx) + 1 /\ Len(e.sched.ctx) \in Nat
        /\ Last(Append(e.sched.ctx, h)) = h
    BY <2>1, AppendIs
  <2> QED
    BY <1>10, <2>2 DEF h
<1>12. (Inside(Hashed(ch)) <=> Inside(ch)) /\ (Decoy(Hashed(ch)) <=> Decoy(ch))
  BY <1>5, HelloHashedIs
<1>13. x2 = (IF ~(psk.early /\ cfg.maxEarly # 0) THEN x1 ELSE keyed)
  BY DEF OpenEarly, key, exp
<1>14. <<<<>>>> # <<>>
  BY SingleIs
<1>15. /\ Same(x1, keyed, {"pend", "expEarly", "dec"}) /\ keyed.pend = <<<<>>>>
       /\ keyed.expEarly = exp /\ keyed.dec = key
  BY <1>9 DEF Same, ServerEnd, ServerEndFields
<1> HIDE DEF x2, keyed
<1>16. /\ keyed.enc = x1.enc /\ keyed.ech = x1.ech /\ keyed.st = x1.st /\ keyed.cs = x1.cs
       /\ keyed.sched = x1.sched
  BY <1>9, <1>15 DEF Same, ServerEnd, ServerEndFields
<1>17. ServerEnd(keyed)
  BY <1>7, <1>9, <1>15, <1>16 DEF Same, ServerEnd
<1>18. /\ x1.cs = <<x1.cs[1]>> /\ Len(x1.sched.secret) = 1 /\ x1.st \in ServerHelloStates
       /\ \/ x1.ech.accepted = TRUE /\ Inside(Last(x1.sched.ctx))
          \/ x1.ech.accepted = FALSE /\ ~Inside(Last(x1.sched.ctx))
  BY <1>5, <1>9, <1>10, <1>11, <1>12
<1>19. Answering(x1)
  BY <1>5, <1>9, <1>10, <1>11, <1>18 DEF Answering
<1>20. ASSUME psk.early PROVE Answering(keyed)
  <2>1. keyed.sched.secret[1][2] # Zero /\ ~Decoy(Last(keyed.sched.ctx))
    BY <1>10, <1>11, <1>12, <1>16, <1>20
  <2>2. keyed.pend # <<>> /\ keyed.expEarly = exp
    BY <1>14, <1>15
  <2> QED
    BY <1>8, <1>10, <1>11, <1>16, <1>17, <1>18, <2>1, <2>2 DEF Answering
<1>21. Answering(x2)
  BY <1>13, <1>19, <1>20
<1>22. ServerWorks(SendHello(cfg, x2, ch, IF dhe THEN ks ELSE <<>>, signs, now0))
  BY <1>21, HelloGreets
<1>23. alert # "none" => ServerWorks(Fail(e, alert))
  BY <1>4, <1>5, ServerGivesUp DEF ServerHelloStates
<1> QED
  BY <1>1, <1>22, <1>23

\* Whether the early secret is still to be extracted.
Prepared(cfg, e, ch, resumed) ==
    /\ resumed => /\ Len(e.sched.secret) = 1
                  /\ ch.early => e.sched.secret[1][2] = ExternalIkm(cfg)
    /\ ~resumed => e.sched.secret = <<>>

LEMMA AcceptWorks ==
  ASSUME NEW cfg, NEW e, NEW ch, Reading(e, ch), NEW resumed, Prepared(cfg, e, ch, resumed),
         NEW ks, NEW signs, NEW now0
  PROVE  ServerWorks(Accept(cfg, e, ch, ks, resumed, signs, now0))
<1> DEFINE modes == ch.modes \ (IF cfg.dheOnly THEN {"psk"} ELSE {})
           psk == TriedPsk(cfg, e, ch, modes, resumed, now0)
           ikm == IF psk.found THEN Psk(psk.secret) ELSE Zero
           extracted == [e EXCEPT !.sched = Extract(@, ikm)]
           x == IF resumed THEN e ELSE extracted
           dhe == ~psk.found \/ "psk" \notin modes
<1>1. Accept(cfg, e, ch, ks, resumed, signs, now0) =
         AcceptWith(cfg, x, ch, ks, psk, modes, dhe, signs, now0)
  BY DEF Accept
<1>2. ASSUME psk.early
      PROVE  /\ ~Decoy(ch) /\ ikm # Zero
             /\ resumed => ch.early /\ ExternalIkm(cfg) # Zero
  <2> HIDE DEF modes
  <2>1. psk = TriedPsk(cfg, e, ch, modes, resumed, now0)
    OBVIOUS
  <2> HIDE DEF psk
  <2>2. /\ psk.found /\ ch.early /\ ~Decoy(ch) /\ Psk(psk.secret) # Zero
        /\ resumed => Psk(psk.secret) = ExternalIkm(cfg)
    BY <1>2, <2>1, PskIsKnown
  <2> QED
    BY <2>2
<1> HIDE DEF ikm, psk, modes, dhe
<1>3. ServerEnd(e) /\ Schedule(e.sched)
  BY DEF Reading
<1>4. Same(e, extracted, {"sched"}) /\ extracted.sched = Extract(e.sched, ikm)
  BY <1>3 DEF Same, ServerEnd, ServerEndFields
<1> HIDE DEF extracted
<1>5. ASSUME ~resumed
      PROVE  /\ Reading(extracted, ch) /\ Len(extracted.sched.secret) = 1
             /\ extracted.sched.secret[1][2] = ikm
  <2>1. e.sched.secret = <<>>
    BY <1>5 DEF Prepared
  <2>2. /\ Schedule(extracted.sched) /\ Len(extracted.sched.secret) = 1
        /\ extracted.sched.secret[1][2] = ikm
    BY <1>3, <1>4, <2>1, ExtractIs DEF Schedule
  <2>3. Reading(extracted, ch)
    <3>1. /\ extracted.st = e.st /\ extracted.pend = e.pend /\ extracted.expEarly = e.expEarly
          /\ extracted.cs = e.cs /\ extracted.ech = e.ech /\ ServerEnd(extracted)
      BY <1>3, <1>4 DEF Same, ServerEnd, ServerEndFields
    <3> QED
      BY <2>2, <3>1 DEF Reading
  <2> QED
    BY <2>2, <2>3
<1>6. CASE resumed
  <2>1. x = e /\ Len(e.sched.secret) = 1 /\ (ch.early => e.sched.secret[1][2] = ExternalIkm(cfg))
    BY <1>6 DEF Prepared
  <2>2. psk.early => e.sched.secret[1][2] # Zero /\ ~Decoy(ch)
    BY <1>2, <1>6, <2>1
  <2> HIDE DEF x
  <2>3. ServerWorks(AcceptWith(cfg, e, ch, ks, psk, modes, dhe, signs, now0))
    BY <2>1, <2>2, AcceptedWith
  <2> QED
    BY <1>1, <2>1, <2>3 DEF x
<1>7. CASE ~resumed
  <2>1. x = extracted
    BY <1>7
  <2> HIDE DEF x
  <2>2. psk.early => x.sched.secret[1][2] # Zero /\ ~Decoy(ch)
    BY <1>2, <1>5, <1>7, <2>1
  <2>3. Reading(x, ch) /\ Len(x.sched.secret) = 1
    BY <1>5, <1>7, <2>1
  <2>4. ServerWorks(AcceptWith(cfg, x, ch, ks, psk, modes, dhe, signs, now0))
    BY <2>2, <2>3, AcceptedWith
  <2> QED
    BY <1>1, <2>4 DEF x
<1> QED
  BY <1>6, <1>7

LEMMA CookieRestores ==
  ASSUME NEW cfg, NEW e, NEW ch, Reading(e, ch), e.sched.secret = <<>>, NEW ks, NEW f,
         f = RestoreFromCookie(cfg, e, ch, ks), NEW resumed, resumed = TRUE
  PROVE  Reading(f, ch) /\ Prepared(cfg, f, ch, resumed)
<1> DEFINE ikm == ExternalIkm(cfg)
           old == <<ch.cookie[1].tbs.ch1>>
           bare == [e.sched EXCEPT !.ctx = old]
           t == Extract(bare, ikm)
           hrr == ServerHelloMessage(e, TRUE, IF ch.cookie[1].tbs.sent THEN ks ELSE <<>>,
                                     FALSE, ch.cookie, ch)
           s == Update(t, hrr)
<1>1. f = [e EXCEPT !.sched = s]
  BY DEF RestoreFromCookie
<1>2. ServerEnd(e) /\ Schedule(e.sched)
  BY DEF Reading
<1>3. IsSeq(old)
  BY SingleIs
<1>4. /\ {"algos", "secret", "ctx", "outer"} \subseteq DOMAIN bare /\ bare.secret = <<>>
      /\ bare.ctx = old
  BY <1>2 DEF Schedule
<1> HIDE DEF old, bare, ikm, hrr
<1>5. Schedule(t) /\ Len(t.secret) = 1 /\ t.secret[1][2] = ikm
  <2>1. IsSeq(bare.ctx) /\ IsSeq(bare.secret)
    BY <1>3, <1>4, EmptyIsSeq
  <2> QED
    BY <1>4, <2>1, ExtractIs
<1> HIDE DEF t
<1>6. Schedule(s) /\ s.secret = t.secret
  BY <1>5, UpdateIs
<1> HIDE DEF s
<1>7. Same(e, f, {"sched"}) /\ f.sched = s
  BY <1>1, <1>2 DEF Same, ServerEnd, ServerEndFields
<1>8. /\ f.st = e.st /\ f.pend = e.pend /\ f.expEarly = e.expEarly /\ f.cs = e.cs /\ f.ech = e.ech
      /\ ServerEnd(f)
  BY <1>2, <1>7 DEF Same, ServerEnd, ServerEndFields
<1>9. Reading(f, ch)
  BY <1>6, <1>7, <1>8 DEF Reading
<1>10. Len(f.sched.secret) = 1 /\ f.sched.secret[1][2] = ExternalIkm(cfg)
  BY <1>5, <1>6, <1>7 DEF ikm
<1> QED
  BY <1>9, <1>10 DEF Prepared

LEMMA RetryWorks ==
  ASSUME NEW cfg, NEW e, NEW ch, Reading(e, ch), e.sched.secret = <<>>, NEW ks
  PROVE  ServerWorks(SendRetry(cfg, e, ch, ks))
<1> DEFINE group  == FirstOf(ch.groups, ToSet(cfg.groups))
           hashed == Update(e.sched, ch)
           folded == TransformPostCh1(hashed)
           k      == Extract(folded, ExternalIkm(cfg))
           s1     == [e EXCEPT !.sched = k]
           hrr    == Confirmed(s1, RetryRequest(e, ks, group, <<>>, ch), "hrr")
           kept   == Push(s1, hrr)
           cookie == Cookie(e, group, e.sched.algos[1], ch, ks = <<>>)
           ask    == RetryRequest(e, ks, group, cookie, ch)
           emitted == Emit(e, ask)
           asked  == PushCCS(emitted)
           tests  == <<<<ch.groups = <<>>, "MISSING_EXTENSION">>,
                       <<group = <<>>, "HANDSHAKE_FAILURE">>>>
           stateless == [asked EXCEPT !.ret = "STATELESS_RETRY"]
           waiting == [kept EXCEPT !.st = "EXPECT_SECOND_CLIENT_HELLO",
                                   !.skipped = IF ch.early THEN <<0>> ELSE @]
<1>1. \/ SendRetry(cfg, e, ch, ks) = Fail(e, FirstAlert(tests)) /\ FirstAlert(tests) # "none"
      \/ SendRetry(cfg, e, ch, ks) \in {stateless, waiting}
  BY DEF SendRetry
<1>2. DOMAIN tests = 1..2
      /\ \A i \in 1..2 : tests[i][2] \notin {"IN_PROGRESS", "OK", "ASYNC_OPERATION"}
  OBVIOUS
<1>3. ServerEnd(e) /\ Schedule(e.sched) /\ e.st \in ServerHelloStates /\ e.pend = <<>>
      /\ e.expEarly = <<>>
  BY DEF Reading
<1> HIDE DEF tests
<1>4. FirstAlert(tests) # "none" => ServerWorks(Fail(e, FirstAlert(tests)))
  <2>1. FirstAlert(tests) \notin {"IN_PROGRESS", "OK", "ASYNC_OPERATION"} \/ FirstAlert(tests) = "none"
    BY <1>2, AlertIs
  <2> QED
    BY <1>3, <2>1, ServerGivesUp DEF ServerHelloStates
<1> HIDE DEF cookie, ask, hrr
<1>5. ServerWorks(stateless)
  <2>1. {"enc", "out"} \subseteq DOMAIN e /\ {"secret", "seq", "aead"} \subseteq DOMAIN e.enc
    BY <1>3 DEF ServerEnd, ServerEndFields
  <2>2. Same(e, emitted, {"enc", "out"}) /\ DOMAIN emitted.enc = DOMAIN e.enc
    BY <2>1, EmitIs
  <2> HIDE DEF emitted
  <2>3. ServerEnd(emitted) /\ emitted.st = e.st
    BY <1>3, <2>2 DEF Same, ServerEnd, ServerEndFields
  <2>4. Same(emitted, asked, {"out", "ccs"})
    <3>1. {"enc", "out"} \subseteq DOMAIN emitted
      BY <2>3 DEF ServerEnd, ServerEndFields
    <3> QED
      BY <3>1, PushCCSIs
  <2> HIDE DEF asked
  <2>5. ServerEnd(asked) /\ asked.st = e.st
    BY <2>3, <2>4 DEF Same, ServerEnd, ServerEndFields
  <2>6. Same(asked, stateless, {"ret"}) /\ stateless.ret = "STATELESS_RETRY"
    BY <2>5 DEF Same, ServerEnd, ServerEndFields
  <2> HIDE DEF stateless
  <2>7. ServerEnd(stateless) /\ stateless.st = e.st
    BY <2>5, <2>6 DEF Same, ServerEnd, ServerEndFields
  <2> QED
    BY <1>3, <2>6, <2>7 DEF ServerWorks, Open, ServerHelloStates
<1>6. Schedule(k) /\ Len(k.secret) = 1
  <2>1. Schedule(hashed) /\ hashed.secret = <<>>
    BY <1>3, UpdateIs
  <2> HIDE DEF hashed
  <2>2. Schedule(folded) /\ folded.secret = <<>>
    BY <2>1, TransformIs
  <2> HIDE DEF folded
  <2> QED
    BY <2>2, ExtractIs DEF Schedule
<1> HIDE DEF k
<1>7. /\ ServerEnd(s1) /\ s1.sched = k /\ s1.st = e.st /\ s1.pend = e.pend
      /\ s1.expEarly = e.expEarly
  <2>1. Same(e, s1, {"sched"}) /\ s1.sched = k
    BY <1>3 DEF Same, ServerEnd, ServerEndFields
  <2> HIDE DEF s1
  <2> QED
    BY <1>3, <2>1 DEF Same, ServerEnd, ServerEndFields
<1> HIDE DEF s1
<1>8. /\ ServerEnd(kept) /\ kept.sched = Update(k, hrr) /\ kept.pend = e.pend
      /\ kept.expEarly = e.expEarly
  <2>1. /\ ServerEnd(kept) /\ kept.sched = Update(s1.sched, hrr) /\ kept.pend = s1.pend
        /\ kept.expEarly = s1.expEarly
    BY <1>7, ServerPushed
  <2> HIDE DEF kept
  <2> QED
    BY <1>7, <2>1
<1>9. Schedule(kept.sched) /\ Len(kept.sched.secret) = 1
  BY <1>6, <1>8, UpdateIs
<1> HIDE DEF kept
<1>10. /\ Same(kept, waiting, {"st", "skipped"}) /\ waiting.st = "EXPECT_SECOND_CLIENT_HELLO"
  BY <1>8 DEF Same, ServerEnd, ServerEndFields
<1> HIDE DEF waiting
<1>11. /\ ServerEnd(waiting) /\ waiting.sched = kept.sched /\ waiting.pend = kept.pend
       /\ waiting.expEarly = kept.expEarly
  BY <1>8, <1>10 DEF Same, ServerEnd, ServerEndFields
<1>12. ServerStory(waiting)
  BY <1>3, <1>8, <1>9, <1>10, <1>11 DEF ServerStory, EndStates
<1>13. ServerWorks(waiting)
  BY <1>10, <1>11, <1>12 DEF ServerWorks
<1> HIDE DEF stateless
<1> QED
  BY <1>1, <1>4, <1>5, <1>13

LEMMA AnswerWorks ==
  ASSUME NEW cfg, NEW e, NEW ch, Reading(e, ch), NEW ks, NEW second, Prepared(cfg, e, ch, second),
         NEW signs, NEW now0
  PROVE  ServerWorks(AnswerHello(cfg, e, ch, ks, second, signs, now0))
<1> DEFINE restored == RestoreFromCookie(cfg, e, ch, ks)
           yes == TRUE
<1>1. \/ AnswerHello(cfg, e, ch, ks, second, signs, now0) = Fail(e, "HANDSHAKE_FAILURE")
      \/ /\ AnswerHello(cfg, e, ch, ks, second, signs, now0) =
               Accept(cfg, restored, ch, ks, yes, signs, now0)
         /\ ~second
      \/ /\ AnswerHello(cfg, e, ch, ks, second, signs, now0) = SendRetry(cfg, e, ch, ks)
         /\ ~second
      \/ AnswerHello(cfg, e, ch, ks, second, signs, now0) =
               Accept(cfg, e, ch, ks, second, signs, now0)
  BY DEF AnswerHello
<1>2. ~second => e.sched.secret = <<>>
  BY DEF Prepared
<1>3. yes = TRUE
  OBVIOUS
<1> HIDE DEF yes
<1>4. ASSUME ~second PROVE ServerWorks(Accept(cfg, restored, ch, ks, yes, signs, now0))
  <2>1. Reading(restored, ch) /\ Prepared(cfg, restored, ch, yes)
    BY <1>2, <1>3, <1>4, CookieRestores
  <2> HIDE DEF restored
  <2> QED
    BY <2>1, AcceptWorks
<1> HIDE DEF restored
<1>5. ASSUME ~second PROVE ServerWorks(SendRetry(cfg, e, ch, ks))
  BY <1>2, <1>5, RetryWorks
<1>6. ServerWorks(Accept(cfg, e, ch, ks, second, signs, now0))
  BY AcceptWorks
<1>7. ServerWorks(Fail(e, "HANDSHAKE_FAILURE"))
  BY ServerGivesUp DEF Reading, ServerHelloStates
<1> QED
  BY <1>1, <1>4, <1>5, <1>6, <1>7

LEMMA FirstOfIs == ASSUME NEW q, NEW A PROVE FirstOf(q, A) # <<>> => FirstOf(q, A) = <<FirstOf(q, A)[1]>>
<1> DEFINE hits == {i \in DOMAIN q : q[i] \in A}
           x == q[Min(hits)]
<1>1. FirstOf(q, A) = IF hits = {} THEN <<>> ELSE <<x>>
  BY DEF FirstOf
<1> HIDE DEF hits, x
<1>2. <<x>>[1] = x
  BY SingleIs
<1> QED
  BY <1>1, <1>2

LEMMA CipherIsOne ==
  ASSUME NEW cfg, NEW offered, NEW cs, cs = ChooseCipher(cfg, offered), cs # <<>>
  PROVE  cs = <<cs[1]>>
<1> DEFINE fits(x) == cfg.psk = <<>> \/ HashOf(x) = cfg.psk[1].hash
           usable  == {x \in ToSet(cfg.ciphers) : fits(x)}
           both    == usable \intersect ToSet(offered)
<1>1. cs \in {FirstOf(cfg.ciphers, both), FirstOf(offered, usable)}
  BY DEF ChooseCipher
<1> HIDE DEF usable, both
<1> QED
  BY <1>1, FirstOfIs

\* The server that has understood a ClientHello, and read it inside the other if
\* it could.
Hearing(e, ch, second) ==
    /\ ServerEnd(e) /\ e.st \in ServerHelloStates /\ e.pend = <<>> /\ e.expEarly = <<>>
    /\ HelloTyped(ch)
    /\ \/ e.ech.accepted = TRUE /\ Inside(ch)
       \/ e.ech.accepted = FALSE /\ ~Inside(ch)
    /\ second => Schedule(e.sched) /\ Len(e.sched.secret) = 1

LEMMA ReadWorks ==
  ASSUME NEW cfg, NEW e, NEW ch, NEW second, Hearing(e, ch, second), NEW offered, NEW cs,
         cs = ChooseCipher(cfg, offered), NEW signs, NEW now0
  PROVE  ServerWorks(ReadHello(cfg, e, ch, cs, second, signs, now0))
<1> DEFINE alert == HelloAlert(cfg, e, ch, cs, second)
           b1 == ch.psk = <<>> /\ ch.early
           b2 == second /\ ch.early
           b3 == second /\ e.name # "none" /\ ch.sni # e.name
           b4 == cs = <<>>
           b5 == second /\ cs # e.cs
           tests == << <<b1, "ILLEGAL_PARAMETER">>, <<b2, "DECODE_ERROR">>,
                       <<b3, "HANDSHAKE_FAILURE">>, <<b4, "HANDSHAKE_FAILURE">>,
                       <<b5, "HANDSHAKE_FAILURE">> >>
           fresh == NewSchedule(cs, <<>>, FALSE)
           chosen == [e EXCEPT !.cs = cs, !.sched = fresh]
           e1 == IF second THEN e ELSE chosen
           ks == FirstOf(ch.share, ToSet(cfg.groups))
<1>1. ReadHello(cfg, e, ch, cs, second, signs, now0) =
         IF alert # "none" THEN Fail(e, alert)
         ELSE AnswerHello(cfg, e1, ch, ks, second, signs, now0)
  BY DEF ReadHello
<1>2. alert = FirstAlert(tests)
  BY DEF HelloAlert
<1>3. DOMAIN tests = 1..5
      /\ \A i \in 1..5 : tests[i][2] \notin {"IN_PROGRESS", "OK", "ASYNC_OPERATION", "none"}
  OBVIOUS
<1>3a. /\ tests[2] = <<b2, "DECODE_ERROR">> /\ tests[4] = <<b4, "HANDSHAKE_FAILURE">>
       /\ tests[5] = <<b5, "HANDSHAKE_FAILURE">>
  OBVIOUS
<1> HIDE DEF tests, alert, ks, b2, b4, b5
<1>3b. tests[2][1] = b2 /\ tests[4][1] = b4 /\ tests[5][1] = b5
  BY <1>3a
<1>4. ASSUME alert # "none" PROVE ServerWorks(Fail(e, alert))
  <2>1. PICK i \in 1..5 : alert = tests[i][2]
    BY <1>2, <1>3, <1>4, AlertIs
  <2>2. alert \notin {"IN_PROGRESS", "OK", "ASYNC_OPERATION"}
    BY <1>3, <2>1
  <2> QED
    BY <2>2, ServerGivesUp DEF Hearing, ServerHelloStates
<1>5. ASSUME alert = "none" PROVE ~b2 /\ ~b4 /\ ~b5
  <2>1. \A i \in 1..5 : ~tests[i][1]
    BY <1>2, <1>3, <1>5, AlertIs
  <2>2. 2 \in 1..5 /\ 4 \in 1..5 /\ 5 \in 1..5
    OBVIOUS
  <2>3. ~b2
    BY <1>3b, <2>1, <2>2, Zenon
  <2>4. ~b4
    BY <1>3b, <2>1, <2>2, Zenon
  <2>5. ~b5
    BY <1>3b, <2>1, <2>2, Zenon
  <2> QED
    BY <2>3, <2>4, <2>5
<1>6. ASSUME alert = "none"
      PROVE  /\ cs = <<cs[1]>>
             /\ second => ~ch.early /\ cs = e.cs
  <2>1. cs # <<>>
    BY <1>5, <1>6 DEF b4
  <2>2. cs = <<cs[1]>>
    BY <2>1, CipherIsOne
  <2> QED
    BY <1>5, <1>6, <2>2 DEF b2, b5
<1>7. ServerEnd(e)
  BY DEF Hearing
<1>8. Schedule(fresh) /\ fresh.secret = <<>>
  <2>1. {"algos", "secret", "ctx", "outer"} \subseteq DOMAIN fresh /\ fresh.secret = <<>> /\ fresh.ctx = <<>>
    BY DEF NewSchedule
  <2> HIDE DEF fresh
  <2> QED
    BY <2>1, EmptyIsSeq DEF Schedule
<1> HIDE DEF fresh
<1>9. Same(e, chosen, {"cs", "sched"}) /\ chosen.cs = cs /\ chosen.sched = fresh
  BY <1>7 DEF Same, ServerEnd, ServerEndFields
<1> HIDE DEF chosen
<1>10. /\ ServerEnd(chosen) /\ chosen.st = e.st /\ chosen.pend = e.pend
       /\ chosen.expEarly = e.expEarly /\ chosen.ech = e.ech
  BY <1>7, <1>9 DEF Same, ServerEnd, ServerEndFields
<1>11. ASSUME alert = "none"
       PROVE  ServerWorks(AnswerHello(cfg, e1, ch, ks, second, signs, now0))
  <2>1. CASE second
    <3>1. e1 = e
      BY <2>1
    <3> HIDE DEF e1
    <3>2. Reading(e, ch)
      BY <1>6, <1>11, <2>1 DEF Hearing, Reading
    <3>3. Prepared(cfg, e, ch, second)
      BY <1>6, <1>11, <2>1 DEF Hearing, Prepared
    <3> QED
      BY <3>1, <3>2, <3>3, AnswerWorks
  <2>2. CASE ~second
    <3>1. e1 = chosen
      BY <2>2
    <3> HIDE DEF e1
    <3>2. Reading(chosen, ch)
      <4>1. chosen.cs = <<chosen.cs[1]>>
        BY <1>6, <1>9, <1>11
      <4> QED
        BY <1>8, <1>9, <1>10, <4>1 DEF Hearing, Reading
    <3>3. Prepared(cfg, chosen, ch, second)
      BY <1>8, <1>9, <2>2 DEF Prepared
    <3> QED
      BY <3>1, <3>2, <3>3, AnswerWorks
  <2> QED
    BY <2>1, <2>2
<1> HIDE DEF e1
<1> QED
  BY <1>1, <1>4, <1>11

LEMMA HelloWorks ==
  ASSUME NEW cfg, NEW e, ServerEnd(e), ServerStory(e), e.st \in ServerHelloStates,
         NEW m, MessageTyped(m), m.mt = "CH", NEW signs, NEW now0
  PROVE  ServerWorks(HandleClientHello(cfg, e, m, signs, now0))
<1> DEFINE second == e.st = "EXPECT_SECOND_CLIENT_HELLO"
           open   == Opens(cfg, m) /\ (second => e.ech.on)
           ech    == OpenEch(cfg, e, m, second)
           inner  == m.ech[1].inner[1]
           ch     == IF ech.accepted THEN inner ELSE m
           opened == [e EXCEPT !.ech = ech]
           alert  == EchAlert(cfg, e, m, second)
           called == OnClientHello(cfg, opened, ch)
           e1     == IF second THEN opened ELSE called
           cs     == ChooseCipher(cfg, ch.ciphers)
           b2     == m.ech # <<>> /\ m.ech[1].typ # "outer"
           tests  == <<
             <<second /\ e.ech.on /\ m.ech = <<>>, "MISSING_EXTENSION">>,
             <<b2, "ILLEGAL_PARAMETER">>,
             <<second /\ e.ech.on /\ ~(Opens(cfg, m) /\ m.ech[1].second), "DECRYPT_ERROR">>,
             <<m.ech = <<>> /\ e.ech.offered, "ILLEGAL_PARAMETER">> >>
<1>1. HandleClientHello(cfg, e, m, signs, now0) =
         IF alert # "none" THEN Fail(opened, alert)
         ELSE ReadHello(cfg, e1, ch, cs, second, signs, now0)
  BY DEF HandleClientHello
<1>2. alert = FirstAlert(tests)
  BY DEF EchAlert
<1>3. DOMAIN tests = 1..4
      /\ \A i \in 1..4 : tests[i][2] \notin {"IN_PROGRESS", "OK", "ASYNC_OPERATION", "none"}
  OBVIOUS
<1>3a. tests[2] = <<b2, "ILLEGAL_PARAMETER">>
  OBVIOUS
<1> HIDE DEF tests, alert, b2
<1>3b. tests[2][1] = b2
  BY <1>3a
<1>4. alert # "none" => alert \notin {"IN_PROGRESS", "OK", "ASYNC_OPERATION"}
  <2> SUFFICES ASSUME alert # "none" PROVE alert \notin {"IN_PROGRESS", "OK", "ASYNC_OPERATION"}
    OBVIOUS
  <2>1. PICK i \in 1..4 : alert = tests[i][2]
    BY <1>2, <1>3, AlertIs
  <2> QED
    BY <1>3, <2>1
<1>5. ASSUME alert = "none" PROVE m.ech # <<>> => m.ech[1].typ = "outer"
  <2>1. \A i \in 1..4 : ~tests[i][1]
    BY <1>2, <1>3, <1>5, AlertIs
  <2>2. 2 \in 1..4
    OBVIOUS
  <2>3. ~b2
    BY <1>3b, <2>1, <2>2, Zenon
  <2> QED
    BY <2>3 DEF b2
<1>6. HelloTyped(m) /\ EchTyped(m.ech)
  BY DEF MessageTyped
<1>7. (ech.accepted = TRUE /\ open) \/ (ech.accepted = FALSE /\ ~open)
  BY DEF OpenEch, NoEch
<1>8. {"on", "accepted"} \subseteq DOMAIN ech
  BY DEF OpenEch, NoEch
<1>9. open => m.ech # <<>> /\ m.ech[1].typ = "outer"
  BY DEF Opens
<1> HIDE DEF ech, open
<1>10. ASSUME alert = "none"
       PROVE  /\ HelloTyped(ch)
              /\ \/ ech.accepted = TRUE /\ Inside(ch)
                 \/ ech.accepted = FALSE /\ ~Inside(ch)
  <2>1. CASE ech.accepted = TRUE
    <3>1. ch = inner /\ open
      BY <1>7, <2>1
    <3>2. HelloTyped(inner) /\ Inside(inner)
      BY <1>6, <1>9, <3>1 DEF EchTyped
    <3> HIDE DEF inner, ch
    <3> QED
      BY <2>1, <3>1, <3>2
  <2>2. CASE ech.accepted = FALSE
    <3>1. ch = m
      BY <2>2
    <3>2. ~Inside(m)
      BY <1>5, <1>10 DEF Inside
    <3> HIDE DEF ch
    <3> QED
      BY <1>6, <2>2, <3>1, <3>2
  <2> QED
    BY <1>7, <2>1, <2>2
<1> HIDE DEF ch
<1>11. Same(e, opened, {"ech"}) /\ opened.ech = ech
  BY DEF Same, ServerEnd, ServerEndFields
<1> HIDE DEF opened
<1>12. /\ ServerEnd(opened) /\ opened.st = e.st /\ opened.pend = e.pend
       /\ opened.expEarly = e.expEarly /\ opened.sched = e.sched
  BY <1>8, <1>11 DEF Same, ServerEnd, ServerEndFields
<1>13. Same(opened, called, {"name", "alpn", "ccs"})
  BY DEF OnClientHello, Same
<1> HIDE DEF called
<1>14. /\ ServerEnd(called) /\ called.st = e.st /\ called.pend = e.pend /\ called.ech = ech
       /\ called.expEarly = e.expEarly
  BY <1>11, <1>12, <1>13 DEF Same, ServerEnd, ServerEndFields
<1>15. e.pend = <<>> /\ e.expEarly = <<>> /\ (second => Schedule(e.sched) /\ Len(e.sched.secret) = 1)
  BY DEF ServerStory
<1>16. ASSUME alert = "none" PROVE Hearing(e1, ch, second)
  <2>1. CASE second
    <3>1. e1 = opened
      BY <2>1
    <3> HIDE DEF e1, second
    <3> QED
      BY <1>10, <1>11, <1>12, <1>15, <1>16, <2>1, <3>1 DEF Hearing
  <2>2. CASE ~second
    <3>1. e1 = called
      BY <2>2
    <3> HIDE DEF e1, second
    <3> QED
      BY <1>10, <1>14, <1>15, <1>16, <2>2, <3>1 DEF Hearing
  <2> QED
    BY <2>1, <2>2
<1> HIDE DEF e1, second, cs
<1>17. alert = "none" => ServerWorks(ReadHello(cfg, e1, ch, cs, second, signs, now0))
  BY <1>16, ReadWorks DEF cs
<1>18. alert # "none" => ServerWorks(Fail(opened, alert))
  BY <1>4, <1>12, ServerGivesUp DEF ServerHelloStates
<1> QED
  BY <1>1, <1>17, <1>18

-----------------------------------------------------------------------------
(* The client's second flight, and after the handshake. *)

\* The server s comes to the outcome of the client c.
Agrees(c, s) ==
    /\ c.st = "POST_HANDSHAKE" /\ c.cs = s.cs /\ c.isPsk = s.isPsk
    /\ c.ech.accepted = s.ech.accepted /\ c.alpn = s.alpn /\ c.exp = s.exp
    /\ ClientEarly(c) = s.expEarly /\ EarlyTaken(c)

\* What a call of picotls makes of the server e.
ServerTurns(c, e, f) ==
    /\ ServerEnd(f)
    /\ Open(f) => ServerStory(f)
    /\ e.st = "POST_HANDSHAKE" => f.st = "POST_HANDSHAKE" /\ SameOutcome(e, f)
    /\ e.st # "POST_HANDSHAKE" /\ f.st = "POST_HANDSHAKE" => Agrees(c, f)

LEMMA WorksTurns ==
  ASSUME NEW c, NEW e, e.st # "POST_HANDSHAKE", NEW f, ServerWorks(f)
  PROVE  ServerTurns(c, e, f)
  BY DEF ServerWorks, ServerTurns

\* Steps that change nothing of what an outcome is made of.
LEMMA ServerRemains ==
  ASSUME NEW c, NEW e, ServerEnd(e), ServerStory(e), NEW f, ServerEnd(f), f.dec.secret = e.dec.secret,
         Same(e, f, {"ret", "dec", "got", "enc", "out", "needsKU", "reqKU", "sent", "skipped"})
  PROVE  ServerTurns(c, e, f) /\ ServerStory(f) /\ f.st = e.st
<1>1. /\ f.st = e.st /\ f.sched = e.sched /\ f.pend = e.pend /\ f.ech = e.ech /\ f.cs = e.cs
      /\ f.isPsk = e.isPsk /\ f.alpn = e.alpn /\ f.expEarly = e.expEarly /\ f.exp = e.exp
  BY DEF Same, ServerEnd, ServerEndFields
<1>2. ServerStory(f)
  BY <1>1, ServerCarried
<1> QED
  BY <1>1, <1>2 DEF ServerTurns, SameOutcome

LEMMA ServerFails ==
  ASSUME NEW c, NEW e, ServerEnd(e), NEW alert,
         alert \notin {"IN_PROGRESS", "OK", "ASYNC_OPERATION"}
  PROVE  ServerTurns(c, e, Fail(e, alert))
<1> DEFINE f == Fail(e, alert)
<1>1. Same(e, f, {"ret"}) /\ f.ret = alert
  BY DEF Fail, Same, ServerEnd, ServerEndFields
<1> HIDE DEF f
<1>2. /\ ServerEnd(f) /\ f.st = e.st /\ f.ech = e.ech /\ f.cs = e.cs /\ f.isPsk = e.isPsk
      /\ f.alpn = e.alpn /\ f.expEarly = e.expEarly /\ f.exp = e.exp
  BY <1>1 DEF Same, ServerEnd, ServerEndFields
<1> QED
  BY <1>1, <1>2 DEF ServerTurns, SameOutcome, Open, f

\* A message of the client is hashed.
LEMMA EndAbsorbed ==
  ASSUME NEW e, AwaitsEnd(e), NEW m, Hashed(m).mt # "FIN",
         NEW f, f.sched = Update(e.sched, m), SameWords(e, f), f.exp = e.exp
  PROVE  AwaitsEnd(f)
<1>1. PICK n \in 2..Len(e.sched.ctx) :
         Says(e, n) /\ Ended(e, ServerHs(e), e.sched.algos[1], e.sched.ctx)
  BY DEF AwaitsEnd
<1>2. Says(f, n)
  BY <1>1, SaysOn
<1>3. n \in 2..Len(f.sched.ctx)
  BY <1>1, SaysOn
<1>4. /\ IsSeq(e.sched.ctx) /\ f.sched.ctx = Append(e.sched.ctx, Hashed(m))
      /\ f.sched.algos = e.sched.algos
  BY <1>1, UpdateIs DEF Says, Speaks, Schedule
<1> DEFINE x == Hashed(m)
           hs == ServerHs(e)
           algo == e.sched.algos[1]
<1>5. x.mt # "FIN" /\ Ended(e, hs, algo, e.sched.ctx)
  BY <1>1
<1>6. ServerHs(f) = hs /\ f.sched.algos[1] = algo /\ f.sched.ctx = Append(e.sched.ctx, x)
  BY <1>4 DEF SameWords
<1> HIDE DEF x, hs, algo
<1>7. Ended(f, hs, algo, Append(e.sched.ctx, x))
  BY <1>4, <1>5, EndedStill
<1> QED
  BY <1>2, <1>3, <1>6, <1>7 DEF AwaitsEnd

LEMMA ClientFlightAbsorbed ==
  ASSUME NEW c, NEW e, ServerEnd(e), AwaitsEnd(e), e.pend = <<>>, e.st # "POST_HANDSHAKE",
         NEW m, Hashed(m).mt # "FIN", NEW st \in EndStates \ {"EXPECT_END_OF_EARLY_DATA"}
  PROVE  ServerTurns(c, e, Absorb(e, m, st))
<1> DEFINE f == Absorb(e, m, st)
<1>1. Same(e, f, {"sched", "st"}) /\ f.sched = Update(e.sched, m) /\ f.st = st
  BY DEF Absorb, Same, ServerEnd, ServerEndFields
<1> HIDE DEF f
<1>2. /\ ServerEnd(f) /\ f.ech = e.ech /\ f.cs = e.cs /\ f.isPsk = e.isPsk /\ f.pend = e.pend
      /\ f.dec = e.dec /\ f.alpn = e.alpn /\ f.expEarly = e.expEarly /\ f.exp = e.exp
  BY <1>1 DEF Same, ServerEnd, ServerEndFields
<1>3. SameWords(e, f)
  BY <1>2 DEF SameWords, ServerHs
<1>4. AwaitsEnd(f)
  BY <1>1, <1>2, <1>3, EndAbsorbed
<1>5. ServerStory(f)
  BY <1>1, <1>2, <1>4 DEF ServerStory, ServerHelloStates, EndStates
<1>6. f.st # "POST_HANDSHAKE"
  BY <1>1 DEF EndStates
<1> QED
  BY <1>2, <1>5, <1>6 DEF ServerTurns, f

LEMMA EarlyDataEnds ==
  ASSUME NEW c, NEW e, ServerEnd(e), ServerStory(e), e.st = "EXPECT_END_OF_EARLY_DATA",
         NEW m, MessageTyped(m), m.mt = "EOED"
  PROVE  ServerTurns(c, e, HandleEndOfEarlyData(e, m))
<1> DEFINE f == HandleEndOfEarlyData(e, m)
           key == SetupTraffic(e.cs[1], e.pend[1], 2)
<1>1. /\ Same(e, f, {"sched", "st", "dec", "pend"}) /\ f.sched = Update(e.sched, m)
      /\ f.st = "EXPECT_FINISHED" /\ f.dec = key /\ f.pend = <<>>
  BY DEF HandleEndOfEarlyData, Absorb, Same, ServerEnd, ServerEndFields
<1>2. key.secret = e.pend[1] /\ DOMAIN key = {"epoch", "secret", "aead", "seq"}
  BY SetupIs
<1> HIDE DEF f, key
<1>3. AwaitsEnd(e) /\ e.pend # <<>>
  BY DEF ServerStory, EndStates
<1>4. /\ ServerEnd(f) /\ f.ech = e.ech /\ f.cs = e.cs /\ f.isPsk = e.isPsk
      /\ f.alpn = e.alpn /\ f.expEarly = e.expEarly /\ f.exp = e.exp
  BY <1>1, <1>2 DEF Same, ServerEnd, ServerEndFields
<1>5. SameWords(e, f)
  BY <1>1, <1>2, <1>3, <1>4 DEF SameWords, ServerHs
<1>6. Hashed(m).mt # "FIN"
  <2>1. Hashed(m) = m
    BY HashedIs
  <2> QED
    BY <2>1
<1>7. AwaitsEnd(f)
  BY <1>1, <1>3, <1>4, <1>5, <1>6, EndAbsorbed
<1>8. ServerStory(f)
  BY <1>1, <1>7 DEF ServerStory, ServerHelloStates, EndStates
<1> QED
  BY <1>1, <1>4, <1>8 DEF ServerTurns, f

LEMMA ClientSigned ==
  ASSUME NEW c, NEW cfg, NEW e, ServerEnd(e), ServerStory(e), NEW m, MessageTyped(m)
  PROVE  /\ e.st = "EXPECT_CERTIFICATE" /\ m.mt = "CERT" =>
               ServerTurns(c, e, HandleClientCertificate(cfg, e, m))
         /\ e.st = "EXPECT_CERTIFICATE_VERIFY" /\ m.mt = "CV" =>
               ServerTurns(c, e, HandleClientCertificateVerify(e, m))
<1>1. ServerTurns(c, e, Fail(e, "CERTIFICATE_REQUIRED")) /\ ServerTurns(c, e, Fail(e, "DECRYPT_ERROR"))
  BY ServerFails
<1>2. ASSUME e.st \in {"EXPECT_CERTIFICATE", "EXPECT_CERTIFICATE_VERIFY"}, m.mt \in {"CERT", "CV"},
             NEW st \in EndStates \ {"EXPECT_END_OF_EARLY_DATA"}
      PROVE  ServerTurns(c, e, Absorb(e, m, st))
  <2>1. AwaitsEnd(e) /\ e.pend = <<>> /\ e.st # "POST_HANDSHAKE"
    BY <1>2 DEF ServerStory, EndStates
  <2>2. Hashed(m).mt = m.mt
    <3>1. (m.mt = "CERT" => Hashed(m) = m) /\ (m.mt = "CV" => Hashed(m).mt = m.mt)
      BY HashedIs
    <3> QED
      BY <1>2, <3>1
  <2>3. Hashed(m).mt # "FIN"
    BY <1>2, <2>2
  <2> QED
    BY <2>1, <2>3, ClientFlightAbsorbed
<1>3. ASSUME e.st = "EXPECT_CERTIFICATE", m.mt = "CERT"
      PROVE  ServerTurns(c, e, HandleClientCertificate(cfg, e, m))
  <2>1. HandleClientCertificate(cfg, e, m) \in
           {Fail(e, "CERTIFICATE_REQUIRED"), Absorb(e, m, "EXPECT_CERTIFICATE_VERIFY"),
            Absorb(e, m, "EXPECT_FINISHED")}
    BY DEF HandleClientCertificate
  <2>2. /\ ServerTurns(c, e, Absorb(e, m, "EXPECT_CERTIFICATE_VERIFY"))
        /\ ServerTurns(c, e, Absorb(e, m, "EXPECT_FINISHED"))
    BY <1>2, <1>3 DEF EndStates
  <2> QED
    BY <1>1, <2>1, <2>2
<1>4. ASSUME e.st = "EXPECT_CERTIFICATE_VERIFY", m.mt = "CV"
      PROVE  ServerTurns(c, e, HandleClientCertificateVerify(e, m))
  <2>1. HandleClientCertificateVerify(e, m) \in
           {Fail(e, "DECRYPT_ERROR"), Absorb(e, m, "EXPECT_FINISHED")}
    BY DEF HandleClientCertificateVerify
  <2>2. ServerTurns(c, e, Absorb(e, m, "EXPECT_FINISHED"))
    BY <1>2, <1>4 DEF EndStates
  <2> QED
    BY <1>1, <2>1, <2>2
<1> QED
  BY <1>3, <1>4

\* The client's Finished says what the client has read: the server has sent
\* that, and nothing else is in the transcripts.
LEMMA ClientFinishedTurns ==
  ASSUME NEW c, NEW e, ServerEnd(e), ServerStory(e), e.st = "EXPECT_FINISHED", NEW m,
         m.mt = "FIN", c.st = "POST_HANDSHAKE", Backed(m.mac, c)
  PROVE  ServerTurns(c, e, HandleClientFinished(e, m))
<1> DEFINE key == SetupTraffic(e.cs[1], e.pendApp[1], 3)
           f   == [Absorb(e, m, "POST_HANDSHAKE") EXCEPT !.dec = key, !.pendApp = <<>>, !.ret = "OK"]
           hs   == e.dec.secret
           algo == e.sched.algos[1]
           ctx  == e.sched.ctx
<1>1. HandleClientFinished(e, m) = IF m.mac # VerifyData(e.sched, hs)
                                   THEN Fail(e, "HANDSHAKE_FAILURE") ELSE f
  BY DEF HandleClientFinished
<1>2. Same(e, f, {"sched", "st", "dec", "pendApp", "ret"}) /\ f.st = "POST_HANDSHAKE" /\ f.dec = key
  BY DEF Absorb, Same, ServerEnd, ServerEndFields
<1>3. {"secret", "seq"} \subseteq DOMAIN key
  BY SetupIs
<1> HIDE DEF f, key
<1>4. /\ ServerEnd(f) /\ f.ech = e.ech /\ f.cs = e.cs /\ f.isPsk = e.isPsk
      /\ f.alpn = e.alpn /\ f.expEarly = e.expEarly /\ f.exp = e.exp
  BY <1>2, <1>3 DEF Same, ServerEnd, ServerEndFields
<1>5. ServerHs(e) = hs /\ AwaitsEnd(e)
  BY DEF ServerHs, ServerStory, EndStates
<1>6. PICK n \in 2..Len(e.sched.ctx) :
         Says(e, n) /\ Ended(e, ServerHs(e), e.sched.algos[1], e.sched.ctx)
  BY <1>5 DEF AwaitsEnd
<1>7. /\ IsSeq(ctx) /\ n \in 2..Len(ctx) /\ Opening(e, hs, algo, ctx, n)
      /\ Told(e, e.expEarly, hs, algo, ctx, n) /\ Sure(hs, ctx, n) /\ Ended(e, hs, algo, ctx)
  BY <1>5, <1>6 DEF Says, Speaks, Schedule
<1>8. VerifyData(e.sched, hs) = <<"verify_data", hs, algo, ctx>>
  BY DEF VerifyData
<1>9. ASSUME m.mac = <<"verify_data", hs, algo, ctx>> PROVE Agrees(c, f)
  <2> DEFINE mac == m.mac
  <2>1. mac[2] = hs /\ mac[3] = algo /\ mac[4] = ctx
    BY <1>9
  <2>2. Reads(c, ClientEarly(c), mac[2], mac[3], mac[4])
    BY DEF Backed
  <2> HIDE DEF mac, hs, algo, ctx
  <2>3. Reads(c, ClientEarly(c), hs, algo, ctx)
    BY <2>1, <2>2
  <2>4. /\ c.cs = e.cs /\ c.isPsk = e.isPsk /\ c.ech.accepted = e.ech.accepted
        /\ c.alpn = e.alpn /\ c.exp = e.exp /\ ClientEarly(c) = e.expEarly
    BY <1>7, <2>3, OneOutcome
  <2> QED
    BY <1>4, <2>4 DEF Agrees, Backed
<1>10. ServerTurns(c, e, Fail(e, "HANDSHAKE_FAILURE"))
  BY ServerFails
<1>11. ServerStory(f)
  BY <1>2 DEF ServerStory, ServerHelloStates, EndStates
<1>12. m.mac = VerifyData(e.sched, hs) => ServerTurns(c, e, f)
  BY <1>4, <1>8, <1>9, <1>11 DEF ServerTurns
<1> QED
  BY <1>1, <1>10, <1>12

LEMMA KeyUpdateTurns ==
  ASSUME NEW c, NEW e, ServerEnd(e), e.st = "POST_HANDSHAKE", NEW m
  PROVE  ServerTurns(c, e, HandleKeyUpdate(e, m))
<1> DEFINE f == HandleKeyUpdate(e, m)
<1>1. Same(e, f, {"dec", "ret", "needsKU"}) /\ f.dec = UpdateKey(e.dec)
  BY DEF HandleKeyUpdate, Same, ServerEnd, ServerEndFields
<1> HIDE DEF f
<1>2. {"secret", "seq"} \subseteq DOMAIN f.dec
  BY <1>1, SetupIs DEF UpdateKey
<1>3. /\ ServerEnd(f) /\ f.st = e.st /\ f.ech = e.ech /\ f.cs = e.cs /\ f.isPsk = e.isPsk
      /\ f.alpn = e.alpn /\ f.expEarly = e.expEarly /\ f.exp = e.exp
  BY <1>1, <1>2 DEF Same, ServerEnd, ServerEndFields
<1>4. ServerStory(f)
  BY <1>3 DEF ServerStory, ServerHelloStates, EndStates
<1> QED
  BY <1>3, <1>4 DEF ServerTurns, SameOutcome, f

LEMMA DeliverTurns ==
  ASSUME NEW c, NEW e, ServerEnd(e), ServerStory(e), NEW m
  PROVE  ServerTurns(c, e, Deliver(e, m))
<1> DEFINE f == [e EXCEPT !.got = Append(@, m), !.ret = "OK"]
<1>1. Deliver(e, m) \in {f, Fail(e, "UNEXPECTED_MESSAGE")}
  BY DEF Deliver
<1>2. Same(e, f, {"ret", "got"})
  BY DEF Same
<1> HIDE DEF f
<1>3. /\ ServerEnd(f) /\ f.dec.secret = e.dec.secret
      /\ Same(e, f, {"ret", "dec", "got", "enc", "out", "needsKU", "reqKU", "sent", "skipped"})
  BY <1>2 DEF Same, ServerEnd, ServerEndFields
<1>4. ServerTurns(c, e, f)
  BY <1>3, ServerRemains
<1>5. ServerTurns(c, e, Fail(e, "UNEXPECTED_MESSAGE"))
  BY ServerFails
<1> QED
  BY <1>1, <1>4, <1>5

LEMMA ServerHandleTurns ==
  ASSUME NEW c, NEW cfg, NEW e, ServerEnd(e), ServerStory(e), e.st \in ServerStates,
         NEW m, MessageTyped(m), m.mt = "FIN" => c.st = "POST_HANDSHAKE" /\ Backed(m.mac, c),
         NEW signs, NEW now0
  PROVE  ServerTurns(c, e, ServerHandle(cfg, e, m, signs, now0))
<1> DEFINE f == ServerHandle(cfg, e, m, signs, now0)
<1>1. ServerTurns(c, e, Fail(e, "HANDSHAKE_FAILURE")) /\ ServerTurns(c, e, Fail(e, "UNEXPECTED_MESSAGE"))
  BY ServerFails
<1>2. CASE e.st \in ServerHelloStates
  <2>1. f = IF m.mt = "CH" THEN HandleClientHello(cfg, e, m, signs, now0)
            ELSE Fail(e, "HANDSHAKE_FAILURE")
    BY <1>2 DEF ServerHandle, ServerHelloStates
  <2> HIDE DEF f
  <2>2. m.mt = "CH" => ServerWorks(HandleClientHello(cfg, e, m, signs, now0))
    BY <1>2, HelloWorks
  <2>3. e.st # "POST_HANDSHAKE"
    BY <1>2 DEF ServerHelloStates
  <2>4. m.mt = "CH" => ServerTurns(c, e, HandleClientHello(cfg, e, m, signs, now0))
    BY <2>2, <2>3, WorksTurns
  <2> QED
    BY <1>1, <2>1, <2>4 DEF f
<1>3. CASE e.st = "EXPECT_END_OF_EARLY_DATA"
  <2>1. f = IF m.mt = "EOED" THEN HandleEndOfEarlyData(e, m) ELSE Fail(e, "UNEXPECTED_MESSAGE")
    BY <1>3 DEF ServerHandle
  <2> HIDE DEF f
  <2>2. m.mt = "EOED" => ServerTurns(c, e, HandleEndOfEarlyData(e, m))
    BY <1>3, EarlyDataEnds
  <2> QED
    BY <1>1, <2>1, <2>2 DEF f
<1>4. CASE e.st = "EXPECT_CERTIFICATE"
  <2>1. f = IF m.mt = "CERT" THEN HandleClientCertificate(cfg, e, m) ELSE Fail(e, "UNEXPECTED_MESSAGE")
    BY <1>4 DEF ServerHandle
  <2> HIDE DEF f
  <2>2. m.mt = "CERT" => ServerTurns(c, e, HandleClientCertificate(cfg, e, m))
    BY <1>4, ClientSigned
  <2> QED
    BY <1>1, <2>1, <2>2 DEF f
<1>5. CASE e.st = "EXPECT_CERTIFICATE_VERIFY"
  <2>1. f = IF m.mt = "CV" THEN HandleClientCertificateVerify(e, m) ELSE Fail(e, "UNEXPECTED_MESSAGE")
    BY <1>5 DEF ServerHandle
  <2> HIDE DEF f
  <2>2. m.mt = "CV" => ServerTurns(c, e, HandleClientCertificateVerify(e, m))
    BY <1>5, ClientSigned
  <2> QED
    BY <1>1, <2>1, <2>2 DEF f
<1>6. CASE e.st = "EXPECT_FINISHED"
  <2>1. f = IF m.mt = "FIN" THEN HandleClientFinished(e, m) ELSE Fail(e, "HANDSHAKE_FAILURE")
    BY <1>6 DEF ServerHandle
  <2> HIDE DEF f
  <2>2. m.mt = "FIN" => ServerTurns(c, e, HandleClientFinished(e, m))
    BY <1>6, ClientFinishedTurns
  <2> QED
    BY <1>1, <2>1, <2>2 DEF f
<1>7. CASE e.st = "POST_HANDSHAKE"
  <2>1. f = IF m.mt = "KU" THEN HandleKeyUpdate(e, m) ELSE Fail(e, "UNEXPECTED_MESSAGE")
    BY <1>7 DEF ServerHandle
  <2> HIDE DEF f
  <2>2. ServerTurns(c, e, HandleKeyUpdate(e, m))
    BY <1>7, KeyUpdateTurns
  <2> QED
    BY <1>1, <2>1, <2>2 DEF f
<1>8. CASE e.st = "GENERATING_CERTIFICATE_VERIFY"
  <2>1. f = Fail(e, "UNEXPECTED_MESSAGE")
    BY <1>8 DEF ServerHandle
  <2> QED
    BY <1>1, <2>1
<1> QED
  BY <1>2, <1>3, <1>4, <1>5, <1>6, <1>7, <1>8 DEF ServerStates, ServerHelloStates, ServerLateStates

\* handle_input, for a server that the client's Finished reaches in its turn.
LEMMA ServerRecordTurns ==
  ASSUME NEW c, NEW e, ServerEnd(e), ServerStory(e), e.st \in ServerStates,
         NEW r, MessageTyped(r.msg),
         r.msg.mt = "FIN" => c.st = "POST_HANDSHAKE" /\ Backed(r.msg.mac, c), NEW signs
  PROVE  ServerTurns(c, e, Input(e, TRUE, r, signs))
<1> DEFINE f == Input(e, TRUE, r, signs)
           opened == Opened(e)
           skipped == [e EXCEPT !.skipped = <<e.skipped[1] + 1>>]
           m == r.msg
<1>1. ASSUME NEW x, ServerEnd(x), ServerStory(x), x.st \in ServerStates
      PROVE  ServerTurns(c, x, Content(x, TRUE, m, signs))
  <2>1. Content(x, TRUE, m, signs) \in
           {Fail(x, "PEER_ALERT"), Deliver(x, m), ServerHandle(S, x, m, signs, ServerNow)}
    BY DEF Content
  <2> HIDE DEF m
  <2>2. MessageTyped(m) /\ (m.mt = "FIN" => c.st = "POST_HANDSHAKE" /\ Backed(m.mac, c))
    BY DEF m
  <2>3. ServerTurns(c, x, ServerHandle(S, x, m, signs, ServerNow))
    BY <1>1, <2>2, ServerHandleTurns
  <2>4. ServerTurns(c, x, Deliver(x, m))
    BY <1>1, DeliverTurns
  <2>5. ServerTurns(c, x, Fail(x, "PEER_ALERT"))
    BY <1>1, ServerFails
  <2> QED
    BY <2>1, <2>3, <2>4, <2>5
<1>2. Skip(e) \in {skipped, Fail(skipped, "HANDSHAKE_FAILURE")}
  BY DEF Skip
<1>3. f \in {e, Fail(e, "HANDSHAKE_FAILURE"), Fail(e, "PEER_ALERT"), Fail(e, "BAD_RECORD_MAC"),
             Fail(e, "UNEXPECTED_MESSAGE"), Content(opened, TRUE, m, signs),
             Content(e, TRUE, m, signs), Skip(e)}
  BY DEF Input
<1> HIDE DEF f, m
<1>4. Same(e, opened, {"dec"}) /\ opened.dec = [e.dec EXCEPT !.seq = @ + 1]
  BY DEF Opened, Same, ServerEnd, ServerEndFields
<1>5. Same(e, skipped, {"skipped"})
  BY DEF Same
<1> HIDE DEF opened, skipped
<1>6. ASSUME NEW x \in {e, opened, skipped}
      PROVE  /\ ServerEnd(x) /\ ServerStory(x) /\ x.st \in ServerStates
             /\ \A g : ServerTurns(c, x, g) => ServerTurns(c, e, g)
  <2>1. /\ ServerEnd(x) /\ x.dec.secret = e.dec.secret
        /\ Same(e, x, {"ret", "dec", "got", "enc", "out", "needsKU", "reqKU", "sent", "skipped"})
    BY <1>4, <1>5 DEF Same, ServerEnd, ServerEndFields
  <2>2. /\ x.st = e.st /\ x.ech = e.ech /\ x.cs = e.cs /\ x.isPsk = e.isPsk
        /\ x.alpn = e.alpn /\ x.expEarly = e.expEarly /\ x.exp = e.exp
    BY <2>1 DEF Same, ServerEnd, ServerEndFields
  <2>3. ServerStory(x)
    BY <2>1, ServerRemains
  <2>4. \A g : ServerTurns(c, x, g) => ServerTurns(c, e, g)
    BY <2>2 DEF ServerTurns, SameOutcome
  <2> QED
    BY <2>1, <2>2, <2>3, <2>4
<1>7. /\ ServerTurns(c, e, Content(opened, TRUE, m, signs))
      /\ ServerTurns(c, e, Content(e, TRUE, m, signs))
  BY <1>1, <1>6
<1>8. \A x \in {e, skipped} : ServerTurns(c, e, x)
  <2> TAKE x \in {e, skipped}
  <2>1. /\ ServerEnd(x) /\ x.dec.secret = e.dec.secret
        /\ Same(e, x, {"ret", "dec", "got", "enc", "out", "needsKU", "reqKU", "sent", "skipped"})
    BY <1>5 DEF Same, ServerEnd, ServerEndFields
  <2> QED
    BY <2>1, ServerRemains
<1>9. /\ ServerTurns(c, e, Fail(e, "HANDSHAKE_FAILURE")) /\ ServerTurns(c, e, Fail(e, "PEER_ALERT"))
      /\ ServerTurns(c, e, Fail(e, "BAD_RECORD_MAC")) /\ ServerTurns(c, e, Fail(e, "UNEXPECTED_MESSAGE"))
  BY ServerFails
<1>10. ServerTurns(c, e, Fail(skipped, "HANDSHAKE_FAILURE"))
  BY <1>6, ServerFails
<1> QED
  BY <1>2, <1>3, <1>7, <1>8, <1>9, <1>10 DEF f

-----------------------------------------------------------------------------
(* The server between two steps. *)

ServerMarks(e) == ServerEnd(e) /\ (Open(e) => ServerStory(e))

LEMMA NewServerMarks ==
  ASSUME NEW cfg, NEW b, NEW e, e = [NewServer(cfg) EXCEPT !.asserts = b]
  PROVE  ServerMarks(e) /\ e.st = "EXPECT_CLIENT_HELLO" /\ Open(e)
<1>1. /\ ServerEndFields \subseteq DOMAIN e /\ e.st = "EXPECT_CLIENT_HELLO" /\ e.ret = "IN_PROGRESS"
      /\ e.enc = NoTraffic /\ e.dec = NoTraffic /\ e.ech = NoEch /\ e.pend = <<>>
      /\ e.expEarly = <<>>
  BY DEF NewServer, ServerEndFields
<1>2. {"on", "accepted"} \subseteq DOMAIN NoEch /\ {"secret", "seq", "aead"} \subseteq DOMAIN NoTraffic
  BY DEF NoEch, NoTraffic
<1>3. ServerEnd(e)
  BY <1>1, <1>2 DEF ServerEnd
<1>4. ServerStory(e)
  BY <1>1 DEF ServerStory, EndStates
<1> QED
  BY <1>1, <1>3, <1>4 DEF ServerMarks, Open

Like(e, f) == f.st = e.st /\ f.ret = e.ret

\* The end of ptls_handshake changes nothing that the story tells.
LEMMA ServerFinishTurns ==
  ASSUME NEW c, NEW e, NEW x, ServerTurns(c, e, x), NEW before, NEW f, f = Finish(before, x, TRUE)
  PROVE  ServerTurns(c, e, f) /\ Like(x, f)
<1>1. {"enc", "out", "ret"} \subseteq DOMAIN x
  BY DEF ServerTurns, ServerEnd, ServerEndFields
<1>2. Alerted(x, f)
  <2> DEFINE yes == TRUE
  <2>1. yes \in BOOLEAN /\ f = Finish(before, x, yes)
    OBVIOUS
  <2> HIDE DEF yes
  <2> QED
    BY <1>1, <2>1, FinishIs
<1>3. f = x \/ (Same(x, f, {"out"}) /\ ~Open(x))
  BY <1>2 DEF Alerted, GoesOn
<1>4. CASE f = x
  BY <1>4 DEF Like
<1>5. CASE Same(x, f, {"out"}) /\ ~Open(x)
  <2>1. /\ ServerEnd(f) /\ f.st = x.st /\ f.ret = x.ret /\ f.ech = x.ech /\ f.cs = x.cs
        /\ f.isPsk = x.isPsk /\ f.alpn = x.alpn /\ f.expEarly = x.expEarly /\ f.exp = x.exp
    BY <1>5 DEF Same, ServerTurns, ServerEnd, ServerEndFields
  <2>2. ~Open(f)
    BY <1>5, <2>1 DEF Open
  <2> QED
    BY <2>1, <2>2 DEF ServerTurns, SameOutcome, Agrees, Like
<1> QED
  BY <1>3, <1>4, <1>5

\* Nor does the end of a deferred signature, also of one that fails.
LEMMA ServerResumeTurns ==
  ASSUME NEW c, NEW e, NEW x, ServerTurns(c, e, x), NEW signs, signs = "fails" => ~Open(x),
         NEW rest, NEW f, f = Resumed(x, signs, rest)
  PROVE  ServerTurns(c, e, f) /\ Like(x, f)
<1>1. {"enc", "out", "ret"} \subseteq DOMAIN x
  BY DEF ServerTurns, ServerEnd, ServerEndFields
<1>2. CASE signs # "fails"
  <2>1. f = x
    BY <1>2 DEF Resumed
  <2> QED
    BY <2>1 DEF Like
<1>3. CASE signs = "fails"
  <2>1. Same(x, f, {"out"})
    BY <1>1, <1>3 DEF Resumed, Same
  <2>2. /\ ServerEnd(f) /\ f.st = x.st /\ f.ret = x.ret /\ f.ech = x.ech /\ f.cs = x.cs
        /\ f.isPsk = x.isPsk /\ f.alpn = x.alpn /\ f.expEarly = x.expEarly /\ f.exp = x.exp
    BY <2>1 DEF Same, ServerTurns, ServerEnd, ServerEndFields
  <2>3. ~Open(f)
    BY <1>3, <2>2 DEF Open
  <2> QED
    BY <2>2, <2>3 DEF ServerTurns, SameOutcome, Agrees, Like
<1> QED
  BY <1>2, <1>3

\* What the server is between two steps, after a step that made f of it.
ServerStays(c, e, f) ==
    /\ ServerMarks(f)
    /\ e.st = "POST_HANDSHAKE" => f.st = "POST_HANDSHAKE" /\ SameOutcome(e, f)
    /\ e.st # "POST_HANDSHAKE" /\ f.st = "POST_HANDSHAKE" => Agrees(c, f)

LEMMA ServerGoesOn ==
  ASSUME NEW c, NEW e, NEW f, ServerTurns(c, e, f),
         f.ret = "STATELESS_RETRY" => f.st \in ServerHelloStates
  PROVE  ServerStays(c, e, Renewed(f))
<1>1. CASE f.ret = "STATELESS_RETRY"
  <2> DEFINE anew == [NewServer(S) EXCEPT !.asserts = f.asserts]
  <2>1. ServerMarks(anew) /\ anew.st = "EXPECT_CLIENT_HELLO"
    BY NewServerMarks
  <2>2. Renewed(f) = anew
    BY <1>1 DEF Renewed
  <2>3. e.st # "POST_HANDSHAKE"
    BY <1>1 DEF ServerTurns, ServerHelloStates
  <2> HIDE DEF anew
  <2> QED
    BY <2>1, <2>2, <2>3 DEF ServerStays
<1>2. CASE f.ret # "STATELESS_RETRY"
  <2> DEFINE s == Sent(f)
  <2>1. Same(f, s, {"out"})
    BY DEF Sent, Same, ServerTurns, ServerEnd, ServerEndFields
  <2>2. Renewed(f) = s
    BY <1>2 DEF Renewed
  <2> HIDE DEF s
  <2>3. /\ ServerEnd(s) /\ s.st = f.st /\ s.ret = f.ret /\ s.ech = f.ech /\ s.cs = f.cs
        /\ s.isPsk = f.isPsk /\ s.alpn = f.alpn /\ s.expEarly = f.expEarly /\ s.exp = f.exp
        /\ s.sched = f.sched /\ s.pend = f.pend /\ s.dec = f.dec
    BY <2>1 DEF Same, ServerTurns, ServerEnd, ServerEndFields
  <2>4. ASSUME Open(s) PROVE ServerStory(s)
    <3>1. ServerStory(f)
      BY <2>3, <2>4 DEF Open, ServerTurns
    <3> QED
      BY <2>3, <3>1, ServerCarried
  <2> QED
    BY <2>2, <2>3, <2>4 DEF ServerStays, ServerMarks, ServerTurns, SameOutcome, Agrees
<1> QED
  BY <1>1, <1>2

\* What a step of the server does.
LEMMA ServerStepMarks ==
  ASSUME IInv, Server, ClientMarks(toSrv, cli), ServerMarks(srv)
  PROVE  /\ ClientMarks(toSrv, cli)' /\ cli' = cli /\ Open(srv)
         /\ ServerStays(cli, srv, srv')
<1>1. PICK U, V : Wire(toSrv, toCli, cli, srv, U, V)
  BY DEF IInv, Between
<1>2. S.maxTickets \in Nat
  BY SettingsAre DEF IInv
<1>3. ASSUME Open(srv)
      PROVE  /\ ServerHolds(toCli, srv, V, U) /\ ServerShape(srv) /\ ServerStage(srv, V)
             /\ ServerEnd(srv) /\ ServerStory(srv)
  BY <1>1, <1>3 DEF Wire, ServerRests, ServerHolds, GoesOn, ServerMarks
<1>4. CASE ServerReceive
  <2>1. PICK signs \in S.signs :
           ServerGoes(Finish(srv, Input(srv, TRUE, Head(toSrv), signs), TRUE))
    BY <1>4 DEF ServerReceive
  <2> DEFINE r == Head(toSrv)
             e == Input(srv, TRUE, r, signs)
             f == Finish(srv, e, TRUE)
  <2>2. /\ Open(srv) /\ toSrv # <<>>
        /\ srv' = Renewed(f) /\ cli' = cli /\ toSrv' = Tail(toSrv)
    BY <1>4, <2>1 DEF ServerReceive, ServerGoes
  <2>3. MessageTyped(r.msg)
    BY <1>1, <2>2, NumberedTail DEF Wire
  <2>4. /\ Fins(Tail(toSrv), cli)
        /\ r.msg.mt = "FIN" => cli.st = "POST_HANDSHAKE" /\ Backed(r.msg.mac, cli)
    BY <2>2, FinsTail DEF ClientMarks
  <2> HIDE DEF r
  <2>5. PICK V2 : ServerHolds(toCli, e, V2, U)
    BY <1>2, <1>3, <2>2, <2>3, ServerReads
  <2>6. srv.st \in ServerStates /\ ServerEnd(srv) /\ ServerStory(srv)
    BY <1>3, <2>2 DEF ServerShape
  <2>7. ServerTurns(cli, srv, e)
    BY <2>3, <2>4, <2>6, ServerRecordTurns
  <2> HIDE DEF e
  <2>7a. f = Finish(srv, e, TRUE)
    OBVIOUS
  <2> HIDE DEF f
  <2>8. ServerTurns(cli, srv, f) /\ Like(e, f)
    BY <2>7, <2>7a, ServerFinishTurns
  <2>9. f.ret = "STATELESS_RETRY" => f.st \in ServerHelloStates
    BY <2>5, <2>8 DEF ServerHolds, GoesOn, ServerStage, Like
  <2>10. ServerStays(cli, srv, srv')
    BY <2>2, <2>8, <2>9, ServerGoesOn
  <2>11. ClientMarks(toSrv, cli)'
    BY <2>2, <2>4 DEF ClientMarks
  <2> QED
    BY <2>2, <2>10, <2>11
<1>5. CASE ServerResume
  <2>1. PICK signs \in S.signs \ {"later"}, rest \in {<<>>, <<Unfinished>>} :
           ServerGoes(Resumed(SignAndFinish(S, srv, signs, ServerNow), signs, rest))
    BY <1>5 DEF ServerResume
  <2> DEFINE e == SignAndFinish(S, srv, signs, ServerNow)
             f == Resumed(e, signs, rest)
  <2>2. /\ Open(srv) /\ srv.ret = "ASYNC_OPERATION"
        /\ srv' = Renewed(f) /\ cli' = cli /\ toSrv' = toSrv
    BY <1>5, <2>1 DEF ServerResume, ServerGoes, Open
  <2>3. srv.st = "GENERATING_CERTIFICATE_VERIFY"
    BY <1>3, <2>2 DEF ServerStage
  <2>4. ServerEnd(srv) /\ Signs(srv) /\ srv.st # "POST_HANDSHAKE"
    BY <1>3, <2>2, <2>3 DEF ServerStory
  <2>5. ServerWorks(e)
    BY <2>4, SignedOver
  <2>6. InFlight(toCli, srv, V, U)
    BY <1>3, <2>2, <2>3 DEF InFlight, ServerHolds, ServerStage, ServerLateStates
  <2>7. PICK V2 : ServerHolds(toCli, e, V2, U)
    BY <2>6, FlightSigned
  <2>7a. signs = "fails" => ~Open(e)
    BY <2>4 DEF SignAndFinish, Fail, Open, ServerEnd, ServerEndFields
  <2> HIDE DEF e
  <2>8. ServerTurns(cli, srv, e)
    BY <2>4, <2>5, WorksTurns
  <2>8a. f = Resumed(e, signs, rest)
    OBVIOUS
  <2> HIDE DEF f
  <2>9. ServerTurns(cli, srv, f) /\ Like(e, f)
    BY <2>7a, <2>8, <2>8a, ServerResumeTurns
  <2>10. f.ret = "STATELESS_RETRY" => f.st \in ServerHelloStates
    BY <2>7, <2>9 DEF ServerHolds, GoesOn, ServerStage, Like
  <2>11. ServerStays(cli, srv, srv')
    BY <2>2, <2>9, <2>10, ServerGoesOn
  <2>12. ClientMarks(toSrv, cli)'
    BY <2>2 DEF ClientMarks
  <2> QED
    BY <2>2, <2>11, <2>12
<1>6. CASE ServerSend
  <2> DEFINE m == Data(FALSE, Len(srv.sent) + 1)
             f == PtlsSend(srv, m)
             yes == TRUE
  <2>1. MessageTyped(m)
    BY DEF Data, MessageTyped
  <2>2. /\ Open(srv) /\ srv.ret = "OK"
        /\ srv' = Renewed(f) /\ cli' = cli /\ toSrv' = toSrv
    BY <1>6 DEF ServerSend, ServerGoes, Open
  <2> HIDE DEF m
  <2>3. /\ Sending(toCli, srv.out, srv.enc, V) /\ Apart(V, U, yes) /\ srv.enc.aead # <<>>
        /\ {"enc", "out"} \subseteq DOMAIN srv /\ yes \in BOOLEAN
    BY <1>3, <2>2 DEF ServerHolds, ServerStage, ServerShape, ServerFields
  <2> HIDE DEF yes
  <2>4. /\ Same(srv, f, {"enc", "out", "needsKU", "reqKU", "sent"})
        /\ \E V2 : Sending(toCli, f.out, f.enc, V2)
    <3>1. /\ Same(srv, f, {"enc", "out", "needsKU", "reqKU", "sent"})
          /\ \E V2 : /\ Apart(V2, U, yes) /\ Sending(toCli, f.out, f.enc, V2)
                     /\ \A label : Unused(V, label) => Unused(V2, label)
      BY <2>1, <2>3, PtlsSendSends, SMTT(60)
    <3> HIDE DEF f
    <3> QED BY <3>1, Zenon
  <2> HIDE DEF f
  <2>5. Traffic(f.enc)
    BY <2>4 DEF Sending
  <2>6. {"secret", "seq", "aead"} \subseteq DOMAIN f.enc
    BY <2>5 DEF Traffic
  <2>7. /\ ServerEnd(srv) /\ ServerStory(srv) /\ ServerEnd(f) /\ f.dec.secret = srv.dec.secret
        /\ f.ret = "OK"
        /\ Same(srv, f, {"ret", "dec", "got", "enc", "out", "needsKU", "reqKU", "sent", "skipped"})
    BY <1>3, <2>2, <2>4, <2>6 DEF Same, ServerEnd, ServerEndFields
  <2>8. ServerTurns(cli, srv, f)
    BY <2>7, ServerRemains
  <2>9. ServerStays(cli, srv, srv')
    BY <2>2, <2>7, <2>8, ServerGoesOn
  <2>10. ClientMarks(toSrv, cli)'
    BY <2>2 DEF ClientMarks
  <2> QED
    BY <2>2, <2>9, <2>10
<1> QED
  BY <1>4, <1>5, <1>6 DEF Server

-----------------------------------------------------------------------------
(* Both ends, and what they promise. *)

AInv == IInv /\ ClientMarks(toSrv, cli) /\ ServerMarks(srv)

ViewOf(c) == View(c, ClientEarly(c))
ViewAt(s) == View(s, s.expEarly)

LEMMA ViewIs ==
  ASSUME NEW e, NEW early
  PROVE  /\ e.st = "POST_HANDSHAKE" =>
               View(e, early) = Outcome(e, early) /\ View(e, early)[1] = "done"
         /\ e.st # "POST_HANDSHAKE" /\ Open(e) => View(e, early) = <<"running">>
         /\ e.st # "POST_HANDSHAKE" => View(e, early) \in {<<"running">>, <<"failed">>}
<1>1. Outcome(e, early)[1] = "done"
  BY DEF Outcome
<1> QED
  BY <1>1 DEF View

LEMMA ClientViewed ==
  ASSUME NEW c, Open(c), NEW d, ClientStays(c, d)
  PROVE  \/ ViewOf(d) = ViewOf(c)
         \/ ViewOf(c) = <<"running">> /\ (ViewOf(d) = <<"failed">> \/ ViewOf(d)[1] = "done")
<1>1. CASE c.st = "POST_HANDSHAKE"
  <2>1. d.st = "POST_HANDSHAKE" /\ SameOutcome(c, d) /\ d.acceptance = c.acceptance
    BY <1>1 DEF ClientStays
  <2>2. ClientEarly(d) = ClientEarly(c)
    BY <2>1 DEF ClientEarly, SameOutcome
  <2> DEFINE early == ClientEarly(c)
  <2> HIDE DEF early
  <2>3. Outcome(d, early) = Outcome(c, early)
    BY <2>1 DEF Outcome, SameOutcome
  <2>4. View(d, early) = Outcome(d, early) /\ View(c, early) = Outcome(c, early)
    BY <1>1, <2>1, ViewIs
  <2>5. ViewOf(d) = View(d, early) /\ ViewOf(c) = View(c, early)
    BY <2>2 DEF ViewOf, early
  <2> QED
    BY <2>3, <2>4, <2>5
<1>2. CASE c.st # "POST_HANDSHAKE"
  <2>1. ViewOf(c) = <<"running">>
    BY <1>2, ViewIs DEF ViewOf
  <2>2. ViewOf(d) \in {<<"running">>, <<"failed">>} \/ ViewOf(d)[1] = "done"
    BY ViewIs DEF ViewOf
  <2> QED
    BY <2>1, <2>2
<1> QED
  BY <1>1, <1>2

LEMMA ServerViewed ==
  ASSUME NEW c, NEW s, Open(s), NEW d, ServerStays(c, s, d)
  PROVE  \/ ViewAt(d) = ViewAt(s)
         \/ /\ ViewAt(s) = <<"running">>
            /\ ViewAt(d) = <<"failed">> \/ (ViewOf(c)[1] = "done" /\ ViewAt(d) = ViewOf(c))
<1>1. CASE s.st = "POST_HANDSHAKE"
  <2>1. d.st = "POST_HANDSHAKE" /\ SameOutcome(s, d)
    BY <1>1 DEF ServerStays
  <2>2. Outcome(d, d.expEarly) = Outcome(s, s.expEarly)
    BY <2>1 DEF Outcome, SameOutcome
  <2>3. ViewAt(d) = Outcome(d, d.expEarly) /\ ViewAt(s) = Outcome(s, s.expEarly)
    BY <1>1, <2>1, ViewIs DEF ViewAt
  <2> QED
    BY <2>2, <2>3
<1>2. CASE s.st # "POST_HANDSHAKE" /\ d.st = "POST_HANDSHAKE"
  <2>1. ViewAt(s) = <<"running">>
    BY <1>2, ViewIs DEF ViewAt
  <2>2. Agrees(c, d)
    BY <1>2 DEF ServerStays
  <2>3. ViewOf(c) = Outcome(c, ClientEarly(c)) /\ ViewOf(c)[1] = "done"
    BY <2>2, ViewIs DEF ViewOf, Agrees
  <2>4. ViewAt(d) = Outcome(d, d.expEarly)
    BY <1>2, ViewIs DEF ViewAt
  <2>5. Outcome(d, d.expEarly) = Outcome(c, ClientEarly(c))
    BY <2>2 DEF Outcome, Agrees
  <2> QED
    BY <2>1, <2>3, <2>4, <2>5
<1>3. CASE s.st # "POST_HANDSHAKE" /\ d.st # "POST_HANDSHAKE"
  <2>1. ViewAt(s) = <<"running">>
    BY <1>3, ViewIs DEF ViewAt
  <2>2. ViewAt(d) \in {<<"running">>, <<"failed">>}
    BY <1>3, ViewIs DEF ViewAt
  <2> QED
    BY <2>1, <2>2
<1> QED
  BY <1>1, <1>2, <1>3

LEMMA NewEnds ==
  ASSUME NEW p, NEW q
  PROVE  /\ ClientMarks(<<>>, NewClient(p)) /\ ServerMarks(NewServer(q))
         /\ ViewOf(NewClient(p)) = <<"running">> /\ ViewAt(NewServer(q)) = <<"running">>
<1> DEFINE c == NewClient(p)
           s == NewServer(q)
<1>1. c.st = "HANDSHAKE_START" /\ Open(c)
  BY DEF NewClient, Open
<1>2. s = [s EXCEPT !.asserts = s.asserts]
  BY DEF NewServer
<1>3. ClientMarks(<<>>, c)
  BY NewClientMarks
<1> HIDE DEF c
<1>4. ServerMarks(s) /\ s.st = "EXPECT_CLIENT_HELLO" /\ Open(s)
  BY <1>2, NewServerMarks
<1> HIDE DEF s
<1>5. ViewOf(c) = <<"running">> /\ ViewAt(s) = <<"running">>
  BY <1>1, <1>4, ViewIs DEF ViewOf, ViewAt
<1> QED
  BY <1>3, <1>4, <1>5 DEF c, s

LEMMA AgreementBegins == Init => AInv /\ Agreement!Init
<1> SUFFICES ASSUME Init PROVE AInv /\ Agreement!Init
  OBVIOUS
<1>1. IInv
  BY InitHolds
<1>2. cli = NewClient(plan[1].c) /\ srv = NewServer(plan[1].s) /\ toSrv = <<>>
  BY DEF Init
<1>3. ClientMarks(toSrv, cli) /\ ServerMarks(srv)
      /\ ViewOf(cli) = <<"running">> /\ ViewAt(srv) = <<"running">>
  BY <1>2, NewEnds
<1> QED
  BY <1>1, <1>3 DEF AInv, Agreement!Init, Agreement!Running, ViewOf, ViewAt, ClientEarly

LEMMA AgreementSteps == AInv /\ [Next]_vars => AInv' /\ [Agreement!Next]_Agreement!agreementVars
<1> SUFFICES ASSUME AInv, [Next]_vars
             PROVE  AInv' /\ (Agreement!Next \/ UNCHANGED Agreement!agreementVars)
  OBVIOUS
<1>1. IInv /\ ClientMarks(toSrv, cli) /\ ServerMarks(srv) /\ IInv'
  BY NextHolds DEF AInv
<1> DEFINE cv == View(cli, IF cli.acceptance = "ACCEPTED" THEN cli.expEarly ELSE <<>>)
           sv == View(srv, srv.expEarly)
<1>2. cv = ViewOf(cli) /\ sv = ViewAt(srv) /\ cv' = ViewOf(cli') /\ sv' = ViewAt(srv')
  BY DEF ViewOf, ViewAt, ClientEarly
<1>3. /\ UNCHANGED Agreement!agreementVars <=> cv' = cv /\ sv' = sv
      /\ Agreement!ClientFails <=> cv = <<"running">> /\ cv' = <<"failed">> /\ sv' = sv
      /\ Agreement!ClientDone <=> cv = <<"running">> /\ cv'[1] = "done" /\ sv' = sv
      /\ Agreement!ServerFails <=> sv = <<"running">> /\ sv' = <<"failed">> /\ cv' = cv
      /\ Agreement!ServerDone <=> /\ sv = <<"running">> /\ cv[1] = "done"
                                  /\ sv' = cv /\ cv' = cv
      /\ Agreement!NextConnection <=> /\ cv # <<"running">> /\ sv # <<"running">>
                                      /\ cv' = <<"running">> /\ sv' = <<"running">>
  BY DEF Agreement!agreementVars, Agreement!ClientFails, Agreement!ClientDone,
         Agreement!ServerFails, Agreement!ServerDone, Agreement!NextConnection,
         Agreement!Running, Agreement!Failed
<1> HIDE DEF cv, sv
<1>4. CASE Client
  <2>1. ClientMarks(toSrv, cli)' /\ ClientStays(cli, cli') /\ srv' = srv /\ Open(cli)
    BY <1>1, <1>4, ClientStepMarks
  <2>2. AInv'
    BY <1>1, <2>1 DEF AInv
  <2>3. sv' = sv
    BY <1>2, <2>1
  <2>4. cv' = cv \/ (cv = <<"running">> /\ (cv' = <<"failed">> \/ cv'[1] = "done"))
    BY <1>2, <2>1, ClientViewed
  <2> QED
    BY <1>3, <2>2, <2>3, <2>4 DEF Agreement!Next
<1>5. CASE Server
  <2>1. /\ ClientMarks(toSrv, cli)' /\ cli' = cli /\ Open(srv) /\ ServerStays(cli, srv, srv')
    BY <1>1, <1>5, ServerStepMarks
  <2>2. AInv'
    BY <1>1, <2>1 DEF AInv, ServerStays
  <2>3. cv' = cv
    BY <1>2, <2>1
  <2>4. sv' = sv \/ (sv = <<"running">> /\ (sv' = <<"failed">> \/ (cv[1] = "done" /\ sv' = cv)))
    BY <1>2, <2>1, ServerViewed
  <2> QED
    BY <1>3, <2>2, <2>3, <2>4 DEF Agreement!Next
<1>6. CASE Reconnect
  <2>1. /\ toSrv' = <<>> /\ cli.st = "POST_HANDSHAKE" /\ srv.st = "POST_HANDSHAKE"
        /\ cli' = NewClient(plan[conn + 1].c) /\ srv' = NewServer(plan[conn + 1].s)
    BY <1>6 DEF Reconnect, Quiet, Complete
  <2>2. /\ ClientMarks(toSrv, cli)' /\ ServerMarks(srv)'
        /\ cv' = <<"running">> /\ sv' = <<"running">>
    BY <1>2, <2>1, NewEnds
  <2>3. cv[1] = "done" /\ sv[1] = "done"
    BY <1>2, <2>1, ViewIs DEF ViewOf, ViewAt
  <2>4. cv # <<"running">> /\ sv # <<"running">>
    BY <2>3
  <2> QED
    BY <1>1, <1>3, <2>2, <2>4 DEF AInv, Agreement!Next
<1>7. CASE UNCHANGED vars
  <2>1. toSrv' = toSrv /\ cli' = cli /\ srv' = srv
    BY <1>7 DEF vars
  <2>2. cv' = cv /\ sv' = sv /\ AInv'
    BY <1>1, <1>2, <2>1 DEF AInv
  <2> QED
    BY <1>3, <2>2
<1> QED
  BY <1>4, <1>5, <1>6, <1>7 DEF Next

\* Both ends come to the same outcome, or an end fails: the client finishes
\* first, the server only with the outcome that the client has, and neither
\* changes it afterwards.  The outcome is the exporter secrets of the
\* handshake and of the early data, the suite, the PSK, the protocol and ECH.
THEOREM EndsAgree == Spec => ImplementsAgreement
<1>1. Init => AInv /\ Agreement!Init
  BY AgreementBegins
<1>2. AInv /\ [Next]_vars => AInv' /\ [Agreement!Next]_Agreement!agreementVars
  BY AgreementSteps
<1> QED
  BY <1>1, <1>2, PTL DEF Spec, ImplementsAgreement, Agreement!Spec

=============================================================================

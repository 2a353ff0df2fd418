------------------------- MODULE PtlsConnectionProof -------------------------
(***************************************************************************)
(* Proofs about two ends of picotls.c, for every plan of connections:      *)
(* the type invariant, and that no key ever protects two different records *)
(* under one sequence number.                                              *)
(*                                                                         *)
(* The argument keeps, for each end, the set of the secrets it has sealed  *)
(* with on this connection (U for the client, V for the server).  A secret *)
(* is derived under one of the end's own labels, or is the next one of a   *)
(* secret used before; so a key that is set up is always a new one, and    *)
(* under the key in use the numbers only rise.                             *)
(***************************************************************************)
EXTENDS PtlsConnection, SequenceTheorems, WellFoundedInduction, TLAPS

(* Sequences of any elements. *)

IsSeq(q) == \E X : q \in Seq(X)

LEMMA LenOfSeq == ASSUME NEW q, IsSeq(q) PROVE Len(q) \in Nat
  BY DEF IsSeq

LEMMA EmptyIsSeq == IsSeq(<<>>) /\ Len(<<>>) = 0
<1>1. <<>> \in Seq({})
  OBVIOUS
<1> QED
  BY <1>1 DEF IsSeq

LEMMA SeqSum ==
  ASSUME NEW p, NEW q, IsSeq(p), IsSeq(q)
  PROVE  /\ IsSeq(p \o q) /\ Len(p \o q) = Len(p) + Len(q)
         /\ \A i \in 1..Len(p) : (p \o q)[i] = p[i]
         /\ \A i \in 1..Len(q) : (p \o q)[Len(p) + i] = q[i]
         /\ \A i \in 1..Len(p \o q) : \/ i \in 1..Len(p)
                                      \/ i - Len(p) \in 1..Len(q)
<1>1. PICK X : p \in Seq(X)
  BY DEF IsSeq
<1>2. PICK Y : q \in Seq(Y)
  BY DEF IsSeq
<1> DEFINE Z == X \cup Y
<1>3. p \in Seq(Z) /\ q \in Seq(Z)
  BY <1>1, <1>2, SeqMonotonic
<1> HIDE DEF Z
<1>4. /\ p \o q \in Seq(Z) /\ Len(p \o q) = Len(p) + Len(q)
      /\ Len(p) \in Nat /\ Len(q) \in Nat
      /\ \A i \in 1..Len(p) + Len(q) :
            (p \o q)[i] = IF i <= Len(p) THEN p[i] ELSE q[i - Len(p)]
  BY <1>3, ConcatProperties, LenProperties
<1> QED
  BY <1>4 DEF IsSeq

LEMMA SeqSumEmpty == ASSUME NEW q, IsSeq(q) PROVE q \o <<>> = q /\ <<>> \o q = q
  BY ConcatEmptySeq DEF IsSeq

LEMMA SeqSumAssociates ==
  ASSUME NEW p, NEW q, NEW r, IsSeq(p), IsSeq(q), IsSeq(r)
  PROVE  p \o (q \o r) = (p \o q) \o r
<1>1. PICK X : p \in Seq(X)
  BY DEF IsSeq
<1>2. PICK Y : q \in Seq(Y)
  BY DEF IsSeq
<1>3. PICK Z : r \in Seq(Z)
  BY DEF IsSeq
<1> DEFINE W == X \cup Y \cup Z
<1>4. p \in Seq(W) /\ q \in Seq(W) /\ r \in Seq(W)
  BY <1>1, <1>2, <1>3, SeqMonotonic
<1> HIDE DEF W
<1> QED
  BY <1>4, ConcatAssociative

LEMMA SeqAppended ==
  ASSUME NEW q, NEW r, IsSeq(q)
  PROVE  /\ Append(q, r) = q \o <<r>>
         /\ IsSeq(<<r>>) /\ Len(<<r>>) = 1 /\ <<r>>[1] = r
<1>1. PICK X : q \in Seq(X)
  BY DEF IsSeq
<1> DEFINE Z == X \cup {r}
<1>2. q \in Seq(Z) /\ r \in Z
  BY <1>1, SeqMonotonic
<1> HIDE DEF Z
<1>3. <<r>> \in Seq(Z)
  BY <1>2
<1> QED
  BY <1>2, <1>3, AppendIsConcat DEF IsSeq

LEMMA SeqTail ==
  ASSUME NEW q, IsSeq(q), q # <<>>
  PROVE  /\ IsSeq(Tail(q)) /\ Len(Tail(q)) = Len(q) - 1 /\ Len(q) \in Nat \ {0}
         /\ \A i \in 1..Len(Tail(q)) : Tail(q)[i] = q[i + 1]
         /\ Head(q) = q[1]
<1>1. PICK X : q \in Seq(X)
  BY DEF IsSeq
<1>2. /\ Tail(q) \in Seq(X) /\ Len(Tail(q)) = Len(q) - 1
      /\ \A i \in 1..Len(Tail(q)) : Tail(q)[i] = q[i + 1]
      /\ Len(q) \in Nat \ {0}
  BY <1>1, HeadTailProperties, EmptySeq
<1>3. Head(q) = q[1]
  BY <1>1
<1> QED
  BY <1>2, <1>3 DEF IsSeq

-----------------------------------------------------------------------------
(* Secrets: whose they are, and which ones are new. *)

IsDerived(x, label) == x[1] = "derived" /\ x[2] = label

Unused(U, label) == \A x \in U : ~IsDerived(x, label)

ClientLabels == {"c_e_traffic", "c_hs_traffic", "c_ap_traffic"}
ServerLabels == {"s_hs_traffic", "s_ap_traffic"}

Labels(server) == IF server THEN ServerLabels ELSE ClientLabels

\* Secrets of one end, with all that led to them.
Closed(U, labels) ==
    \A x \in U : \/ x[1] = "derived" /\ x[2] \in labels
                 \/ \E y \in U : x = NextSecret(y)

\* The secrets of an end and those of the other one.
Apart(U, V, server) == /\ Closed(U, Labels(server)) /\ Closed(V, Labels(~server))
                       /\ U \cap V = {}

\* A secret that may be set up: it was not used, and its successor neither.
New(x, U) == x \notin U /\ NextSecret(x) \notin U \cup {x}

LEMMA NextIs ==
  ASSUME NEW x, NEW y
  PROVE  /\ NextSecret(x) = NextSecret(y) => x = y
         /\ NextSecret(x)[1] = "traffic_upd"
<1>1. NextSecret(x)[2] = x /\ NextSecret(y)[2] = y /\ NextSecret(x)[1] = "traffic_upd"
  BY DEF NextSecret
<1> QED
  BY <1>1

LEMMA DerivedIs == ASSUME NEW s, NEW label PROVE IsDerived(Derive(s, label), label)
  BY DEF Derive, DeriveFrom, IsDerived

LEMMA DerivedIsNew ==
  ASSUME NEW U, NEW V, NEW server \in BOOLEAN, Apart(U, V, server),
         NEW label \in Labels(server), Unused(U, label), NEW x, IsDerived(x, label)
  PROVE  New(x, U) /\ Apart(U \cup {x}, V, server)
<1>1. x \notin U /\ x[1] = "derived" /\ x[2] = label
  BY DEF Unused, IsDerived
<1>2. NextSecret(x) \notin U \cup {x}
  <2>1. NextSecret(x)[1] = "traffic_upd" /\ \A y : NextSecret(x) = NextSecret(y) => x = y
    BY NextIs
  <2> QED
    BY <1>1, <2>1 DEF Apart, Closed
<1>3. Closed(U \cup {x}, Labels(server))
  BY <1>1 DEF Apart, Closed
<1>4. x \notin V
  <2>1. label \notin Labels(~server)
    BY DEF Labels, ClientLabels, ServerLabels
  <2>2. \A y : NextSecret(y) # x
    BY <1>1, NextIs
  <2> QED
    BY <1>1, <2>1, <2>2 DEF Apart, Closed
<1> QED
  BY <1>1, <1>2, <1>3, <1>4 DEF New, Apart

LEMMA NextIsNew ==
  ASSUME NEW U, NEW V, NEW server \in BOOLEAN, Apart(U, V, server),
         NEW y \in U, NextSecret(y) \notin U
  PROVE  /\ New(NextSecret(y), U)
         /\ Apart(U \cup {NextSecret(y)}, V, server)
         /\ \A label : Unused(U, label) => Unused(U \cup {NextSecret(y)}, label)
<1> DEFINE x == NextSecret(y)
<1>1. x[1] = "traffic_upd" /\ x \notin U
  BY NextIs
<1>2. \A z : x = NextSecret(z) => z = y
  BY NextIs
<1>3. NextSecret(x)[1] = "traffic_upd" /\ \A z : NextSecret(x) = NextSecret(z) => x = z
  BY NextIs
<1>4. NextSecret(x) # x
  BY <1>1, <1>2
<1>5. NextSecret(x) \notin U
  BY <1>1, <1>3 DEF Apart, Closed
<1>6. Closed(U \cup {x}, Labels(server))
  BY DEF Apart, Closed
<1>7. x \notin V
  BY <1>1, <1>2 DEF Apart, Closed
<1>8. \A label : Unused(U, label) => Unused(U \cup {x}, label)
  BY <1>1 DEF Unused, IsDerived
<1> QED
  BY <1>1, <1>4, <1>5, <1>6, <1>7, <1>8 DEF New, Apart

LEMMA ApartTurned ==
  ASSUME NEW U, NEW V, NEW server \in BOOLEAN
  PROVE  Apart(U, V, server) <=> Apart(V, U, ~server)
  BY DEF Apart, Labels

-----------------------------------------------------------------------------
(* Records on their way, and the end that seals them. *)

\* A ClientHello within another one, and one whose PSK no server knows.
Inside(ch) == ch.ech # <<>> /\ ch.ech[1].typ = "inner"
Decoy(ch)  == ch.psk = <<>> \/ ch.psk[1].id = <<"random">>

HelloTyped(ch) ==
    /\ {"mt", "psk", "ech"} \subseteq DOMAIN ch /\ ch.tickets \in Nat \X Nat
    /\ ch.psk # <<>> => 1 \in DOMAIN ch.psk /\ "id" \in DOMAIN ch.psk[1]

EchTyped(ech) ==
    ech # <<>> /\ ech[1].typ = "outer" =>
        HelloTyped(ech[1].inner[1]) /\ Inside(ech[1].inner[1])

\* The fields of a message that are read of it once it is hashed.
MessageTyped(m) ==
    /\ m.mt \in {"FIN", "CV"} => "mt" \in DOMAIN m
    /\ m.mt = "SH" => {"mt", "cs", "psk"} \subseteq DOMAIN m
    /\ m.mt = "CH" => HelloTyped(m) /\ EchTyped(m.ech)

\* Every record is sealed under a secret of U, and no two alike.
Numbered(q, U) ==
    /\ IsSeq(q)
    /\ \A i \in 1..Len(q) : /\ q[i].seq \in Nat /\ MessageTyped(q[i].msg)
                            /\ q[i].key # <<>> => q[i].key[2] \in U
    /\ \A i, j \in 1..Len(q) :
          q[i].key # <<>> /\ q[i].key = q[j].key /\ q[i].seq = q[j].seq => i = j

Traffic(tp) ==
    /\ tp = [epoch |-> tp.epoch, secret |-> tp.secret, aead |-> tp.aead, seq |-> tp.seq]
    /\ tp.epoch \in 0..3 /\ tp.seq \in Nat

\* The key in use: its secret is the newest one, its numbers are below seq.
UsesKey(q, tp, U) ==
    tp.aead # <<>> => /\ tp.aead[2] = tp.secret
                      /\ tp.secret \in U /\ NextSecret(tp.secret) \notin U
                      /\ \A i \in 1..Len(q) : q[i].key = tp.aead => q[i].seq < tp.seq

\* An end with records in q that adds those in out.
Sending(q, out, tp, U) ==
    /\ IsSeq(q) /\ IsSeq(out) /\ Traffic(tp)
    /\ Numbered(q \o out, U) /\ UsesKey(q \o out, tp, U)

LEMMA TrafficIs ==
  ASSUME NEW cs, NEW secret, NEW epoch \in 0..3
  PROVE  /\ Traffic(NoTraffic) /\ NoTraffic.aead = <<>>
         /\ Traffic(SetupTraffic(cs, secret, epoch))
         /\ SetupTraffic(cs, secret, epoch).aead = <<cs, secret>>
         /\ SetupTraffic(cs, secret, epoch).secret = secret
         /\ SetupTraffic(cs, secret, epoch).seq = 0
  BY DEF Traffic, NoTraffic, SetupTraffic

\* A new key.
LEMMA KeyIsSetUp ==
  ASSUME NEW q, NEW out, NEW tp, NEW U, Sending(q, out, tp, U),
         NEW cs, NEW x, NEW epoch \in 0..3, New(x, U)
  PROVE  Sending(q, out, SetupTraffic(cs, x, epoch), U \cup {x})
<1> DEFINE all == q \o out
           key == SetupTraffic(cs, x, epoch)
<1>1. Traffic(key) /\ key.aead = <<cs, x>> /\ key.secret = x
  BY TrafficIs
<1>2. Numbered(all, U) /\ IsSeq(q) /\ IsSeq(out)
  BY DEF Sending
<1> HIDE DEF all, key
<1>3. Numbered(all, U \cup {x})
  BY <1>2 DEF Numbered
<1>4. ASSUME NEW i \in 1..Len(all), all[i].key = <<cs, x>> PROVE FALSE
  <2>1. all[i].key # <<>> /\ all[i].key[2] = x
    BY <1>4
  <2>2. all[i].key[2] \in U
    BY <1>2, <2>1 DEF Numbered
  <2> QED
    BY <2>1, <2>2 DEF New
<1>5. UsesKey(all, key, U \cup {x})
  BY <1>1, <1>4 DEF UsesKey, New
<1> QED
  BY <1>1, <1>2, <1>3, <1>5 DEF Sending, all, key

\* Records that are in clear or under the key in use, with numbers of their own.
Adds(new, tp, tp2) ==
    /\ IsSeq(new) /\ Traffic(tp2)
    /\ tp2.aead = tp.aead /\ tp2.secret = tp.secret /\ tp2.seq >= tp.seq
    /\ \A i \in 1..Len(new) :
          /\ new[i].seq \in Nat /\ MessageTyped(new[i].msg)
          /\ new[i].key # <<>> => /\ new[i].key = tp.aead
                                  /\ new[i].seq >= tp.seq /\ new[i].seq < tp2.seq
    /\ \A i, j \in 1..Len(new) :
          new[i].key # <<>> /\ new[i].key = new[j].key /\ new[i].seq = new[j].seq => i = j

LEMMA RecordsAreAdded ==
  ASSUME NEW q, NEW out, NEW tp, NEW U, Sending(q, out, tp, U),
         NEW new, NEW tp2, Adds(new, tp, tp2)
  PROVE  Sending(q, out \o new, tp2, U)
<1>0. /\ IsSeq(new) /\ Traffic(tp2)
      /\ tp2.aead = tp.aead /\ tp2.secret = tp.secret /\ tp2.seq >= tp.seq
      /\ \A i \in 1..Len(new) :
            /\ new[i].seq \in Nat /\ MessageTyped(new[i].msg)
            /\ new[i].key # <<>> => /\ new[i].key = tp.aead
                                    /\ new[i].seq >= tp.seq /\ new[i].seq < tp2.seq
      /\ \A i, j \in 1..Len(new) :
            new[i].key # <<>> /\ new[i].key = new[j].key /\ new[i].seq = new[j].seq => i = j
  BY DEF Adds
<1> DEFINE all == q \o out
           more == all \o new
<1>1. /\ IsSeq(q) /\ IsSeq(out) /\ IsSeq(all) /\ IsSeq(out \o new)
      /\ Numbered(all, U) /\ UsesKey(all, tp, U)
      /\ q \o (out \o new) = more
  BY <1>0, SeqSum, SeqSumAssociates DEF Sending
<1> HIDE DEF all
<1>2. /\ IsSeq(more) /\ Len(more) = Len(all) + Len(new)
      /\ \A i \in 1..Len(all) : more[i] = all[i]
      /\ \A i \in 1..Len(new) : more[Len(all) + i] = new[i]
      /\ \A i \in 1..Len(more) : i \in 1..Len(all) \/ i - Len(all) \in 1..Len(new)
      /\ Len(all) \in Nat /\ Len(new) \in Nat
  BY <1>0, <1>1, SeqSum, LenOfSeq
<1> HIDE DEF more
<1>2a. \A i \in 1..Len(more) : i \in 1..Len(all) \/ \E k \in 1..Len(new) : i = Len(all) + k
  <2> TAKE i \in 1..Len(more)
  <2>1. i = Len(all) + (i - Len(all))
    BY <1>0, <1>2
  <2> QED
    BY <1>0, <1>2, <2>1
<1>3. \A i \in 1..Len(more) : /\ more[i].seq \in Nat /\ MessageTyped(more[i].msg)
                              /\ more[i].key # <<>> => more[i].key[2] \in U
  <2> TAKE i \in 1..Len(more)
  <2>1. CASE i \in 1..Len(all)
    BY <1>0, <1>1, <1>2, <2>1 DEF Numbered
  <2>2. ASSUME NEW k \in 1..Len(new), i = Len(all) + k
        PROVE  /\ more[i].seq \in Nat /\ MessageTyped(more[i].msg)
               /\ more[i].key # <<>> => more[i].key[2] \in U
    <3>1. more[i] = new[k]
      BY <1>0, <1>2, <2>2
    <3> QED
      BY <1>0, <1>1, <3>1 DEF UsesKey
  <2> QED
    BY <1>0, <1>2a, <2>1, <2>2
<1>4. ASSUME NEW i \in 1..Len(more), NEW j \in 1..Len(more), more[i].key # <<>>,
             more[i].key = more[j].key, more[i].seq = more[j].seq
      PROVE  i = j
  <2>1. CASE i \in 1..Len(all) /\ j \in 1..Len(all)
    BY <1>0, <1>1, <1>2, <1>4, <2>1 DEF Numbered
  <2>2. ASSUME NEW k \in 1..Len(all), NEW l \in 1..Len(new), more[k].key # <<>>,
               more[k].key = more[Len(all) + l].key, more[k].seq = more[Len(all) + l].seq
        PROVE  FALSE
    <3>1. more[k] = all[k] /\ more[Len(all) + l] = new[l]
      BY <1>0, <1>2
    <3>2. new[l].key = tp.aead /\ new[l].seq >= tp.seq /\ tp.aead # <<>>
      BY <1>0, <2>2, <3>1
    <3>3. all[k].seq < tp.seq
      BY <1>0, <1>1, <2>2, <3>1, <3>2 DEF UsesKey
    <3> QED
      BY <2>2, <3>1, <3>2, <3>3, <1>1 DEF Numbered, Sending, Traffic
  <2>3. CASE i \in 1..Len(all) /\ j \notin 1..Len(all)
    BY <1>0, <1>2a, <1>4, <2>2, <2>3
  <2>4. CASE i \notin 1..Len(all) /\ j \in 1..Len(all)
    BY <1>0, <1>2a, <1>4, <2>2, <2>4
  <2>5. CASE i \notin 1..Len(all) /\ j \notin 1..Len(all)
    <3>1. PICK k \in 1..Len(new) : i = Len(all) + k
      BY <1>0, <1>2a, <2>5
    <3>2. PICK l \in 1..Len(new) : j = Len(all) + l
      BY <1>0, <1>2a, <2>5
    <3>3. more[i] = new[k] /\ more[j] = new[l]
      BY <1>0, <1>2, <3>1, <3>2
    <3>4. k = l
      BY <1>0, <1>4, <3>3
    <3> QED
      BY <3>1, <3>2, <3>4
  <2> QED
    BY <2>1, <2>3, <2>4, <2>5
<1>5. UsesKey(more, tp2, U)
  <2> SUFFICES ASSUME tp.aead # <<>> PROVE UsesKey(more, tp2, U)
    BY <1>0 DEF UsesKey
  <2>1. /\ tp.aead[2] = tp.secret /\ tp.secret \in U /\ NextSecret(tp.secret) \notin U
        /\ \A i \in 1..Len(all) : all[i].key = tp.aead => all[i].seq < tp.seq
    BY <1>0, <1>1 DEF UsesKey
  <2>2. ASSUME NEW i \in 1..Len(more), more[i].key = tp.aead PROVE more[i].seq < tp2.seq
    <3>1. CASE i \in 1..Len(all)
      <4>1. more[i] = all[i] /\ all[i].seq < tp.seq /\ all[i].seq \in Nat
        BY <1>0, <1>1, <1>2, <2>1, <2>2, <3>1 DEF Numbered
      <4> QED
        BY <1>0, <4>1 DEF Sending, Traffic
    <3>2. CASE i \notin 1..Len(all)
      <4>1. PICK k \in 1..Len(new) : i = Len(all) + k
        BY <1>0, <1>2a, <3>2
      <4>2. more[i] = new[k]
        BY <1>0, <1>2, <4>1
      <4> QED
        BY <1>0, <2>2, <4>2
    <3> QED
      BY <3>1, <3>2
  <2> QED
    BY <1>0, <2>1, <2>2 DEF UsesKey
<1> QED
  BY <1>0, <1>1, <1>2, <1>3, <1>4, <1>5 DEF Sending, Numbered

-----------------------------------------------------------------------------
(* The emitters: what they change of an end. *)

\* Nothing but the fields in `changed` differs.
Same(e, e2, changed) ==
    DOMAIN e2 = DOMAIN e /\ \A f \in DOMAIN e \ changed : e2[f] = e[f]

Emits(q, U, e, e2) == /\ Sending(q, e2.out, e2.enc, U)
                      /\ e2.enc.aead = e.enc.aead /\ e2.enc.secret = e.enc.secret

LEMMA SealedIs ==
  ASSUME NEW tp, NEW m
  PROVE  /\ Sealed(tp, m).key = tp.aead /\ Sealed(tp, m).msg = m
         /\ tp.aead # <<>> => Sealed(tp, m).seq = tp.seq
         /\ tp.aead = <<>> => Sealed(tp, m).seq = 0
         /\ Record(m).key = <<>> /\ Record(m).seq = 0 /\ Record(m).msg = m
  BY DEF Sealed, Record

LEMMA EmitSends ==
  ASSUME NEW q, NEW U, NEW e, {"enc", "out"} \subseteq DOMAIN e,
         Sending(q, e.out, e.enc, U), NEW m, MessageTyped(m)
  PROVE  Same(e, Emit(e, m), {"enc", "out"}) /\ Emits(q, U, e, Emit(e, m))
<1> DEFINE e2 == Emit(e, m)
           r == Sealed(e.enc, m)
<1>1. /\ Same(e, e2, {"enc", "out"}) /\ e2.out = Append(e.out, r)
      /\ e2.enc = [e.enc EXCEPT !.seq = IF e.enc.aead = <<>> THEN @ ELSE @ + 1]
  BY DEF Emit, Same
<1>2. /\ Traffic(e2.enc) /\ e2.enc.aead = e.enc.aead /\ e2.enc.secret = e.enc.secret
      /\ e2.enc.seq = (IF e.enc.aead = <<>> THEN e.enc.seq ELSE e.enc.seq + 1)
      /\ e.enc.seq \in Nat
  BY <1>1 DEF Sending, Traffic
<1>3. /\ r.key = e.enc.aead /\ r.msg = m
      /\ r.key # <<>> => r.seq = e.enc.seq
      /\ r.seq \in Nat
  BY <1>2, SealedIs
<1> HIDE DEF e2, r
<1>4. e2.out = e.out \o <<r>> /\ IsSeq(<<r>>) /\ Len(<<r>>) = 1 /\ <<r>>[1] = r
  BY <1>1, SeqAppended DEF Sending
<1>5. \A i \in 1..Len(<<r>>) : i = 1
  BY <1>4
<1>5a. Adds(<<r>>, e.enc, e2.enc)
  BY <1>2, <1>3, <1>4, <1>5 DEF Adds
<1>6. Sending(q, e2.out, e2.enc, U)
  BY <1>4, <1>5a, RecordsAreAdded
<1> QED
  BY <1>1, <1>2, <1>6 DEF Emits, e2

LEMMA PushSends ==
  ASSUME NEW q, NEW U, NEW e, {"enc", "out"} \subseteq DOMAIN e,
         Sending(q, e.out, e.enc, U), NEW m, MessageTyped(m)
  PROVE  Same(e, Push(e, m), {"enc", "out", "sched"}) /\ Emits(q, U, e, Push(e, m))
<1>1. Same(e, Emit(e, m), {"enc", "out"}) /\ Emits(q, U, e, Emit(e, m))
  BY EmitSends
<1>2. Same(Emit(e, m), Push(e, m), {"sched"})
  BY DEF Push, Same
<1> QED
  BY <1>1, <1>2 DEF Same, Emits

LEMMA PlainSends ==
  ASSUME NEW q, NEW U, NEW out, NEW tp, Sending(q, out, tp, U), NEW m, MessageTyped(m)
  PROVE  Sending(q, Append(out, Record(m)), tp, U)
<1> DEFINE r == Record(m)
<1>1. r.key = <<>> /\ r.seq = 0 /\ r.msg = m
  BY SealedIs
<1> HIDE DEF r
<1>2. Append(out, r) = out \o <<r>> /\ IsSeq(<<r>>) /\ Len(<<r>>) = 1 /\ <<r>>[1] = r
  BY SeqAppended DEF Sending
<1>3. \A i \in 1..Len(<<r>>) : i = 1
  BY <1>2
<1>4. Traffic(tp) /\ tp.seq >= tp.seq
  BY DEF Sending, Traffic
<1> QED
  <2>1. Adds(<<r>>, tp, tp)
    BY <1>1, <1>2, <1>3, <1>4 DEF Adds
  <2> QED
    BY <1>2, <2>1, RecordsAreAdded DEF r

LEMMA PushCCSSends ==
  ASSUME NEW q, NEW U, NEW e, {"enc", "out"} \subseteq DOMAIN e,
         Sending(q, e.out, e.enc, U)
  PROVE  Same(e, PushCCS(e), {"out", "ccs"}) /\ Emits(q, U, e, PushCCS(e))
<1>1. MessageTyped([mt |-> "CCS"])
  BY DEF MessageTyped
<1>2. Sending(q, Append(e.out, Record([mt |-> "CCS"])), e.enc, U)
  BY <1>1, PlainSends
<1> QED
  BY <1>2 DEF PushCCS, Same, Emits

LEMMA CopiesAreSent ==
  ASSUME NEW q, NEW U, NEW e, {"enc", "out"} \subseteq DOMAIN e,
         Sending(q, e.out, e.enc, U), NEW m, MessageTyped(m), NEW n \in Nat
  PROVE  Same(e, EmitCopies(e, m, n), {"enc", "out"}) /\ Emits(q, U, e, EmitCopies(e, m, n))
<1> DEFINE e2 == EmitCopies(e, m, n)
           r(i) == Sealed([e.enc EXCEPT !.seq = @ + i - 1], m)
           new == [i \in 1..n |-> r(i)]
<1>1. /\ Same(e, e2, {"enc", "out"}) /\ e2.out = e.out \o new
      /\ e2.enc = [e.enc EXCEPT !.seq = IF e.enc.aead = <<>> THEN @ ELSE @ + n]
  BY DEF EmitCopies, Same
<1> HIDE DEF e2
<1>2. /\ Traffic(e2.enc) /\ e2.enc.aead = e.enc.aead /\ e2.enc.secret = e.enc.secret
      /\ e2.enc.seq = (IF e.enc.aead = <<>> THEN e.enc.seq ELSE e.enc.seq + n)
      /\ e.enc.seq \in Nat /\ e2.enc.seq >= e.enc.seq
  BY <1>1 DEF Sending, Traffic
<1>3. ASSUME NEW i \in 1..n
      PROVE  /\ r(i).key = e.enc.aead /\ r(i).msg = m /\ r(i).seq \in Nat
             /\ e.enc.aead # <<>> => r(i).seq = e.enc.seq + i - 1
  <2> DEFINE tp == [e.enc EXCEPT !.seq = @ + i - 1]
  <2>1. tp.aead = e.enc.aead /\ tp.seq = e.enc.seq + i - 1
    BY DEF Sending, Traffic
  <2> HIDE DEF tp
  <2>2. /\ Sealed(tp, m).key = e.enc.aead /\ Sealed(tp, m).msg = m
        /\ e.enc.aead # <<>> => Sealed(tp, m).seq = e.enc.seq + i - 1
        /\ e.enc.aead = <<>> => Sealed(tp, m).seq = 0
    BY <2>1, SealedIs
  <2>3. e.enc.seq + i - 1 \in Nat
    BY <1>2
  <2> QED
    BY <2>2, <2>3 DEF tp
<1> HIDE DEF r
<1>4. IsSeq(new) /\ Len(new) = n /\ \A i \in 1..n : new[i] = r(i)
  <2> DEFINE Z == {r(i) : i \in 1..n}
  <2>1. new \in [1..n -> Z] /\ \A i \in 1..n : new[i] = r(i)
    OBVIOUS
  <2> HIDE DEF new, Z
  <2>2. new \in Seq(Z) /\ DOMAIN new = 1..n
    BY <2>1
  <2>3. Len(new) = n
    BY <2>2, LenProperties
  <2> QED
    BY <2>1, <2>2, <2>3 DEF IsSeq
<1> HIDE DEF new
<1>5. \A i \in 1..Len(new) :
         /\ new[i].seq \in Nat /\ MessageTyped(new[i].msg)
         /\ new[i].key # <<>> => /\ new[i].key = e.enc.aead
                                 /\ new[i].seq >= e.enc.seq /\ new[i].seq < e2.enc.seq
  BY <1>2, <1>3, <1>4
<1>6. \A i, j \in 1..Len(new) :
         new[i].key # <<>> /\ new[i].key = new[j].key /\ new[i].seq = new[j].seq => i = j
  BY <1>2, <1>3, <1>4
<1>7. Sending(q, e2.out, e2.enc, U)
  <2>1. Adds(new, e.enc, e2.enc)
    BY <1>2, <1>4, <1>5, <1>6 DEF Adds
  <2> QED
    BY <1>1, <2>1, RecordsAreAdded
<1> QED
  BY <1>1, <1>2, <1>7 DEF Emits, e2

\* What was written is dropped.
LEMMA OutputDropped ==
  ASSUME NEW q, NEW U, NEW out, NEW tp, Sending(q, out, tp, U)
  PROVE  Sending(q, <<>>, tp, U)
<1>1. /\ IsSeq(q) /\ IsSeq(out) /\ IsSeq(<<>>) /\ q \o <<>> = q
      /\ Len(q \o out) = Len(q) + Len(out) /\ Len(q) \in Nat /\ Len(out) \in Nat
      /\ \A i \in 1..Len(q) : (q \o out)[i] = q[i]
  BY SeqSum, SeqSumEmpty, EmptyIsSeq, LenOfSeq DEF Sending
<1> DEFINE all == q \o out
<1>2. Numbered(all, U) /\ UsesKey(all, tp, U) /\ Traffic(tp)
  BY DEF Sending
<1>3. 1..Len(q) \subseteq 1..Len(all) /\ \A i \in 1..Len(q) : all[i] = q[i]
  BY <1>1
<1> HIDE DEF all
<1>4. Numbered(q, U) /\ UsesKey(q, tp, U)
  BY <1>1, <1>2, <1>3 DEF Numbered, UsesKey
<1> QED
  BY <1>1, <1>2, <1>4 DEF Sending

-----------------------------------------------------------------------------
(* FirstAlert returns "none" or the alert of a test that fails. *)

LEMMA LeastExists ==
  ASSUME NEW T \in SUBSET Nat, T # {}
  PROVE  Min(T) \in T /\ \A j \in T : Min(T) <= j
<1>1. \E x \in T : \A y \in T : ~ (<<y, x>> \in OpToRel(<, Nat))
  BY NatLessThanWellFounded, WFMin
<1>2. PICK x \in T : \A y \in T : ~ (<<y, x>> \in OpToRel(<, Nat))
  BY <1>1
<1>3. \A y \in T : x <= y
  <2> TAKE y \in T
  <2>1. ~ (y < x)
    BY <1>2 DEF OpToRel
  <2> QED
    BY <2>1
<1> QED
  BY <1>3 DEF Min

LEMMA AlertIs ==
  ASSUME NEW tests, NEW n \in Nat, DOMAIN tests = 1..n
  PROVE  \/ FirstAlert(tests) = "none" /\ \A i \in 1..n : ~tests[i][1]
         \/ \E i \in 1..n : tests[i][1] /\ FirstAlert(tests) = tests[i][2]
<1> DEFINE failed == {i \in DOMAIN tests : tests[i][1]}
<1>1. failed \in SUBSET Nat
  OBVIOUS
<1>2. FirstAlert(tests) = IF failed = {} THEN "none" ELSE tests[Min(failed)][2]
  BY DEF FirstAlert
<1>3. CASE failed = {}
  BY <1>2, <1>3
<1>4. CASE failed # {}
  <2>1. Min(failed) \in failed
    BY <1>1, <1>4, LeastExists
  <2> QED
    BY <1>2, <1>4, <2>1
<1> QED
  BY <1>3, <1>4

-----------------------------------------------------------------------------
(* The client: where it stands, and which of its keys it has used. *)

HelloStates  == {"HANDSHAKE_START", "EXPECT_SERVER_HELLO", "EXPECT_SECOND_SERVER_HELLO"}
FlightStates == {"EXPECT_ENCRYPTED_EXTENSIONS", "EXPECT_CERTIFICATE_REQUEST_OR_CERTIFICATE",
                 "EXPECT_CERTIFICATE", "EXPECT_CERTIFICATE_VERIFY", "EXPECT_FINISHED"}
ClientStates == HelloStates \cup FlightStates \cup {"POST_HANDSHAKE"}

ClientFields == {"st", "ret", "enc", "dec", "out", "pend", "usingEarly", "ech"}

ClientShape(e) ==
    /\ ClientFields \subseteq DOMAIN e /\ {"first"} \subseteq DOMAIN e.ech
    /\ e.st \in ClientStates /\ Traffic(e.dec) /\ e.usingEarly \in BOOLEAN
    /\ EchTyped(e.ech.first)

\* Which secrets are still to come.
ClientStage(e, U) ==
    /\ e.st = "HANDSHAKE_START" => Unused(U, "c_e_traffic")
    /\ e.st \in HelloStates => Unused(U, "c_hs_traffic")
    /\ e.st \in HelloStates \cup FlightStates => Unused(U, "c_ap_traffic")
    /\ e.st \in FlightStates /\ e.pend # <<>> =>
          Unused(U, "c_hs_traffic") /\ IsDerived(e.pend[1], "c_hs_traffic")
    /\ e.st = "POST_HANDSHAKE" => e.enc.aead # <<>>
    /\ e.ret = "OK" => e.st = "POST_HANDSHAKE"
    /\ e.usingEarly => e.enc.aead # <<>>

ClientHolds(q, e, U, V) == /\ ClientShape(e) /\ Sending(q, e.out, e.enc, U)
                           /\ Apart(U, V, FALSE) /\ ClientStage(e, U)

\* What is neither sent nor keyed.
LEMMA ClientQuiet ==
  ASSUME NEW q, NEW U, NEW V, NEW e, ClientHolds(q, e, U, V), NEW e2, ClientShape(e2),
         e2.enc = e.enc, e2.out = e.out, e2.pend = e.pend,
         e2.usingEarly => e.usingEarly,
         e2.st = e.st \/ (e.st \in FlightStates /\ e2.st \in FlightStates),
         e2.ret = "OK" => e2.st = "POST_HANDSHAKE"
  PROVE  ClientHolds(q, e2, U, V)
  BY DEF ClientHolds, ClientStage, HelloStates, FlightStates

LEMMA ClientFailed ==
  ASSUME NEW q, NEW U, NEW V, NEW e, ClientHolds(q, e, U, V), NEW alert, alert # "OK"
  PROVE  ClientHolds(q, Fail(e, alert), U, V)
<1> DEFINE e2 == Fail(e, alert)
<1>1. /\ Same(e, e2, {"ret"}) /\ e2.ret = alert
  BY DEF Fail, Same, ClientHolds, ClientShape, ClientFields
<1> HIDE DEF e2
<1>2. ClientShape(e2)
  BY <1>1 DEF Same, ClientHolds, ClientShape, ClientFields
<1>3. /\ e2.enc = e.enc /\ e2.out = e.out /\ e2.pend = e.pend
      /\ e2.usingEarly = e.usingEarly /\ e2.st = e.st
  BY <1>1 DEF Same, ClientHolds, ClientShape, ClientFields
<1> QED
  BY <1>1, <1>2, <1>3, ClientQuiet DEF e2

LEMMA OfferingIs ==
  ASSUME NEW cfg, NEW e, NEW psk, NEW second \in BOOLEAN, ClientShape(e)
  PROVE  LET o == Offering(cfg, e, psk, second)
         IN  /\ Same(e, o, {"ech", "offeredPsk", "usingEarly", "acceptance", "share", "cs"})
             /\ ClientShape(o)
             /\ second /\ ~e.usingEarly => ~o.usingEarly
<1> DEFINE o == Offering(cfg, e, psk, second)
           early == e.usingEarly \/ (~second /\ psk # <<>> /\ cfg.early /\ psk[1].early)
<1>1. /\ Same(e, o, {"ech", "offeredPsk", "usingEarly", "acceptance", "share", "cs"})
      /\ o.usingEarly = early
      /\ o.ech = IF second THEN e.ech ELSE SetupEch(cfg)
  BY DEF Offering, Same, ClientShape, ClientFields
<1>2. early \in BOOLEAN /\ (second /\ ~e.usingEarly => ~early)
  BY DEF ClientShape
<1> HIDE DEF o, early
<1>3. {"first"} \subseteq DOMAIN SetupEch(cfg) /\ SetupEch(cfg).first = <<>>
  BY DEF SetupEch, NoEch
<1>4. {"first"} \subseteq DOMAIN o.ech /\ EchTyped(o.ech.first)
  BY <1>1, <1>3 DEF ClientShape, EchTyped
<1>5. ClientShape(o)
  BY <1>1, <1>2, <1>4 DEF Same, ClientShape, ClientFields
<1> QED
  BY <1>1, <1>2, <1>5 DEF o

\* What is sent in the first flight or after a HelloRetryRequest.
LEMMA HelloIsTyped ==
  ASSUME NEW cfg, cfg.tickets \in Nat \X Nat, NEW e, EchTyped(e.ech.first),
         NEW second \in BOOLEAN, NEW psk, NEW cookie, NEW inner, NEW wire,
         inner = InnerHello(cfg, e, second, psk, cookie),
         wire = WireHello(cfg, e, second, psk, cookie, inner)
  PROVE  /\ MessageTyped(wire) /\ EchTyped(wire.ech) /\ HelloTyped(inner) /\ HelloTyped(wire)
         /\ e.ech.on => /\ Inside(inner) /\ ~Inside(wire) /\ Decoy(wire)
                        /\ wire.ech # <<>> /\ wire.ech[1].typ = "outer"
         /\ ~e.ech.on => inner.ech = e.ech.first
<1> DEFINE hello(outer, ech) == EncodeClientHello(cfg, e, outer, second, psk, cookie, ech)
           offer(outer) == [id |-> IF outer THEN <<"random">> ELSE psk[1].id,
                            age |-> IF outer THEN 0 ELSE psk[1].age, binder |-> <<>>]
<1>1. ASSUME NEW outer \in BOOLEAN, NEW ech
      PROVE  /\ hello(outer, ech).mt = "CH" /\ hello(outer, ech).ech = ech
             /\ hello(outer, ech).tickets \in Nat \X Nat
             /\ {"mt", "ech", "tickets", "psk"} \subseteq DOMAIN hello(outer, ech)
             /\ hello(outer, ech).psk = IF psk = <<>> THEN <<>> ELSE <<offer(outer)>>
  BY DEF EncodeClientHello
<1>2. ASSUME NEW outer \in BOOLEAN
      PROVE  /\ "id" \in DOMAIN offer(outer) /\ (outer => offer(outer).id = <<"random">>)
             /\ 1 \in DOMAIN <<offer(outer)>> /\ <<offer(outer)>>[1] = offer(outer)
  OBVIOUS
<1> HIDE DEF hello, offer
<1>3. ASSUME NEW outer \in BOOLEAN, NEW ech
      PROVE  HelloTyped(hello(outer, ech)) /\ (outer => Decoy(hello(outer, ech)))
  <2> DEFINE m == hello(outer, ech)
             o == offer(outer)
  <2>1. /\ m.tickets \in Nat \X Nat /\ {"mt", "ech", "tickets", "psk"} \subseteq DOMAIN m
        /\ m.psk = <<>> \/ m.psk = <<o>>
    BY <1>1
  <2>2. /\ "id" \in DOMAIN o /\ (outer => o.id = <<"random">>)
        /\ 1 \in DOMAIN <<o>> /\ <<o>>[1] = o
    BY <1>2
  <2> HIDE DEF m, o
  <2> QED
    BY <2>1, <2>2 DEF HelloTyped, Decoy, m
<1> DEFINE own == IF e.ech.on THEN EchExt("inner", "none", second, <<>>) ELSE e.ech.first
           bare == hello(FALSE, own)
<1>4. EchTyped(own) /\ (e.ech.on => own # <<>> /\ own[1].typ = "inner")
  BY DEF EchExt, EchTyped
<1>5. inner = IF psk = <<>> THEN bare
              ELSE [bare EXCEPT !.psk[1].binder = Binder(e.sched, bare, psk[1].label)]
  BY DEF InnerHello, hello
<1> HIDE DEF own
<1>6. bare.mt = "CH" /\ bare.ech = own /\ bare.tickets \in Nat \X Nat /\ HelloTyped(bare)
      /\ {"mt", "ech", "tickets", "psk"} \subseteq DOMAIN bare
      /\ bare.psk = IF psk = <<>> THEN <<>> ELSE <<offer(FALSE)>>
  BY <1>1, <1>3
<1> HIDE DEF bare
<1>7. inner.mt = "CH" /\ inner.ech = own /\ HelloTyped(inner)
  <2>1. CASE psk = <<>>
    BY <1>5, <1>6, <2>1
  <2>2. CASE psk # <<>>
    <3> DEFINE b == Binder(e.sched, bare, psk[1].label)
    <3>1. inner = [bare EXCEPT !.psk[1].binder = b]
      BY <1>5, <2>2
    <3> HIDE DEF b
    <3>2. /\ inner.mt = "CH" /\ inner.ech = own /\ inner.tickets \in Nat \X Nat
          /\ {"mt", "ech", "psk"} \subseteq DOMAIN inner
          /\ inner.psk = [bare.psk EXCEPT ![1] = [bare.psk[1] EXCEPT !.binder = b]]
      BY <1>6, <3>1
    <3>3. 1 \in DOMAIN bare.psk /\ "id" \in DOMAIN bare.psk[1]
      BY <1>2, <1>6, <2>2
    <3>4. 1 \in DOMAIN inner.psk /\ "id" \in DOMAIN inner.psk[1]
      BY <3>2, <3>3
    <3> QED
      BY <3>2, <3>4 DEF HelloTyped
  <2> QED
    BY <2>1, <2>2
<1>8. CASE e.ech.on
  <2> DEFINE ext == EchExt("outer", cfg.ech, second, <<inner>>)
  <2>1. wire = hello(TRUE, ext)
    BY <1>8 DEF WireHello, hello
  <2>2. Inside(inner)
    BY <1>4, <1>7, <1>8 DEF Inside
  <2>3. EchTyped(ext) /\ ext[1].typ = "outer"
    BY <1>7, <2>2 DEF EchExt, EchTyped
  <2>4. ext # <<>>
    BY DEF EchExt
  <2> HIDE DEF ext
  <2>5. wire.ech = ext /\ HelloTyped(wire) /\ Decoy(wire) /\ wire.mt = "CH"
    <3>1. TRUE \in BOOLEAN
      OBVIOUS
    <3>2. /\ hello(TRUE, ext).mt = "CH" /\ hello(TRUE, ext).ech = ext
          /\ HelloTyped(hello(TRUE, ext)) /\ Decoy(hello(TRUE, ext))
      BY <1>1, <1>3, <3>1, Zenon
    <3> QED
      BY <2>1, <3>2
  <2> QED
    BY <1>7, <1>8, <2>2, <2>3, <2>4, <2>5 DEF MessageTyped, Inside
<1>9. CASE ~e.ech.on
  <2>1. wire = inner /\ own = e.ech.first
    BY <1>9 DEF WireHello, own
  <2> QED
    BY <1>4, <1>7, <1>9, <2>1 DEF MessageTyped
<1> QED
  BY <1>8, <1>9

LEMMA HelloIsSent ==
  ASSUME NEW q, NEW U, NEW V, NEW cfg, cfg.tickets \in Nat \X Nat,
         NEW e, ClientShape(e), Sending(q, e.out, e.enc, U), Apart(U, V, FALSE),
         NEW now0, NEW second \in BOOLEAN, NEW cookie,
         second => ~e.usingEarly,
         ~second => Unused(U, "c_e_traffic"),
         Unused(U, "c_hs_traffic"), Unused(U, "c_ap_traffic"),
         e.ret # "OK"
  PROVE  \E U2 : ClientHolds(q, SendClientHello(cfg, e, now0, second, cookie), U2, V)
<1> DEFINE psk   == ClientPsk(cfg, now0)
           o     == Offering(cfg, e, psk, second)
           s     == Scheduled(cfg, o, psk, second)
           inner == InnerHello(cfg, s, second, psk, cookie)
           wire  == WireHello(cfg, s, second, psk, cookie, inner)
           t     == [s EXCEPT
                       !.sched = IF s.ech.on THEN UpdateOuter(Update(@, inner), wire)
                                 ELSE Update(@, inner),
                       !.ech.first = IF s.ech.on /\ ~second THEN wire.ech ELSE @]
           x     == EmitHello(s, second, inner, wire)
           final == KeyEarly(x, psk, second)
<1>1. SendClientHello(cfg, e, now0, second, cookie) = final
  BY DEF SendClientHello, SendPrepared, SendOffer
<1>2. /\ ClientShape(o) /\ o.enc = e.enc /\ o.out = e.out /\ o.ret = e.ret
      /\ second => ~o.usingEarly
  BY OfferingIs DEF Same, ClientShape, ClientFields
<1> HIDE DEF o
<1>3. /\ ClientShape(s) /\ s.enc = e.enc /\ s.out = e.out /\ s.ret = e.ret
      /\ second => ~s.usingEarly
  BY <1>2 DEF Scheduled, ClientShape, ClientFields
<1> HIDE DEF s
<1>4. MessageTyped(wire) /\ EchTyped(wire.ech)
  BY <1>3, HelloIsTyped DEF ClientShape
<1> HIDE DEF inner, wire
<1>5. /\ ClientShape(t) /\ t.enc = e.enc /\ t.out = e.out /\ t.ret = e.ret
      /\ second => ~t.usingEarly
  BY <1>3, <1>4 DEF ClientShape, ClientFields
<1>6. x = Emit(t, wire)
  BY DEF EmitHello
<1> HIDE DEF t, x
<1>7. Same(t, x, {"enc", "out"}) /\ Emits(q, U, t, x)
  BY <1>4, <1>5, <1>6, EmitSends DEF ClientShape, ClientFields
<1>8. /\ ClientShape(x) /\ x.ret = e.ret /\ Sending(q, x.out, x.enc, U)
      /\ second => ~x.usingEarly
  BY <1>5, <1>7 DEF Same, Emits, ClientShape, ClientFields
<1> DEFINE new   == Derive(x.sched, "c_e_traffic")
           keyed == [x EXCEPT !.enc = SetupTraffic(x.cs[1], new, 1)]
           said  == IF x.usingEarly THEN PushCCS(keyed) ELSE x
<1>9. /\ final = [said EXCEPT
                    !.expEarly = IF psk # <<>> /\ ~second THEN Derive(x.sched, "e_exp_master")
                                 ELSE @,
                    !.st = IF second THEN "EXPECT_SECOND_SERVER_HELLO"
                           ELSE "EXPECT_SERVER_HELLO"]
  BY DEF KeyEarly
<1> HIDE DEF psk, final
<1>10. ASSUME NEW U2, ClientShape(said), Sending(q, said.out, said.enc, U2), Apart(U2, V, FALSE),
              Unused(U2, "c_hs_traffic"), Unused(U2, "c_ap_traffic"), said.ret = e.ret,
              said.usingEarly => said.enc.aead # <<>>
       PROVE  ClientHolds(q, final, U2, V)
  <2> HIDE DEF said
  <2>1. /\ ClientShape(final) /\ final.out = said.out /\ final.enc = said.enc
        /\ final.ret = said.ret /\ final.usingEarly = said.usingEarly
        /\ final.st \in {"EXPECT_SECOND_SERVER_HELLO", "EXPECT_SERVER_HELLO"}
    BY <1>9, <1>10 DEF ClientShape, ClientFields, ClientStates, HelloStates
  <2> QED
    BY <1>10, <2>1 DEF ClientHolds, ClientStage, HelloStates, FlightStates
<1>11. CASE ~x.usingEarly
  <2>1. said = x
    BY <1>11
  <2> QED
    BY <1>1, <1>8, <1>10, <1>11, <2>1
<1>12. CASE x.usingEarly
  <2> DEFINE U2 == U \cup {new}
  <2>1. ~second
    BY <1>8, <1>12
  <2>2. IsDerived(new, "c_e_traffic")
    BY DerivedIs
  <2> HIDE DEF new
  <2>3. New(new, U) /\ Apart(U2, V, FALSE)
    BY <2>1, <2>2, DerivedIsNew DEF Labels, ClientLabels
  <2>4. Unused(U2, "c_hs_traffic") /\ Unused(U2, "c_ap_traffic")
    BY <2>2 DEF Unused, IsDerived
  <2>5. /\ keyed.enc = SetupTraffic(x.cs[1], new, 1) /\ keyed.out = x.out
        /\ Same(x, keyed, {"enc"})
    BY <1>8 DEF Same, ClientShape, ClientFields
  <2> HIDE DEF keyed
  <2> DEFINE key == SetupTraffic(x.cs[1], new, 1)
  <2>a. Sending(q, x.out, key, U2)
    BY <1>8, <2>3, KeyIsSetUp
  <2>b. key.aead = <<x.cs[1], new>>
    BY TrafficIs
  <2> HIDE DEF key, U2
  <2>c. key.aead # <<>>
    BY <2>b
  <2>6. Sending(q, keyed.out, keyed.enc, U2) /\ keyed.enc.aead # <<>>
    <3>1. keyed.enc = key
      BY <2>5 DEF key
    <3> QED
      BY <2>5, <2>a, <2>c, <3>1
  <2>7. Same(keyed, PushCCS(keyed), {"out", "ccs"}) /\ Emits(q, U2, keyed, PushCCS(keyed))
    BY <1>8, <2>5, <2>6, PushCCSSends DEF Same, ClientShape, ClientFields
  <2>8. said = PushCCS(keyed)
    BY <1>12
  <2> HIDE DEF said
  <2>9. /\ ClientShape(said) /\ said.ret = e.ret
        /\ Sending(q, said.out, said.enc, U2) /\ said.enc.aead # <<>>
    BY <1>8, <2>5, <2>6, <2>7, <2>8 DEF Same, Emits, ClientShape, ClientFields
  <2> QED
    BY <1>1, <1>10, <2>3, <2>4, <2>9
<1> QED
  BY <1>11, <1>12

LEMMA ServerHelloAlertIs ==
  ASSUME NEW cfg, NEW e, NEW m
  PROVE  ServerHelloAlert(cfg, e, m) # "OK"
<1> DEFINE alerts == <<"ILLEGAL_PARAMETER", "HANDSHAKE_FAILURE", "ILLEGAL_PARAMETER",
                       "UNSUPPORTED_EXTENSION", "ILLEGAL_PARAMETER", "ILLEGAL_PARAMETER",
                       "ILLEGAL_PARAMETER">>
<1>1. PICK tests : /\ ServerHelloAlert(cfg, e, m) = FirstAlert(tests)
                   /\ DOMAIN tests = 1..7
                   /\ \A i \in 1..7 : tests[i][2] = alerts[i]
  BY DEF ServerHelloAlert
<1>2. \A i \in 1..7 : alerts[i] # "OK"
  OBVIOUS
<1> HIDE DEF alerts
<1>3. \/ FirstAlert(tests) = "none"
      \/ \E i \in 1..7 : FirstAlert(tests) = tests[i][2]
  BY <1>1, AlertIs
<1> QED
  BY <1>1, <1>2, <1>3

\* The key of the early data is given up.
LEMMA KeyDropped ==
  ASSUME NEW q, NEW out, NEW tp, NEW U, Sending(q, out, tp, U)
  PROVE  /\ Sending(q, out, [tp EXCEPT !.aead = <<>>], U)
         /\ [tp EXCEPT !.aead = <<>>].aead = <<>>
<1>1. Traffic([tp EXCEPT !.aead = <<>>]) /\ [tp EXCEPT !.aead = <<>>].aead = <<>>
  BY DEF Sending, Traffic
<1> QED
  BY <1>1 DEF Sending, UsesKey

LEMMA EchSelected ==
  ASSUME NEW e, ClientShape(e), NEW m, NEW label
  PROVE  /\ ClientShape(EchSelectHello(e, m, label))
         /\ Same(e, EchSelectHello(e, m, label), {"ech", "sched"})
  BY DEF EchSelectHello, Same, ClientShape, ClientFields

LEMMA RetryHandled ==
  ASSUME NEW q, NEW U, NEW V, NEW cfg, cfg.tickets \in Nat \X Nat,
         NEW e, ClientHolds(q, e, U, V), NEW m, NEW now0,
         e.st \in {"EXPECT_SERVER_HELLO", "EXPECT_SECOND_SERVER_HELLO"}
  PROVE  \E U2 : ClientHolds(q, HandleRetry(cfg, e, m, now0), U2, V)
<1> DEFINE ikm == IF cfg.psk = <<>> THEN Zero ELSE Psk(cfg.psk[1].secret)
           e1  == [e EXCEPT !.cs = <<m.cs>>,
                     !.sched = TransformPostCh1(SelectCipher(@, m.cs, FALSE, ikm))]
           e2  == IF e1.ech.on THEN EchSelectHello(e1, m, "hrr") ELSE e1
           e2a == IF e.ech.on THEN EchSelectHello(e1, m, "hrr") ELSE e1
           share == IF m.share # <<>> THEN FirstOf(cfg.groups, ToSet(m.share)) ELSE e.share
           e3  == EndRejected([e2a EXCEPT !.sched = Update(@, m), !.share = share])
<1>1. ClientShape(e1) /\ Same(e, e1, {"cs", "sched"})
  BY DEF Same, ClientHolds, ClientShape, ClientFields
<1> HIDE DEF e1
<1>2. /\ ClientShape(e2a) /\ e2a.enc = e.enc /\ e2a.out = e.out /\ e2a.pend = e.pend
      /\ e2a.st = e.st /\ e2a.ret = e.ret
  BY <1>1, EchSelected DEF Same, ClientHolds, ClientShape, ClientFields
<1> HIDE DEF e2a
<1>3. /\ ClientShape(e3) /\ e3.enc = [e.enc EXCEPT !.aead = <<>>] /\ e3.out = e.out
      /\ e3.pend = e.pend /\ e3.st = e.st /\ e3.ret = e.ret /\ ~e3.usingEarly
  BY <1>2 DEF EndRejected, ClientShape, ClientFields
<1>4. HandleRetry(cfg, e, m, now0) = IF share = <<>> THEN Fail(e3, "ILLEGAL_PARAMETER")
                                     ELSE SendClientHello(cfg, e3, now0, TRUE, m.cookie)
  BY DEF HandleRetry, e1, e2a
<1> HIDE DEF e3, share
<1>5. /\ Sending(q, e3.out, e3.enc, U) /\ e.ret # "OK"
      /\ Unused(U, "c_hs_traffic") /\ Unused(U, "c_ap_traffic")
  BY <1>3, KeyDropped DEF ClientHolds, ClientStage, HelloStates
<1>6. ClientHolds(q, e3, U, V)
  BY <1>3, <1>5 DEF ClientHolds, ClientStage, HelloStates, FlightStates
<1>7. CASE share = <<>>
  BY <1>4, <1>6, <1>7, ClientFailed
<1>8. CASE share # <<>>
  <2>1. \E U2 : ClientHolds(q, SendClientHello(cfg, e3, now0, TRUE, m.cookie), U2, V)
    BY <1>3, <1>5, HelloIsSent DEF ClientHolds
  <2> QED
    BY <1>4, <1>8, <2>1
<1> QED
  BY <1>7, <1>8

LEMMA ServerHelloHandled ==
  ASSUME NEW q, NEW U, NEW V, NEW cfg, NEW e, ClientHolds(q, e, U, V), NEW m,
         e.st \in {"EXPECT_SERVER_HELLO", "EXPECT_SECOND_SERVER_HELLO"}
  PROVE  \E U2 : ClientHolds(q, HandleServerHello(cfg, e, m), U2, V)
<1> DEFINE e1  == [e EXCEPT !.cs = <<m.cs>>, !.isPsk = m.psk,
                     !.sched = SelectCipher(@, m.cs, ResetOf(e, m), Zero)]
           e2  == IF e.ech.on THEN EchSelectHello(e1, m, "sh") ELSE e1
           s   == Extract(Update([e2.sched EXCEPT !.outer = <<>>], m),
                          IF m.share = <<>> THEN Zero ELSE Dhe(m.share[1]))
           own == Derive(s, "c_hs_traffic")
           e3  == [e2 EXCEPT
                     !.sched = s, !.ech.on = FALSE, !.ech.first = <<>>,
                     !.dec  = SetupTraffic(m.cs, Derive(s, "s_hs_traffic"), 2),
                     !.pend = IF e.usingEarly THEN <<own>> ELSE <<>>,
                     !.enc  = IF e.usingEarly THEN @ ELSE SetupTraffic(m.cs, own, 2),
                     !.st   = "EXPECT_ENCRYPTED_EXTENSIONS"]
<1>1. ClientShape(e1) /\ Same(e, e1, {"cs", "isPsk", "sched"})
  BY DEF Same, ClientHolds, ClientShape, ClientFields
<1>2. HandleServerHello(cfg, e, m) =
         IF cfg.psk # <<>> /\ ~m.psk THEN Fail(e2, "HANDSHAKE_FAILURE") ELSE e3
  BY DEF HandleServerHello
<1> HIDE DEF e1
<1>3. /\ ClientShape(e2) /\ e2.enc = e.enc /\ e2.out = e.out /\ e2.pend = e.pend
      /\ e2.st = e.st /\ e2.ret = e.ret /\ e2.usingEarly = e.usingEarly
  BY <1>1, EchSelected DEF Same, ClientHolds, ClientShape, ClientFields
<1> HIDE DEF e2
<1>4. ClientHolds(q, e2, U, V)
  BY <1>3 DEF ClientHolds, ClientStage
<1>5. IsDerived(own, "c_hs_traffic")
  BY DerivedIs
<1> HIDE DEF own
<1>6. /\ Traffic(SetupTraffic(m.cs, Derive(s, "s_hs_traffic"), 2))
      /\ SetupTraffic(m.cs, own, 2).aead = <<m.cs, own>>
  BY TrafficIs
<1>7. e.ret # "OK" /\ Unused(U, "c_hs_traffic") /\ Unused(U, "c_ap_traffic")
  BY DEF ClientHolds, ClientStage, HelloStates
<1> HIDE DEF s
<1>8. /\ ClientShape(e3) /\ e3.st = "EXPECT_ENCRYPTED_EXTENSIONS" /\ e3.ret = e.ret
      /\ e3.out = e.out /\ e3.usingEarly = e.usingEarly
      /\ e3.enc = (IF e.usingEarly THEN e.enc ELSE SetupTraffic(m.cs, own, 2))
      /\ e3.pend = (IF e.usingEarly THEN <<own>> ELSE <<>>)
  <2>1. EchTyped(<<>>)
    BY DEF EchTyped
  <2> QED
    BY <1>3, <1>6, <2>1 DEF ClientShape, ClientFields, ClientStates, FlightStates
<1> HIDE DEF e3
<1>9. CASE e.usingEarly
  <2>0. e3.enc = e.enc /\ e3.pend[1] = own
    BY <1>8, <1>9
  <2>1. ClientHolds(q, e3, U, V)
    BY <1>5, <1>7, <1>8, <1>9, <2>0 DEF ClientHolds, ClientStage, HelloStates, FlightStates
  <2> QED
    BY <1>2, <1>4, <2>1, ClientFailed
<1>10. CASE ~e.usingEarly
  <2> DEFINE U2 == U \cup {own}
  <2>1. New(own, U) /\ Apart(U2, V, FALSE)
    BY <1>5, <1>7, DerivedIsNew DEF Labels, ClientLabels, ClientHolds
  <2>2. Unused(U2, "c_ap_traffic")
    BY <1>5, <1>7 DEF Unused, IsDerived
  <2>3. Sending(q, e3.out, e3.enc, U2)
    BY <1>8, <1>10, <2>1, KeyIsSetUp DEF ClientHolds
  <2> HIDE DEF U2
  <2>4. ClientHolds(q, e3, U2, V)
    BY <1>6, <1>7, <1>8, <1>10, <2>1, <2>2, <2>3
       DEF ClientHolds, ClientStage, HelloStates, FlightStates
  <2> QED
    BY <1>2, <1>4, <2>4, ClientFailed
<1> QED
  BY <1>9, <1>10

LEMMA ExtensionsHandled ==
  ASSUME NEW q, NEW U, NEW V, NEW cfg, NEW e, ClientHolds(q, e, U, V), NEW m,
         e.st = "EXPECT_ENCRYPTED_EXTENSIONS"
  PROVE  ClientHolds(q, HandleEncryptedExtensions(cfg, e, m), U, V)
<1> DEFINE rejectable == (e.ech.offered \/ e.ech.grease) /\ ~e.ech.accepted
           tests == <<
             <<m.name /\ cfg.sni = "none", "ILLEGAL_PARAMETER">>,
             <<m.early /\ ~e.usingEarly, "ILLEGAL_PARAMETER">>,
             <<m.retryConfigs /\ ~rejectable, "UNSUPPORTED_EXTENSION">> >>
           heard == Absorb(e, m, IF e.isPsk THEN "EXPECT_FINISHED"
                                 ELSE "EXPECT_CERTIFICATE_REQUEST_OR_CERTIFICATE")
           e2 == [heard EXCEPT !.alpn = m.alpn, !.usingEarly = @ /\ m.early,
                               !.acceptance = Acceptance(e, m)]
<1>1. HandleEncryptedExtensions(cfg, e, m) =
         IF FirstAlert(tests) # "none" THEN Fail(e, FirstAlert(tests)) ELSE e2
  BY DEF HandleEncryptedExtensions
<1>2. DOMAIN tests = 1..3 /\ \A i \in 1..3 : tests[i][2] # "OK"
  OBVIOUS
<1> HIDE DEF tests
<1>3. FirstAlert(tests) # "OK"
  <2>1. \/ FirstAlert(tests) = "none"
        \/ \E i \in 1..3 : FirstAlert(tests) = tests[i][2]
    BY <1>2, AlertIs
  <2> QED
    BY <1>2, <2>1
<1>4. ClientHolds(q, Fail(e, FirstAlert(tests)), U, V)
  BY <1>3, ClientFailed
<1>5. ClientShape(e) /\ e.ret # "OK"
  BY DEF ClientHolds, ClientStage
<1>6. /\ ClientShape(e2) /\ e2.enc = e.enc /\ e2.out = e.out /\ e2.pend = e.pend
      /\ e2.ret = e.ret /\ (e2.usingEarly => e.usingEarly)
      /\ e2.st \in {"EXPECT_FINISHED", "EXPECT_CERTIFICATE_REQUEST_OR_CERTIFICATE"}
  <2>1. /\ ClientShape(heard) /\ heard.enc = e.enc /\ heard.out = e.out
        /\ heard.pend = e.pend /\ heard.ret = e.ret /\ heard.usingEarly = e.usingEarly
        /\ heard.st \in {"EXPECT_FINISHED", "EXPECT_CERTIFICATE_REQUEST_OR_CERTIFICATE"}
    BY <1>5 DEF Absorb, ClientShape, ClientFields, ClientStates, FlightStates
  <2> HIDE DEF heard
  <2>2. (heard.usingEarly /\ m.early) \in BOOLEAN
    OBVIOUS
  <2> QED
    BY <2>1, <2>2 DEF ClientShape, ClientFields
<1> HIDE DEF e2
<1>7. ClientHolds(q, e2, U, V)
  BY <1>5, <1>6, ClientQuiet DEF FlightStates
<1> QED
  BY <1>1, <1>4, <1>7

\* The messages between EncryptedExtensions and Finished.
LEMMA Absorbed ==
  ASSUME NEW q, NEW U, NEW V, NEW e, ClientHolds(q, e, U, V), NEW m, NEW st,
         e.st \in FlightStates, st \in FlightStates
  PROVE  ClientHolds(q, Absorb(e, m, st), U, V)
<1> DEFINE e2 == Absorb(e, m, st)
<1>1. ClientShape(e) /\ e.ret # "OK"
  BY DEF ClientHolds, ClientStage, FlightStates
<1>2. /\ ClientShape(e2) /\ e2.enc = e.enc /\ e2.out = e.out /\ e2.pend = e.pend
      /\ e2.ret = e.ret /\ e2.usingEarly = e.usingEarly /\ e2.st = st
  BY <1>1 DEF Absorb, ClientShape, ClientFields, ClientStates
<1> HIDE DEF e2
<1> QED
  BY <1>1, <1>2, ClientQuiet DEF e2

LEMMA FlightHandled ==
  ASSUME NEW q, NEW U, NEW V, NEW cfg, NEW e, ClientHolds(q, e, U, V), NEW m,
         e.st \in FlightStates
  PROVE  /\ ClientHolds(q, HandleCertificateRequest(e, m), U, V)
         /\ ClientHolds(q, HandleServerCertificate(cfg, e, m), U, V)
         /\ ClientHolds(q, HandleServerCertificateVerify(e, m), U, V)
<1>1. \A st \in FlightStates : ClientHolds(q, Absorb(e, m, st), U, V)
  BY Absorbed
<1>2. ClientHolds(q, HandleCertificateRequest(e, m), U, V)
  <2> DEFINE e1 == [e EXCEPT !.certReq = TRUE]
  <2>1. ClientHolds(q, e1, U, V) /\ e1.st = e.st
    <3>1. /\ ClientShape(e) /\ ClientShape(e1) /\ e1.enc = e.enc /\ e1.out = e.out
          /\ e1.pend = e.pend /\ e1.ret = e.ret /\ e1.usingEarly = e.usingEarly
          /\ e1.st = e.st
      BY DEF ClientHolds, ClientShape, ClientFields
    <3> HIDE DEF e1
    <3> QED
      BY <3>1 DEF ClientHolds, ClientStage
  <2> HIDE DEF e1
  <2>2. ClientHolds(q, Absorb(e1, m, "EXPECT_CERTIFICATE"), U, V)
    BY <2>1, Absorbed DEF FlightStates
  <2> QED
    BY <2>2 DEF HandleCertificateRequest, e1
<1>3. ClientHolds(q, HandleServerCertificate(cfg, e, m), U, V)
  <2>1. /\ ClientHolds(q, Fail(e, "BAD_CERTIFICATE"), U, V)
        /\ ClientHolds(q, Fail(e, "ILLEGAL_PARAMETER"), U, V)
        /\ ClientHolds(q, Absorb(e, m, "EXPECT_CERTIFICATE_VERIFY"), U, V)
    BY <1>1, ClientFailed DEF FlightStates
  <2> QED
    BY <2>1 DEF HandleServerCertificate
<1>4. ClientHolds(q, HandleServerCertificateVerify(e, m), U, V)
  <2>1. /\ ClientHolds(q, Fail(e, "DECRYPT_ERROR"), U, V)
        /\ ClientHolds(q, Absorb(e, m, "EXPECT_FINISHED"), U, V)
    BY <1>1, ClientFailed DEF FlightStates
  <2> QED
    BY <2>1 DEF HandleServerCertificateVerify
<1> QED
  BY <1>2, <1>3, <1>4

LEMMA TicketHandled ==
  ASSUME NEW q, NEW U, NEW V, NEW cfg, NEW e, ClientHolds(q, e, U, V), NEW m, NEW now0,
         e.st = "POST_HANDSHAKE"
  PROVE  ClientHolds(q, HandleNewSessionTicket(cfg, e, m, now0), U, V)
<1> DEFINE e2 == HandleNewSessionTicket(cfg, e, m, now0)
<1>1. Same(e, e2, {"ret", "saved", "asserts"})
  BY DEF HandleNewSessionTicket, Same
<1> HIDE DEF e2
<1>2. /\ ClientShape(e) /\ ClientShape(e2) /\ e2.enc = e.enc /\ e2.out = e.out
      /\ e2.pend = e.pend /\ e2.usingEarly = e.usingEarly /\ e2.st = e.st
  BY <1>1 DEF Same, ClientHolds, ClientShape, ClientFields
<1> QED
  BY <1>2, ClientQuiet DEF e2

LEMMA TrafficUpdated ==
  ASSUME NEW tp
  PROVE  /\ Traffic(UpdateKey(tp)) /\ UpdateKey(tp).secret = NextSecret(tp.secret)
         /\ UpdateKey(tp).aead = <<tp.aead[1], NextSecret(tp.secret)>>
  BY TrafficIs DEF UpdateKey

LEMMA KeyUpdateHandled ==
  ASSUME NEW q, NEW U, NEW V, NEW e, ClientHolds(q, e, U, V), NEW m,
         e.st = "POST_HANDSHAKE"
  PROVE  ClientHolds(q, HandleKeyUpdate(e, m), U, V)
<1> DEFINE e2 == HandleKeyUpdate(e, m)
<1>1. Same(e, e2, {"ret", "dec", "needsKU"}) /\ e2.dec = UpdateKey(e.dec)
  BY DEF HandleKeyUpdate, Same, ClientHolds, ClientShape, ClientFields
<1> HIDE DEF e2
<1>2. /\ ClientShape(e) /\ ClientShape(e2) /\ e2.enc = e.enc /\ e2.out = e.out
      /\ e2.pend = e.pend /\ e2.usingEarly = e.usingEarly /\ e2.st = e.st
  BY <1>1, TrafficUpdated DEF Same, ClientHolds, ClientShape, ClientFields
<1> QED
  BY <1>2, ClientQuiet DEF e2

\* Before the application key: what the client's last flight keeps.
Late(q, e, U, V) == /\ ClientShape(e) /\ Sending(q, e.out, e.enc, U) /\ Apart(U, V, FALSE)
                    /\ Unused(U, "c_ap_traffic")

LEMMA LatePush ==
  ASSUME NEW q, NEW U, NEW V, NEW e, Late(q, e, U, V), NEW m, MessageTyped(m)
  PROVE  Late(q, Push(e, m), U, V)
<1>1. Same(e, Push(e, m), {"enc", "out", "sched"}) /\ Emits(q, U, e, Push(e, m))
  BY PushSends DEF Late, ClientShape, ClientFields
<1> QED
  BY <1>1 DEF Same, Emits, Late, ClientShape, ClientFields

LEMMA EarlyDataEnded ==
  ASSUME NEW q, NEW U, NEW V, NEW cfg, NEW e, ClientHolds(q, e, U, V),
         e.st = "EXPECT_FINISHED"
  PROVE  \E U2 : Late(q, EndEarlyData(cfg, e), U2, V)
<1> DEFINE told == IF e.usingEarly /\ ~cfg.omitEoed THEN Push(e, [mt |-> "EOED"]) ELSE e
           key  == SetupTraffic(e.cs[1], e.pend[1], 2)
           e2   == [told EXCEPT !.usingEarly = FALSE, !.pend = <<>>,
                      !.asserts = @ /\ e.enc.aead # <<>>, !.enc = key]
<1>1. Late(q, e, U, V)
  BY DEF ClientHolds, ClientStage, Late, FlightStates
<1>2. EndEarlyData(cfg, e) = IF e.pend = <<>> THEN e ELSE e2
  BY DEF EndEarlyData
<1>3. CASE e.pend = <<>>
  BY <1>1, <1>2, <1>3
<1>4. CASE e.pend # <<>>
  <2> DEFINE U2 == U \cup {e.pend[1]}
  <2>1. Unused(U, "c_hs_traffic") /\ IsDerived(e.pend[1], "c_hs_traffic")
    BY <1>4 DEF ClientHolds, ClientStage, FlightStates
  <2>2. New(e.pend[1], U) /\ Apart(U2, V, FALSE)
    BY <2>1, DerivedIsNew DEF Labels, ClientLabels, ClientHolds
  <2>3. Unused(U2, "c_ap_traffic")
    BY <1>1, <2>1 DEF Unused, IsDerived, Late
  <2>4. Late(q, told, U, V)
    <3>1. Late(q, Push(e, [mt |-> "EOED"]), U, V)
      BY <1>1, LatePush DEF MessageTyped
    <3> QED
      BY <1>1, <3>1
  <2> HIDE DEF told
  <2>5. Sending(q, told.out, key, U2)
    BY <2>2, <2>4, KeyIsSetUp DEF Late
  <2> HIDE DEF key
  <2>6. ClientShape(e2) /\ e2.enc = key /\ e2.out = told.out
    BY <2>4 DEF Late, ClientShape, ClientFields
  <2> HIDE DEF e2, U2
  <2>7. Late(q, e2, U2, V)
    BY <2>2, <2>3, <2>5, <2>6 DEF Late
  <2> QED
    BY <1>2, <1>4, <2>7
<1> QED
  BY <1>3, <1>4

LEMMA FinishedHandled ==
  ASSUME NEW q, NEW U, NEW V, NEW cfg, NEW e, ClientHolds(q, e, U, V), NEW m,
         e.st = "EXPECT_FINISHED"
  PROVE  \E U2 : ClientHolds(q, HandleServerFinished(cfg, e, m), U2, V)
<1> DEFINE rejected == e.ech.offered /\ ~e.ech.accepted
           s    == Extract(Update(e.sched, m), Zero)
           mine == Derive(s, "c_ap_traffic")
           e0   == [e EXCEPT !.sched = s, !.exp = Derive(s, "exp_master"),
                             !.dec = SetupTraffic(e.cs[1], Derive(s, "s_ap_traffic"), 3)]
           e1   == PushCCS(EndEarlyData(cfg, e0))
           e2   == IF ~rejected /\ e.certReq THEN SendClientCertificate(cfg, e1) ELSE e1
           sent == SendFinished(e2)
           key  == SetupTraffic(e.cs[1], mine, 3)
           e3   == [sent EXCEPT !.enc = key, !.st = "POST_HANDSHAKE",
                                !.ret = IF rejected THEN "ECH_REQUIRED" ELSE "OK"]
<1>1. HandleServerFinished(cfg, e, m) =
         IF m.mac # VerifyData(e.sched, e.dec.secret) THEN Fail(e, "HANDSHAKE_FAILURE") ELSE e3
  BY DEF HandleServerFinished
<1>2. IsDerived(mine, "c_ap_traffic")
  BY DerivedIs
<1>3. Traffic(SetupTraffic(e.cs[1], Derive(s, "s_ap_traffic"), 3))
  BY TrafficIs
<1> HIDE DEF mine, s
<1>4. ClientHolds(q, e0, U, V) /\ e0.st = "EXPECT_FINISHED"
  <2>1. /\ ClientShape(e) /\ ClientShape(e0) /\ e0.enc = e.enc /\ e0.out = e.out
        /\ e0.pend = e.pend /\ e0.ret = e.ret /\ e0.usingEarly = e.usingEarly
        /\ e0.st = e.st
    BY <1>3 DEF ClientHolds, ClientShape, ClientFields
  <2> HIDE DEF e0
  <2> QED
    BY <2>1 DEF ClientHolds, ClientStage
<1> HIDE DEF e0
<1>5. PICK U2 : Late(q, EndEarlyData(cfg, e0), U2, V)
  BY <1>4, EarlyDataEnded
<1> DEFINE ended == EndEarlyData(cfg, e0)
<1>6. Late(q, e1, U2, V)
  <2> HIDE DEF ended
  <2>1. Same(ended, PushCCS(ended), {"out", "ccs"}) /\ Emits(q, U2, ended, PushCCS(ended))
    BY <1>5, PushCCSSends DEF Late, ClientShape, ClientFields, ended
  <2>2. Late(q, PushCCS(ended), U2, V)
    BY <1>5, <2>1 DEF Same, Emits, Late, ClientShape, ClientFields, ended
  <2> QED
    BY <2>2 DEF ended
<1> HIDE DEF e1
<1>7. Late(q, e2, U2, V)
  <2>1. Late(q, SendClientCertificate(cfg, e1), U2, V)
    <3> DEFINE cert == Push(e1, [mt |-> "CERT", has |-> cfg.cert])
    <3>1. Late(q, cert, U2, V)
      BY <1>6, LatePush DEF MessageTyped
    <3> HIDE DEF cert
    <3>2. Late(q, Push(cert, [mt |-> "CV", mac |-> SignData(cert.sched, "client")]), U2, V)
      BY <3>1, LatePush DEF MessageTyped
    <3> QED
      BY <3>1, <3>2 DEF SendClientCertificate, cert
  <2> QED
    BY <1>6, <2>1
<1> HIDE DEF e2
<1>8. Late(q, sent, U2, V)
  BY <1>7, LatePush DEF SendFinished, MessageTyped
<1> HIDE DEF sent
<1> DEFINE U3 == U2 \cup {mine}
<1>9. New(mine, U2) /\ Apart(U3, V, FALSE)
  BY <1>2, <1>8, DerivedIsNew DEF Labels, ClientLabels, Late
<1>10. Sending(q, sent.out, key, U3) /\ key.aead = <<e.cs[1], mine>>
  BY <1>8, <1>9, KeyIsSetUp, TrafficIs DEF Late
<1> HIDE DEF key, U3
<1>11. /\ ClientShape(e3) /\ e3.enc = key /\ e3.out = sent.out /\ e3.st = "POST_HANDSHAKE"
  BY <1>8 DEF Late, ClientShape, ClientFields, ClientStates
<1> HIDE DEF e3
<1>12. ClientHolds(q, e3, U3, V)
  <2>0. key.aead # <<>>
    BY <1>10
  <2>1. e3.enc.aead # <<>> /\ e3.st = "POST_HANDSHAKE"
    BY <1>11, <2>0
  <2>2. ClientStage(e3, U3)
    BY <2>1 DEF ClientStage, HelloStates, FlightStates
  <2>3. Sending(q, e3.out, e3.enc, U3)
    BY <1>10, <1>11
  <2> QED
    BY <1>9, <1>11, <2>2, <2>3 DEF ClientHolds
<1>13. ClientHolds(q, Fail(e, "HANDSHAKE_FAILURE"), U, V)
  BY ClientFailed
<1> QED
  BY <1>1, <1>12, <1>13

LEMMA ClientHandles ==
  ASSUME NEW q, NEW U, NEW V, NEW cfg, cfg.tickets \in Nat \X Nat,
         NEW e, ClientHolds(q, e, U, V), NEW m, NEW now0
  PROVE  \E U2 : ClientHolds(q, ClientHandle(cfg, e, m, now0), U2, V)
<1> DEFINE e2 == ClientHandle(cfg, e, m, now0)
<1>1. CASE e.st \in {"EXPECT_SERVER_HELLO", "EXPECT_SECOND_SERVER_HELLO"} /\ m.mt = "SH"
  <2>1. e2 = HandleHello(cfg, e, m, now0)
    BY <1>1 DEF ClientHandle
  <2>2. ClientHolds(q, Fail(e, ServerHelloAlert(cfg, e, m)), U, V)
    BY ServerHelloAlertIs, ClientFailed
  <2>3. \E U2 : ClientHolds(q, HandleRetry(cfg, e, m, now0), U2, V)
    BY <1>1, RetryHandled
  <2>4. \E U2 : ClientHolds(q, HandleServerHello(cfg, e, m), U2, V)
    BY <1>1, ServerHelloHandled
  <2>5. e2 \in {Fail(e, ServerHelloAlert(cfg, e, m)), HandleRetry(cfg, e, m, now0),
                HandleServerHello(cfg, e, m)}
    BY <2>1 DEF HandleHello
  <2> HIDE DEF e2
  <2> QED
    BY <2>2, <2>3, <2>4, <2>5 DEF e2
<1>2. CASE e.st = "EXPECT_ENCRYPTED_EXTENSIONS" /\ m.mt = "EE"
  <2>1. e2 = HandleEncryptedExtensions(cfg, e, m)
    BY <1>2 DEF ClientHandle
  <2> QED
    BY <1>2, <2>1, ExtensionsHandled
<1>3. CASE \/ e.st = "EXPECT_CERTIFICATE_REQUEST_OR_CERTIFICATE" /\ m.mt = "CR"
           \/ /\ e.st \in {"EXPECT_CERTIFICATE_REQUEST_OR_CERTIFICATE", "EXPECT_CERTIFICATE"}
              /\ m.mt = "CERT"
           \/ e.st = "EXPECT_CERTIFICATE_VERIFY" /\ m.mt = "CV"
  <2>1. \/ e2 = HandleCertificateRequest(e, m)
        \/ e2 = HandleServerCertificate(cfg, e, m)
        \/ e2 = HandleServerCertificateVerify(e, m)
    BY <1>3 DEF ClientHandle
  <2>2. e.st \in FlightStates
    BY <1>3 DEF FlightStates
  <2> HIDE DEF e2
  <2> QED
    BY <2>1, <2>2, FlightHandled DEF e2
<1>4. CASE e.st = "EXPECT_FINISHED" /\ m.mt = "FIN"
  <2>1. e2 = HandleServerFinished(cfg, e, m)
    BY <1>4 DEF ClientHandle
  <2> QED
    BY <1>4, <2>1, FinishedHandled
<1>5. CASE e.st = "POST_HANDSHAKE" /\ m.mt = "NST"
  <2>1. e2 = HandleNewSessionTicket(cfg, e, m, now0)
    BY <1>5 DEF ClientHandle
  <2> QED
    BY <1>5, <2>1, TicketHandled
<1>6. CASE e.st = "POST_HANDSHAKE" /\ m.mt = "KU"
  <2>1. e2 = HandleKeyUpdate(e, m)
    BY <1>6 DEF ClientHandle
  <2> QED
    BY <1>6, <2>1, KeyUpdateHandled
<1>7. \/ e2 = Fail(e, "UNEXPECTED_MESSAGE")
      \/ e.st \in {"EXPECT_SERVER_HELLO", "EXPECT_SECOND_SERVER_HELLO"} /\ m.mt = "SH"
      \/ e.st = "EXPECT_ENCRYPTED_EXTENSIONS" /\ m.mt = "EE"
      \/ e.st = "EXPECT_CERTIFICATE_REQUEST_OR_CERTIFICATE" /\ m.mt = "CR"
      \/ /\ e.st \in {"EXPECT_CERTIFICATE_REQUEST_OR_CERTIFICATE", "EXPECT_CERTIFICATE"}
         /\ m.mt = "CERT"
      \/ e.st = "EXPECT_CERTIFICATE_VERIFY" /\ m.mt = "CV"
      \/ e.st = "EXPECT_FINISHED" /\ m.mt = "FIN"
      \/ e.st = "POST_HANDSHAKE" /\ m.mt = "NST"
      \/ e.st = "POST_HANDSHAKE" /\ m.mt = "KU"
  BY DEF ClientHandle
<1>8. CASE e2 = Fail(e, "UNEXPECTED_MESSAGE")
  BY <1>8, ClientFailed
<1> QED
  BY <1>1, <1>2, <1>3, <1>4, <1>5, <1>6, <1>7, <1>8

-----------------------------------------------------------------------------
(* One record read, and the end of ptls_handshake. *)

\* The client counts the record it has opened.
LEMMA ClientOpened ==
  ASSUME NEW q, NEW U, NEW V, NEW e, ClientHolds(q, e, U, V)
  PROVE  ClientHolds(q, Opened(e), U, V)
<1> DEFINE e2 == Opened(e)
<1>1. Same(e, e2, {"dec"}) /\ e2.dec = [e.dec EXCEPT !.seq = @ + 1]
  BY DEF Opened, Same, ClientHolds, ClientShape, ClientFields
<1> HIDE DEF e2
<1>2. Traffic(e2.dec)
  BY <1>1 DEF Traffic, ClientHolds, ClientShape
<1>3. /\ ClientShape(e2) /\ e2.enc = e.enc /\ e2.out = e.out /\ e2.pend = e.pend
      /\ e2.usingEarly = e.usingEarly /\ e2.st = e.st /\ e2.ret = e.ret
  BY <1>1, <1>2 DEF Same, ClientHolds, ClientShape, ClientFields
<1> QED
  BY <1>3, ClientQuiet DEF e2, ClientHolds, ClientStage

LEMMA ClientDelivers ==
  ASSUME NEW q, NEW U, NEW V, NEW e, ClientHolds(q, e, U, V), NEW m
  PROVE  ClientHolds(q, Deliver(e, m), U, V)
<1> DEFINE e2 == [e EXCEPT !.got = Append(@, m), !.ret = "OK"]
<1>1. CASE e.st = "POST_HANDSHAKE"
  <2>1. Deliver(e, m) = e2
    BY <1>1 DEF Deliver
  <2>2. /\ ClientShape(e2) /\ e2.enc = e.enc /\ e2.out = e.out /\ e2.pend = e.pend
        /\ e2.usingEarly = e.usingEarly /\ e2.st = e.st
    BY DEF ClientHolds, ClientShape, ClientFields
  <2> HIDE DEF e2
  <2> QED
    BY <1>1, <2>1, <2>2, ClientQuiet
<1>2. CASE e.st # "POST_HANDSHAKE"
  <2>1. e.st # "EXPECT_END_OF_EARLY_DATA"
    BY DEF ClientHolds, ClientShape, ClientStates, HelloStates, FlightStates
  <2> QED
    BY <1>2, <2>1, ClientFailed DEF Deliver
<1> QED
  BY <1>1, <1>2

LEMMA ClientReads ==
  ASSUME NEW q, NEW U, NEW V, C.tickets \in Nat \X Nat,
         NEW e, ClientHolds(q, e, U, V), NEW r, NEW signs
  PROVE  \E U2 : ClientHolds(q, Input(e, FALSE, r, signs), U2, V)
<1> DEFINE e2 == Input(e, FALSE, r, signs)
<1>1. ASSUME NEW x, ClientHolds(q, x, U, V)
      PROVE  \E U2 : ClientHolds(q, Content(x, FALSE, r.msg, signs), U2, V)
  <2>1. Content(x, FALSE, r.msg, signs) \in
           {Fail(x, "PEER_ALERT"), Deliver(x, r.msg), ClientHandle(C, x, r.msg, now)}
    BY DEF Content
  <2>2. \E U2 : ClientHolds(q, ClientHandle(C, x, r.msg, now), U2, V)
    BY <1>1, ClientHandles
  <2>3. ClientHolds(q, Fail(x, "PEER_ALERT"), U, V) /\ ClientHolds(q, Deliver(x, r.msg), U, V)
    BY <1>1, ClientFailed, ClientDelivers
  <2> QED
    BY <2>1, <2>2, <2>3
<1>2. e2 \in {e, Fail(e, "HANDSHAKE_FAILURE"), Fail(e, "PEER_ALERT"), Fail(e, "BAD_RECORD_MAC"),
              Fail(e, "UNEXPECTED_MESSAGE"), Content(Opened(e), FALSE, r.msg, signs),
              Content(e, FALSE, r.msg, signs)}
  BY DEF Input, Skipping
<1> HIDE DEF e2
<1>3. /\ ClientHolds(q, Fail(e, "HANDSHAKE_FAILURE"), U, V)
      /\ ClientHolds(q, Fail(e, "PEER_ALERT"), U, V)
      /\ ClientHolds(q, Fail(e, "BAD_RECORD_MAC"), U, V)
      /\ ClientHolds(q, Fail(e, "UNEXPECTED_MESSAGE"), U, V)
  BY ClientFailed
<1>4. /\ \E U2 : ClientHolds(q, Content(Opened(e), FALSE, r.msg, signs), U2, V)
      /\ \E U2 : ClientHolds(q, Content(e, FALSE, r.msg, signs), U2, V)
  BY <1>1, ClientOpened
<1> QED
  BY <1>2, <1>3, <1>4 DEF e2

\* The end of ptls_handshake: what an end that stays open returns is kept, of
\* one that closes only the records are.
LEMMA FinishSends ==
  ASSUME NEW q, NEW U, NEW e, {"enc", "out", "ret"} \subseteq DOMAIN e,
         Sending(q, e.out, e.enc, U), NEW before, NEW server \in BOOLEAN, NEW f,
         f = Finish(before, e, server)
  PROVE  \/ f = e
         \/ /\ Same(e, f, {"out"}) /\ ~Open(f)
            /\ IsSeq(f.out) /\ Numbered(q \o f.out, U)
<1> DEFINE m == [mt |-> "ALERT", desc |-> e.ret]
           dropped == [e EXCEPT !.out = IF e.ret = "ECH_REQUIRED" THEN @ ELSE <<>>]
           empty == [e EXCEPT !.out = <<>>]
           sealed == Append(dropped.out, Sealed(dropped.enc, m))
           plain == Append(dropped.out, Record(m))
<1>1. /\ Same(e, dropped, {"out"}) /\ Same(e, empty, {"out"}) /\ empty.out = <<>>
      /\ dropped.out = e.out \/ dropped.out = <<>>
      /\ {"enc", "out", "ret"} \subseteq DOMAIN dropped /\ dropped.ret = e.ret
  BY DEF Same
<1>2. Sending(q, <<>>, e.enc, U)
  BY OutputDropped
<1>3. Sending(q, dropped.out, dropped.enc, U)
  BY <1>1, <1>2 DEF Same
<1> DEFINE m2 == [mt |-> "ALERT", desc |-> dropped.ret]
<1>4. m2 = m
  BY <1>1
<1>5. MessageTyped(m)
  BY DEF MessageTyped
<1>6. f = e \/ (~Open(e) /\ (f = empty \/ f = SendAlert(dropped, server)))
  BY DEF Finish, Open
<1>7. \E o \in {sealed, plain} : SendAlert(dropped, server) = [dropped EXCEPT !.out = o]
  <2> HIDE DEF dropped, m
  <2>1. SendAlert(dropped, server) =
           [dropped EXCEPT !.out = Append(@, IF server \/ dropped.st = "POST_HANDSHAKE"
                                             THEN Sealed(dropped.enc, m) ELSE Record(m))]
    BY <1>4 DEF SendAlert
  <2> QED
    BY <1>1, <2>1
<1> HIDE DEF dropped, m, m2
<1>8. Emits(q, U, dropped, Emit(dropped, m)) /\ Emit(dropped, m).out = sealed
  BY <1>1, <1>3, <1>5, EmitSends DEF Emit
<1>9. /\ IsSeq(sealed) /\ Numbered(q \o sealed, U)
      /\ IsSeq(plain) /\ Numbered(q \o plain, U)
      /\ IsSeq(<<>>) /\ Numbered(q \o <<>>, U)
  BY <1>2, <1>3, <1>5, <1>8, PlainSends DEF Emits, Sending
<1> HIDE DEF sealed, plain
<1>10. ASSUME NEW o, IsSeq(o), Numbered(q \o o, U), f = [dropped EXCEPT !.out = o], ~Open(e)
       PROVE  /\ Same(e, f, {"out"}) /\ ~Open(f)
              /\ IsSeq(f.out) /\ Numbered(q \o f.out, U)
  <2>1. f.out = o /\ Same(e, f, {"out"}) /\ f.ret = e.ret
    BY <1>1, <1>10 DEF Same
  <2> QED
    BY <1>10, <2>1 DEF Open
<1>11. CASE f = empty /\ ~Open(e)
  <2>1. f.out = <<>> /\ Same(e, f, {"out"}) /\ f.ret = e.ret
    BY <1>1, <1>11 DEF Same
  <2> QED
    BY <1>9, <1>11, <2>1 DEF Open
<1> QED
  BY <1>6, <1>7, <1>9, <1>10, <1>11

\* ptls_send, with or without a change of the key before it.
LEMMA PtlsSendSends ==
  ASSUME NEW q, NEW U, NEW V, NEW server \in BOOLEAN, Apart(U, V, server),
         NEW e, {"enc", "out"} \subseteq DOMAIN e, Sending(q, e.out, e.enc, U),
         e.enc.aead # <<>>, NEW m, MessageTyped(m)
  PROVE  /\ Same(e, PtlsSend(e, m), {"enc", "out", "needsKU", "reqKU", "sent"})
         /\ PtlsSend(e, m).enc.aead # <<>>
         /\ \E U2 : /\ Apart(U2, V, server)
                    /\ Sending(q, PtlsSend(e, m).out, PtlsSend(e, m).enc, U2)
                    /\ \A label : Unused(U, label) => Unused(U2, label)
<1> DEFINE due     == e.needsKU \/ e.enc.seq >= MaxSeq
           ku      == [mt |-> "KU", request |-> e.reqKU]
           told    == Emit(e, ku)
           turned  == [told EXCEPT !.enc = UpdateKey(@), !.needsKU = FALSE, !.reqKU = FALSE]
           changed == IF ~due THEN e ELSE turned
           e2      == [Emit(changed, m) EXCEPT !.sent = Append(@, m)]
           next    == NextSecret(e.enc.secret)
<1>1. PtlsSend(e, m) = e2
  BY DEF PtlsSend
<1>2. MessageTyped(ku) /\ MessageTyped(m)
  BY DEF MessageTyped
<1> HIDE DEF due, ku
<1>3. Same(e, told, {"enc", "out"}) /\ Emits(q, U, e, told)
  BY <1>2, EmitSends
<1> HIDE DEF told
<1>4. Traffic(told.enc) /\ Sending(q, told.out, told.enc, U)
      /\ told.enc.aead # <<>> /\ told.enc.secret = e.enc.secret
  BY <1>3 DEF Emits, Sending
<1>5. e.enc.secret \in U /\ next \notin U
  BY DEF Sending, UsesKey
<1>6. /\ New(next, U) /\ Apart(U \cup {next}, V, server)
      /\ \A label : Unused(U, label) => Unused(U \cup {next}, label)
  BY <1>5, NextIsNew
<1>7. /\ Same(e, turned, {"enc", "out", "needsKU", "reqKU"})
      /\ turned.enc = UpdateKey(told.enc) /\ turned.out = told.out
      /\ {"enc", "out"} \subseteq DOMAIN turned
  BY <1>3 DEF Same
<1> HIDE DEF turned
<1>8. Sending(q, turned.out, turned.enc, U \cup {next})
  <2>1. Sending(q, told.out, SetupTraffic(told.enc.aead[1], next, 3), U \cup {next})
    BY <1>4, <1>6, KeyIsSetUp
  <2> QED
    BY <1>4, <1>7, <2>1 DEF UpdateKey
<1>9. turned.enc.aead # <<>>
  <2>1. UpdateKey(told.enc).aead = <<told.enc.aead[1], NextSecret(told.enc.secret)>>
    BY TrafficUpdated
  <2> QED
    BY <1>7, <2>1
<1> HIDE DEF next
<1>10. /\ Same(e, changed, {"enc", "out", "needsKU", "reqKU"})
       /\ {"enc", "out"} \subseteq DOMAIN changed /\ changed.enc.aead # <<>>
       /\ \E U2 : /\ Apart(U2, V, server) /\ Sending(q, changed.out, changed.enc, U2)
                  /\ \A label : Unused(U, label) => Unused(U2, label)
  <2>1. CASE ~due
    BY <2>1 DEF Same
  <2>2. CASE due
    BY <1>6, <1>7, <1>8, <1>9, <2>2
  <2> QED
    BY <2>1, <2>2
<1> HIDE DEF changed
<1>11. PICK U2 : /\ Apart(U2, V, server) /\ Sending(q, changed.out, changed.enc, U2)
                 /\ \A label : Unused(U, label) => Unused(U2, label)
  BY <1>10
<1> DEFINE sent == Emit(changed, m)
<1>12. Same(changed, sent, {"enc", "out"}) /\ Emits(q, U2, changed, sent)
  BY <1>2, <1>10, <1>11, EmitSends
<1> HIDE DEF sent
<1>13. Same(sent, e2, {"sent"}) /\ e2.enc = sent.enc /\ e2.out = sent.out
  BY <1>10, <1>12 DEF Same, sent
<1> HIDE DEF e2
<1>14. Same(e, e2, {"enc", "out", "needsKU", "reqKU", "sent"})
  BY <1>10, <1>12, <1>13 DEF Same
<1> QED
  BY <1>1, <1>10, <1>11, <1>12, <1>13, <1>14 DEF Emits

\* Between two calls nothing is left to send.
ClientRests(q, e, U, V) ==
    /\ ClientShape(e) /\ e.out = <<>> /\ Traffic(e.enc)
    /\ Open(e) => ClientHolds(q, e, U, V)

\* What a step of the client leaves: its records go on their way.
LEMMA ClientSentOn ==
  ASSUME NEW q, NEW U, NEW V, NEW f, ClientShape(f), Traffic(f.enc), IsSeq(q), IsSeq(f.out),
         Numbered(q \o f.out, U), Open(f) => ClientHolds(q, f, U, V)
  PROVE  ClientRests(q \o f.out, Sent(f), U, V)
<1> DEFINE e == Sent(f)
           all == q \o f.out
<1>1. /\ ClientShape(e) /\ e.out = <<>> /\ e.enc = f.enc /\ e.pend = f.pend
      /\ e.usingEarly = f.usingEarly /\ e.st = f.st /\ e.ret = f.ret
  BY DEF Sent, ClientShape, ClientFields
<1> HIDE DEF e
<1>2. IsSeq(all) /\ all \o <<>> = all /\ IsSeq(<<>>)
  BY SeqSum, SeqSumEmpty, EmptyIsSeq
<1>3. ASSUME Open(f) PROVE ClientHolds(all, e, U, V)
  <2>1. ClientHolds(q, f, U, V)
    BY <1>3
  <2>2. Sending(all, e.out, e.enc, U)
    BY <1>1, <1>2, <2>1 DEF ClientHolds, Sending
  <2> HIDE DEF all
  <2> QED
    BY <1>1, <2>1, <2>2 DEF ClientHolds, ClientStage
<1> QED
  BY <1>1, <1>3 DEF ClientRests, Open, e

LEMMA ClientFinishes ==
  ASSUME NEW q, NEW U, NEW V, NEW e, ClientHolds(q, e, U, V), NEW before, NEW f,
         f = Finish(before, e, FALSE)
  PROVE  /\ ClientRests(q \o f.out, Sent(f), U, V) /\ Numbered(q \o f.out, U)
         /\ Apart(U, V, FALSE)
<1>1. /\ ClientShape(e) /\ Sending(q, e.out, e.enc, U) /\ Apart(U, V, FALSE)
      /\ {"enc", "out", "ret"} \subseteq DOMAIN e
  BY DEF ClientHolds, ClientShape, ClientFields
<1>2. \/ f = e
      \/ /\ Same(e, f, {"out"}) /\ ~Open(f)
         /\ IsSeq(f.out) /\ Numbered(q \o f.out, U)
  BY <1>1, FinishSends
<1>3. /\ ClientShape(f) /\ f.enc = e.enc /\ IsSeq(f.out) /\ Numbered(q \o f.out, U)
      /\ Open(f) => ClientHolds(q, f, U, V)
  BY <1>1, <1>2 DEF Same, Sending, ClientShape, ClientFields
<1> QED
  BY <1>1, <1>3, ClientSentOn DEF Sending

LEMMA ClientSends ==
  ASSUME NEW q, NEW U, NEW V, NEW e, ClientHolds(q, e, U, V), e.enc.aead # <<>>,
         NEW m, MessageTyped(m), NEW f, f = PtlsSend(e, m)
  PROVE  \E U2 : ClientRests(q \o f.out, Sent(f), U2, V) /\ Numbered(q \o f.out, U2)
                 /\ Apart(U2, V, FALSE)
<1>1. /\ ClientShape(e) /\ Sending(q, e.out, e.enc, U) /\ Apart(U, V, FALSE)
      /\ {"enc", "out"} \subseteq DOMAIN e
  BY DEF ClientHolds, ClientShape, ClientFields
<1>2. /\ Same(e, f, {"enc", "out", "needsKU", "reqKU", "sent"})
      /\ f.enc.aead # <<>>
      /\ \E U2 : /\ Apart(U2, V, FALSE)
                 /\ Sending(q, f.out, f.enc, U2)
                 /\ \A label : Unused(U, label) => Unused(U2, label)
  BY <1>1, PtlsSendSends
<1>3. PICK U2 : /\ Apart(U2, V, FALSE) /\ Sending(q, f.out, f.enc, U2)
                /\ \A label : Unused(U, label) => Unused(U2, label)
  BY <1>2
<1>4. /\ ClientShape(f) /\ f.st = e.st /\ f.ret = e.ret /\ f.pend = e.pend
      /\ f.usingEarly = e.usingEarly
  BY <1>1, <1>2 DEF Same, ClientShape, ClientFields
<1>5. ClientHolds(q, f, U2, V)
  BY <1>2, <1>3, <1>4 DEF ClientHolds, ClientStage
<1> QED
  BY <1>3, <1>4, <1>5, ClientSentOn DEF Sending

-----------------------------------------------------------------------------
(* The server: where it stands, and which of its keys it has used. *)

ServerHelloStates == {"EXPECT_CLIENT_HELLO", "EXPECT_SECOND_CLIENT_HELLO"}
ServerLateStates  == {"EXPECT_CERTIFICATE", "EXPECT_CERTIFICATE_VERIFY",
                      "EXPECT_END_OF_EARLY_DATA", "EXPECT_FINISHED", "POST_HANDSHAKE"}
ServerStates == ServerHelloStates \cup {"GENERATING_CERTIFICATE_VERIFY"} \cup ServerLateStates

ServerFields == {"st", "ret", "enc", "dec", "out", "tickets"}

ServerShape(e) == /\ ServerFields \subseteq DOMAIN e /\ e.st \in ServerStates
                  /\ Traffic(e.dec) /\ e.tickets \in Nat

\* Which secrets are still to come, for an end that goes on.
ServerStage(e, U) ==
    /\ e.st \in ServerHelloStates => Unused(U, "s_hs_traffic")
    /\ e.st \notin ServerLateStates => Unused(U, "s_ap_traffic")
    /\ e.st \in ServerLateStates => e.enc.aead # <<>>
    /\ e.ret = "OK" => e.st \in ServerLateStates
    /\ e.ret = "ASYNC_OPERATION" => e.st = "GENERATING_CERTIFICATE_VERIFY"
    /\ e.ret = "STATELESS_RETRY" => e.st \in ServerHelloStates

GoesOn(e) == Open(e) \/ e.ret = "STATELESS_RETRY"

ServerHolds(q, e, U, V) == /\ ServerShape(e) /\ Sending(q, e.out, e.enc, U)
                           /\ Apart(U, V, TRUE) /\ (GoesOn(e) => ServerStage(e, U))

\* Before the handshake keys, and before the application key.
InFlight(q, e, U, V) == /\ ServerShape(e) /\ Sending(q, e.out, e.enc, U)
                        /\ Apart(U, V, TRUE) /\ Unused(U, "s_ap_traffic")

InHello(q, e, U, V) == /\ InFlight(q, e, U, V) /\ Unused(U, "s_hs_traffic")
                       /\ e.st \in ServerHelloStates /\ e.ret = "IN_PROGRESS"

LEMMA ServerFailed ==
  ASSUME NEW q, NEW U, NEW V, NEW e, ServerShape(e), Sending(q, e.out, e.enc, U),
         Apart(U, V, TRUE), NEW alert,
         alert \notin {"IN_PROGRESS", "OK", "ASYNC_OPERATION", "STATELESS_RETRY"}
  PROVE  ServerHolds(q, Fail(e, alert), U, V)
<1> DEFINE e2 == Fail(e, alert)
<1>1. /\ ServerShape(e2) /\ e2.enc = e.enc /\ e2.out = e.out /\ e2.ret = alert
  BY DEF Fail, ServerShape, ServerFields
<1> HIDE DEF e2
<1> QED
  BY <1>1 DEF ServerHolds, GoesOn, Open, e2

\* What is neither sent nor keyed.
LEMMA ServerQuiet ==
  ASSUME NEW q, NEW U, NEW V, NEW e, ServerHolds(q, e, U, V), Open(e), NEW e2, ServerShape(e2),
         e2.enc = e.enc, e2.out = e.out,
         e2.st = e.st \/ (e.st \in ServerLateStates /\ e2.st \in ServerLateStates),
         e2.ret = e.ret \/ (e2.ret = "OK" /\ e2.st \in ServerLateStates)
  PROVE  ServerHolds(q, e2, U, V) /\ Open(e2)
<1>1. ServerStage(e, U)
  BY DEF ServerHolds, GoesOn
<1>2. ServerStage(e2, U)
  BY <1>1 DEF ServerStage, ServerHelloStates, ServerLateStates
<1> QED
  BY <1>2 DEF ServerHolds, Open

LEMMA FlightQuiet ==
  ASSUME NEW q, NEW U, NEW V, NEW e, InFlight(q, e, U, V), NEW e2, ServerShape(e2),
         e2.enc = e.enc, e2.out = e.out
  PROVE  /\ InFlight(q, e2, U, V)
         /\ InHello(q, e, U, V) /\ e2.st = e.st /\ e2.ret = e.ret => InHello(q, e2, U, V)
  BY DEF InFlight, InHello

LEMMA FlightEmit ==
  ASSUME NEW q, NEW U, NEW V, NEW e, InFlight(q, e, U, V), NEW m, MessageTyped(m)
  PROVE  /\ InFlight(q, Emit(e, m), U, V) /\ InFlight(q, Push(e, m), U, V)
         /\ InFlight(q, PushCCS(e), U, V)
         /\ InHello(q, e, U, V) => /\ InHello(q, Emit(e, m), U, V)
                                   /\ InHello(q, Push(e, m), U, V)
                                   /\ InHello(q, PushCCS(e), U, V)
<1>1. /\ ServerShape(e) /\ Sending(q, e.out, e.enc, U)
      /\ {"enc", "out"} \subseteq DOMAIN e
  BY DEF InFlight, ServerShape, ServerFields
<1>2. Same(e, Emit(e, m), {"enc", "out"}) /\ Emits(q, U, e, Emit(e, m))
  BY <1>1, EmitSends
<1>3. Same(e, Push(e, m), {"enc", "out", "sched"}) /\ Emits(q, U, e, Push(e, m))
  BY <1>1, PushSends
<1>4. Same(e, PushCCS(e), {"out", "ccs"}) /\ Emits(q, U, e, PushCCS(e))
  BY <1>1, PushCCSSends
<1>5. ASSUME NEW e2, Same(e, e2, {"enc", "out", "sched", "ccs"}), Emits(q, U, e, e2)
      PROVE  /\ InFlight(q, e2, U, V)
             /\ InHello(q, e, U, V) => InHello(q, e2, U, V)
  <2>1. ServerShape(e2) /\ e2.st = e.st /\ e2.ret = e.ret
    BY <1>1, <1>5 DEF Same, ServerShape, ServerFields
  <2> QED
    BY <1>5, <2>1 DEF Emits, InFlight, InHello
<1> QED
  BY <1>2, <1>3, <1>4, <1>5 DEF Same

LEMMA FlightCCS ==
  ASSUME NEW q, NEW U, NEW V, NEW e, InHello(q, e, U, V)
  PROVE  InHello(q, PushCCS(e), U, V)
<1> DEFINE m == [mt |-> "CCS"]
<1>1. MessageTyped(m) /\ InFlight(q, e, U, V)
  BY DEF InHello, MessageTyped
<1> HIDE DEF m
<1> QED
  BY <1>1, FlightEmit

-----------------------------------------------------------------------------
(* The server's flight, from its end. *)

LEMMA FlightEnds ==
  ASSUME NEW q, NEW U, NEW V, NEW cfg, NEW e, InFlight(q, e, U, V), NEW now0
  PROVE  \E U2 : ServerHolds(q, FinishFlight(cfg, e, now0), U2, V)
<1> DEFINE e1   == SendFinished(e)
           k    == Extract(e1.sched, Zero)
           mine == Derive(k, "s_ap_traffic")
           key  == SetupTraffic(e1.cs[1], mine, 3)
           e2   == ApplicationKeys(e1)
           e3   == AwaitClient(cfg, e2)
           secret == ResumptionAhead(cfg, e3)
           nst  == SessionTicket(cfg, e3, secret, now0)
           e4   == EmitCopies(e3, nst, e3.tickets)
           e5   == SendTickets(cfg, e3, now0)
           U2   == U \cup {mine}
<1>1. FinishFlight(cfg, e, now0) = e5
  BY DEF FinishFlight
<1>2. InFlight(q, e1, U, V)
  BY FlightEmit DEF SendFinished, MessageTyped
<1> HIDE DEF e1
<1>3. IsDerived(mine, "s_ap_traffic")
  BY DerivedIs
<1>3a. e2.enc = key /\ e2.out = e1.out /\ e2.st = e1.st /\ ServerShape(e2)
  BY <1>2 DEF ApplicationKeys, InFlight, ServerShape, ServerFields
<1> HIDE DEF mine, e2
<1>4. New(mine, U) /\ Apart(U2, V, TRUE)
  BY <1>2, <1>3, DerivedIsNew DEF Labels, ServerLabels, InFlight
<1>5. Sending(q, e1.out, key, U2) /\ key.aead = <<e1.cs[1], mine>>
  BY <1>2, <1>4, KeyIsSetUp, TrafficIs DEF InFlight
<1> HIDE DEF key, U2
<1>6. key.aead # <<>>
  BY <1>5
<1>7. /\ ServerShape(e3) /\ e3.enc = e2.enc /\ e3.out = e2.out /\ e3.st \in ServerLateStates
  <2>1. Traffic(SetupTraffic(e2.cs[1], e2.pend[1], 2))
    BY TrafficIs
  <2> QED
    BY <1>3a, <2>1 DEF AwaitClient, ServerShape, ServerFields, ServerLateStates, ServerStates
<1> HIDE DEF e3
<1>8. MessageTyped(nst)
  BY DEF SessionTicket, MessageTyped
<1>9. /\ Same(e4, e5, {"issued", "asserts", "ret"}) /\ e5.ret \in {"IN_PROGRESS", "OK"}
  <2>1. Same(e3, e4, {"enc", "out"})
    BY DEF EmitCopies, Same
  <2> HIDE DEF e4
  <2> QED
    BY <1>7, <2>1 DEF SendTickets, e4, Same, ServerShape, ServerFields
<1> HIDE DEF secret, nst, e4, e5
<1>10. Same(e3, e4, {"enc", "out"}) /\ Emits(q, U2, e3, e4)
  BY <1>3a, <1>5, <1>7, <1>8, CopiesAreSent DEF e4, ServerShape, ServerFields
<1>11. /\ ServerShape(e5) /\ e5.st \in ServerLateStates
       /\ Sending(q, e5.out, e5.enc, U2) /\ e5.enc.aead # <<>>
  BY <1>3a, <1>6, <1>7, <1>9, <1>10 DEF Same, Emits, ServerShape, ServerFields
<1>12. ServerStage(e5, U2)
  BY <1>9, <1>11 DEF ServerStage, ServerHelloStates, ServerLateStates
<1> QED
  BY <1>1, <1>4, <1>11, <1>12 DEF ServerHolds

LEMMA FlightSigned ==
  ASSUME NEW q, NEW U, NEW V, NEW cfg, NEW e, InFlight(q, e, U, V), NEW signs, NEW now0
  PROVE  \E U2 : ServerHolds(q, SignAndFinish(cfg, e, signs, now0), U2, V)
<1> DEFINE cv == Push(e, [mt |-> "CV", mac |-> SignData(e.sched, "server")])
           later == [e EXCEPT !.st = "GENERATING_CERTIFICATE_VERIFY", !.ret = "ASYNC_OPERATION"]
<1>1. \E U2 : ServerHolds(q, FinishFlight(cfg, cv, now0), U2, V)
  <2>1. InFlight(q, cv, U, V)
    BY FlightEmit DEF MessageTyped
  <2> HIDE DEF cv
  <2> QED
    BY <2>1, FlightEnds
<1>2. ServerHolds(q, later, U, V)
  <2>1. /\ ServerShape(later) /\ later.enc = e.enc /\ later.out = e.out
        /\ later.st = "GENERATING_CERTIFICATE_VERIFY" /\ later.ret = "ASYNC_OPERATION"
    BY DEF InFlight, ServerShape, ServerFields, ServerStates
  <2> HIDE DEF later
  <2> QED
    BY <2>1 DEF InFlight, ServerHolds, ServerStage, ServerHelloStates, ServerLateStates
<1>3. ServerHolds(q, Fail(e, "INTERNAL_ERROR"), U, V)
  BY ServerFailed DEF InFlight
<1> QED
  BY <1>1, <1>2, <1>3 DEF SignAndFinish

LEMMA FlightSent ==
  ASSUME NEW q, NEW U, NEW V, NEW cfg, NEW e, InFlight(q, e, U, V), NEW ch, NEW signs, NEW now0
  PROVE  \E U2 : ServerHolds(q, SendServerFlight(cfg, e, ch, signs, now0), U2, V)
<1> DEFINE ee == [mt |-> "EE", name |-> e.name # "none", alpn |-> e.alpn,
                  early |-> e.pend # <<>>,
                  retryConfigs |-> e.ech.offered /\ ~e.ech.accepted /\ cfg.opener # "none"]
           s1 == Push(e, ee)
           s2 == IF cfg.clientAuth THEN Push(s1, [mt |-> "CR"]) ELSE s1
           s3 == Push(s2, [mt |-> "CERT", has |-> TRUE])
<1>1. SendServerFlight(cfg, e, ch, signs, now0) =
         IF e.isPsk THEN FinishFlight(cfg, s1, now0) ELSE SignAndFinish(cfg, s3, signs, now0)
  BY DEF SendServerFlight
<1>2. MessageTyped(ee)
  BY DEF MessageTyped
<1> HIDE DEF ee
<1>3. InFlight(q, s1, U, V)
  BY <1>2, FlightEmit
<1> HIDE DEF s1
<1>4. InFlight(q, s2, U, V)
  <2>1. InFlight(q, Push(s1, [mt |-> "CR"]), U, V)
    BY <1>3, FlightEmit DEF MessageTyped
  <2> QED
    BY <1>3, <2>1
<1> HIDE DEF s2
<1>5. InFlight(q, s3, U, V)
  BY <1>4, FlightEmit DEF MessageTyped
<1> HIDE DEF s3
<1> QED
  BY <1>1, <1>3, <1>5, FlightEnds, FlightSigned

-----------------------------------------------------------------------------
(* The server's answer to a ClientHello. *)

\* What a ServerHello or HelloRetryRequest says.
LEMMA ServerHelloIs ==
  ASSUME NEW e, NEW retry, NEW share, NEW psk, NEW cookie, NEW ch, NEW x, NEW label
  PROVE  /\ MessageTyped(ServerHelloMessage(e, retry, share, psk, cookie, ch))
         /\ LET c == Confirmed(x, ServerHelloMessage(e, retry, share, psk, cookie, ch), label)
            IN  MessageTyped(c) /\ c.mt = "SH" /\ c.cs = e.cs[1] /\ c.psk = psk
<1> DEFINE m == ServerHelloMessage(e, retry, share, psk, cookie, ch)
           c == Confirmed(x, m, label)
<1>1. /\ {"mt", "cs", "psk", "confirm"} \subseteq DOMAIN m /\ m.mt = "SH"
      /\ m.cs = e.cs[1] /\ m.psk = psk
  BY DEF ServerHelloMessage
<1> HIDE DEF m
<1>2. /\ {"mt", "cs", "psk"} \subseteq DOMAIN c /\ c.mt = "SH"
      /\ c.cs = e.cs[1] /\ c.psk = psk
  BY <1>1 DEF Confirmed
<1> HIDE DEF c
<1>3. MessageTyped(m) /\ MessageTyped(c)
  BY <1>1, <1>2 DEF MessageTyped
<1> QED
  BY <1>2, <1>3 DEF m, c

LEMMA HelloSent ==
  ASSUME NEW q, NEW U, NEW V, NEW cfg, NEW e, InHello(q, e, U, V),
         NEW ch, NEW ks, NEW signs, NEW now0
  PROVE  \E U2 : ServerHolds(q, SendHello(cfg, e, ch, ks, signs, now0), U2, V)
<1> DEFINE bare  == ServerHelloMessage(e, FALSE, ks, e.isPsk, <<>>, ch)
           hello == Confirmed(e, bare, "sh")
           e1    == PushCCS(Push(e, hello))
           k     == Extract(e1.sched, IF ks = <<>> THEN Zero ELSE Dhe(ks[1]))
           peer  == Derive(k, "c_hs_traffic")
           mine  == Derive(k, "s_hs_traffic")
           key   == SetupTraffic(e1.cs[1], mine, 2)
           e2    == HandshakeKeys(e1, ch, ks)
           U2    == U \cup {mine}
<1>1. SendHello(cfg, e, ch, ks, signs, now0) = SendServerFlight(cfg, e2, ch, signs, now0)
  BY DEF SendHello
<1>2. MessageTyped(hello)
  BY ServerHelloIs
<1> HIDE DEF hello
<1>3. InHello(q, e1, U, V)
  <2>1. InHello(q, Push(e, hello), U, V)
    BY <1>2, FlightEmit DEF InHello
  <2> QED
    BY <2>1, FlightCCS
<1> HIDE DEF e1
<1>4. IsDerived(mine, "s_hs_traffic") /\ Traffic(SetupTraffic(e1.cs[1], peer, 2))
  BY DerivedIs, TrafficIs
<1>5. /\ ServerShape(e2) /\ e2.out = e1.out /\ e2.enc = key
  BY <1>3, <1>4 DEF HandshakeKeys, InHello, InFlight, ServerShape, ServerFields
<1> HIDE DEF mine, e2
<1>6. New(mine, U) /\ Apart(U2, V, TRUE)
  BY <1>3, <1>4, DerivedIsNew DEF Labels, ServerLabels, InHello, InFlight
<1>7. Sending(q, e1.out, key, U2)
  BY <1>3, <1>6, KeyIsSetUp DEF InHello, InFlight
<1>8. Unused(U2, "s_ap_traffic")
  BY <1>3, <1>4 DEF Unused, IsDerived, InHello, InFlight
<1> HIDE DEF key, U2
<1>9. InFlight(q, e2, U2, V)
  BY <1>5, <1>6, <1>7, <1>8 DEF InFlight
<1> QED
  BY <1>1, <1>9, FlightSent

LEMMA TicketsAreCounted ==
  ASSUME NEW cfg, cfg.maxTickets \in Nat, NEW ch, ch.tickets \in Nat \X Nat, NEW found, NEW modes
  PROVE  TicketCount(cfg, ch, found, modes) \in Nat
<1>1. ch.tickets[1] \in Nat /\ ch.tickets[2] \in Nat
  OBVIOUS
<1> QED
  BY <1>1 DEF TicketCount

LEMMA HelloAccepted ==
  ASSUME NEW q, NEW U, NEW V, NEW cfg, cfg.maxTickets \in Nat, NEW e, InHello(q, e, U, V),
         NEW ch, ch.tickets \in Nat \X Nat, NEW ks, NEW resumed, NEW signs, NEW now0
  PROVE  \E U2 : ServerHolds(q, Accept(cfg, e, ch, ks, resumed, signs, now0), U2, V)
<1>1. ASSUME NEW x, InHello(q, x, U, V), NEW psk, NEW modes, NEW dhe
      PROVE  \E U2 : ServerHolds(q, AcceptWith(cfg, x, ch, ks, psk, modes, dhe, signs, now0), U2, V)
  <2> DEFINE alert == AcceptAlert(cfg, x, ch, ks, psk, dhe)
             tests == <<
               <<BinderAlert(cfg, x, ch, psk) # "none", "DECRYPT_ERROR">>,
               <<cfg.psk # <<>> /\ ~psk.found, "UNKNOWN_PSK_IDENTITY">>,
               <<dhe /\ ks = <<>>, "HANDSHAKE_FAILURE">> >>
             count == TicketCount(cfg, ch, psk.found, modes)
             x1 == [x EXCEPT !.sched = Update(@, ch), !.isPsk = psk.found,
                             !.share = IF dhe THEN ks ELSE psk.kx, !.tickets = count]
             x2 == OpenEarly(cfg, x1, psk)
  <2>1. AcceptWith(cfg, x, ch, ks, psk, modes, dhe, signs, now0) =
           IF alert # "none" THEN Fail(x, alert)
           ELSE SendHello(cfg, x2, ch, IF dhe THEN ks ELSE <<>>, signs, now0)
    BY DEF AcceptWith
  <2>2. alert = FirstAlert(tests)
    BY DEF AcceptAlert
  <2>3. DOMAIN tests = 1..3
        /\ \A i \in 1..3 : tests[i][2] \notin {"IN_PROGRESS", "OK", "ASYNC_OPERATION",
                                               "STATELESS_RETRY"}
    OBVIOUS
  <2> HIDE DEF tests, alert
  <2>4. alert \notin {"IN_PROGRESS", "OK", "ASYNC_OPERATION", "STATELESS_RETRY"}
    BY <2>2, <2>3, AlertIs
  <2>5. count \in Nat
    BY TicketsAreCounted
  <2> HIDE DEF count
  <2>6. /\ ServerShape(x1) /\ x1.enc = x.enc /\ x1.out = x.out
        /\ x1.st = x.st /\ x1.ret = x.ret
    BY <1>1, <2>5 DEF InHello, InFlight, ServerShape, ServerFields
  <2> HIDE DEF x1
  <2>7. Traffic(SetupTraffic(x1.cs[1], Derive(x1.sched, "c_e_traffic"), 1))
    BY TrafficIs
  <2>8. /\ ServerShape(x2) /\ x2.enc = x1.enc /\ x2.out = x1.out
        /\ x2.st = x1.st /\ x2.ret = x1.ret
    BY <2>6, <2>7 DEF OpenEarly, ServerShape, ServerFields
  <2> HIDE DEF x2
  <2>9. InHello(q, x2, U, V)
    BY <1>1, <2>6, <2>8, FlightQuiet DEF InHello
  <2>10. \E U2 : ServerHolds(q, SendHello(cfg, x2, ch, IF dhe THEN ks ELSE <<>>, signs, now0),
                             U2, V)
    BY <2>9, HelloSent
  <2>11. ServerHolds(q, Fail(x, alert), U, V)
    BY <1>1, <2>4, ServerFailed DEF InHello, InFlight
  <2> QED
    BY <2>1, <2>10, <2>11
<1> DEFINE modes == ch.modes \ (IF cfg.dheOnly THEN {"psk"} ELSE {})
           psk == TriedPsk(cfg, e, ch, modes, resumed, now0)
           ikm == IF psk.found THEN Psk(psk.secret) ELSE Zero
           extracted == [e EXCEPT !.sched = Extract(@, ikm)]
           x == IF resumed THEN e ELSE extracted
           dhe == ~psk.found \/ "psk" \notin modes
<1>2. Accept(cfg, e, ch, ks, resumed, signs, now0) =
         AcceptWith(cfg, x, ch, ks, psk, modes, dhe, signs, now0)
  BY DEF Accept
<1> HIDE DEF ikm, psk, modes, dhe
<1>3. /\ ServerShape(extracted) /\ extracted.enc = e.enc /\ extracted.out = e.out
      /\ extracted.st = e.st /\ extracted.ret = e.ret
  BY DEF InHello, InFlight, ServerShape, ServerFields
<1> HIDE DEF extracted
<1>4. InHello(q, x, U, V)
  BY <1>3, FlightQuiet DEF InHello
<1> HIDE DEF x
<1> QED
  BY <1>1, <1>2, <1>4

LEMMA RetrySent ==
  ASSUME NEW q, NEW U, NEW V, NEW cfg, NEW e, InHello(q, e, U, V), NEW ch, NEW ks
  PROVE  ServerHolds(q, SendRetry(cfg, e, ch, ks), U, V)
<1> DEFINE group  == FirstOf(ch.groups, ToSet(cfg.groups))
           hashed == Update(e.sched, ch)
           s1     == [e EXCEPT !.sched = Extract(TransformPostCh1(hashed), ExternalIkm(cfg))]
           hrr    == Confirmed(s1, RetryRequest(e, ks, group, <<>>, ch), "hrr")
           kept   == Push(s1, hrr)
           cookie == Cookie(e, group, e.sched.algos[1], ch, ks = <<>>)
           asked  == PushCCS(Emit(e, RetryRequest(e, ks, group, cookie, ch)))
           tests  == <<<<ch.groups = <<>>, "MISSING_EXTENSION">>,
                       <<group = <<>>, "HANDSHAKE_FAILURE">>>>
           stateless == [asked EXCEPT !.ret = "STATELESS_RETRY"]
           waiting == [kept EXCEPT !.st = "EXPECT_SECOND_CLIENT_HELLO",
                                   !.skipped = IF ch.early THEN <<0>> ELSE @]
<1>1. SendRetry(cfg, e, ch, ks) \in {Fail(e, FirstAlert(tests)), stateless, waiting}
      /\ (SendRetry(cfg, e, ch, ks) = Fail(e, FirstAlert(tests)) \/ FirstAlert(tests) = "none")
  BY DEF SendRetry
<1>2. DOMAIN tests = 1..2
      /\ \A i \in 1..2 : tests[i][2] \notin {"IN_PROGRESS", "OK", "ASYNC_OPERATION",
                                             "STATELESS_RETRY"}
  OBVIOUS
<1>3. ASSUME NEW cookie0
      PROVE  MessageTyped(RetryRequest(e, ks, group, cookie0, ch))
  BY ServerHelloIs DEF RetryRequest
<1> HIDE DEF tests
<1>4. ServerHolds(q, Fail(e, FirstAlert(tests)), U, V)
  <2>1. FirstAlert(tests) \notin {"IN_PROGRESS", "OK", "ASYNC_OPERATION", "STATELESS_RETRY"}
    BY <1>2, AlertIs
  <2> QED
    BY <2>1, ServerFailed DEF InHello, InFlight
<1> HIDE DEF cookie
<1>5. InHello(q, asked, U, V)
  <2> DEFINE m == RetryRequest(e, ks, group, cookie, ch)
  <2>1. MessageTyped(m)
    BY <1>3
  <2> HIDE DEF m
  <2>2. InHello(q, Emit(e, m), U, V)
    BY <2>1, FlightEmit DEF InHello
  <2> QED
    BY <2>2, FlightCCS DEF m
<1>6. ServerHolds(q, stateless, U, V)
  <2> HIDE DEF asked
  <2>1. /\ ServerShape(stateless) /\ stateless.enc = asked.enc /\ stateless.out = asked.out
        /\ stateless.st = asked.st /\ stateless.ret = "STATELESS_RETRY"
    BY <1>5 DEF InHello, InFlight, ServerShape, ServerFields
  <2> HIDE DEF stateless
  <2> QED
    BY <1>5, <2>1 DEF InHello, InFlight, ServerHolds, ServerStage, ServerHelloStates,
                      ServerLateStates
<1>7. MessageTyped(hrr)
  <2> HIDE DEF s1, group
  <2> QED
    BY ServerHelloIs DEF RetryRequest
<1> HIDE DEF hrr
<1>8. InHello(q, kept, U, V)
  <2>1. InHello(q, s1, U, V)
    <3>1. /\ ServerShape(s1) /\ s1.enc = e.enc /\ s1.out = e.out
          /\ s1.st = e.st /\ s1.ret = e.ret
      BY DEF InHello, InFlight, ServerShape, ServerFields
    <3> HIDE DEF s1
    <3> QED
      BY <3>1, FlightQuiet DEF InHello
  <2> HIDE DEF s1
  <2> QED
    BY <1>7, <2>1, FlightEmit DEF InHello
<1> HIDE DEF kept
<1>9. ServerHolds(q, waiting, U, V)
  <2>1. /\ ServerShape(waiting) /\ waiting.enc = kept.enc /\ waiting.out = kept.out
        /\ waiting.st = "EXPECT_SECOND_CLIENT_HELLO" /\ waiting.ret = kept.ret
    BY <1>8 DEF InHello, InFlight, ServerShape, ServerFields, ServerStates, ServerHelloStates
  <2> HIDE DEF waiting
  <2> QED
    BY <1>8, <2>1 DEF InHello, InFlight, ServerHolds, ServerStage, ServerHelloStates,
                      ServerLateStates
<1> QED
  BY <1>1, <1>4, <1>6, <1>9

LEMMA HelloAnswered ==
  ASSUME NEW q, NEW U, NEW V, NEW cfg, cfg.maxTickets \in Nat, NEW e, InHello(q, e, U, V),
         NEW ch, ch.tickets \in Nat \X Nat, NEW ks, NEW second, NEW signs, NEW now0
  PROVE  \E U2 : ServerHolds(q, AnswerHello(cfg, e, ch, ks, second, signs, now0), U2, V)
<1> DEFINE restored == RestoreFromCookie(cfg, e, ch, ks)
<1>1. AnswerHello(cfg, e, ch, ks, second, signs, now0) \in
         {Fail(e, "HANDSHAKE_FAILURE"), Accept(cfg, restored, ch, ks, TRUE, signs, now0),
          SendRetry(cfg, e, ch, ks), Accept(cfg, e, ch, ks, second, signs, now0)}
  BY DEF AnswerHello
<1>2. InHello(q, restored, U, V)
  <2>1. /\ ServerShape(restored) /\ restored.enc = e.enc /\ restored.out = e.out
        /\ restored.st = e.st /\ restored.ret = e.ret
    BY DEF RestoreFromCookie, InHello, InFlight, ServerShape, ServerFields
  <2> HIDE DEF restored
  <2> QED
    BY <2>1, FlightQuiet DEF InHello
<1> HIDE DEF restored
<1>3. /\ \E U2 : ServerHolds(q, Accept(cfg, restored, ch, ks, TRUE, signs, now0), U2, V)
      /\ \E U2 : ServerHolds(q, Accept(cfg, e, ch, ks, second, signs, now0), U2, V)
  BY <1>2, HelloAccepted
<1>4. ServerHolds(q, SendRetry(cfg, e, ch, ks), U, V)
  BY RetrySent
<1>5. ServerHolds(q, Fail(e, "HANDSHAKE_FAILURE"), U, V)
  BY ServerFailed DEF InHello, InFlight
<1> QED
  BY <1>1, <1>3, <1>4, <1>5

LEMMA HelloRead ==
  ASSUME NEW q, NEW U, NEW V, NEW cfg, cfg.maxTickets \in Nat, NEW e, InHello(q, e, U, V),
         NEW ch, ch.tickets \in Nat \X Nat, NEW cs, NEW second, NEW signs, NEW now0
  PROVE  \E U2 : ServerHolds(q, ReadHello(cfg, e, ch, cs, second, signs, now0), U2, V)
<1> DEFINE alert == HelloAlert(cfg, e, ch, cs, second)
           tests == <<
             <<ch.psk = <<>> /\ ch.early, "ILLEGAL_PARAMETER">>,
             <<second /\ ch.early, "DECODE_ERROR">>,
             <<second /\ e.name # "none" /\ ch.sni # e.name, "HANDSHAKE_FAILURE">>,
             <<cs = <<>>, "HANDSHAKE_FAILURE">>,
             <<second /\ cs # e.cs, "HANDSHAKE_FAILURE">> >>
           chosen == [e EXCEPT !.cs = cs, !.sched = NewSchedule(cs, <<>>, FALSE)]
           e1 == IF second THEN e ELSE chosen
           ks == FirstOf(ch.share, ToSet(cfg.groups))
<1>1. ReadHello(cfg, e, ch, cs, second, signs, now0) =
         IF alert # "none" THEN Fail(e, alert)
         ELSE AnswerHello(cfg, e1, ch, ks, second, signs, now0)
  BY DEF ReadHello
<1>2. alert = FirstAlert(tests)
  BY DEF HelloAlert
<1>3. DOMAIN tests = 1..5
      /\ \A i \in 1..5 : tests[i][2] \notin {"IN_PROGRESS", "OK", "ASYNC_OPERATION",
                                             "STATELESS_RETRY"}
  OBVIOUS
<1> HIDE DEF tests, alert, ks
<1>4. alert \notin {"IN_PROGRESS", "OK", "ASYNC_OPERATION", "STATELESS_RETRY"}
  BY <1>2, <1>3, AlertIs, ZenonT(60)
<1>5. InHello(q, e1, U, V)
  <2>1. /\ ServerShape(chosen) /\ chosen.enc = e.enc /\ chosen.out = e.out
        /\ chosen.st = e.st /\ chosen.ret = e.ret
    BY DEF InHello, InFlight, ServerShape, ServerFields
  <2> HIDE DEF chosen
  <2> QED
    BY <2>1, FlightQuiet DEF InHello
<1> HIDE DEF e1
<1>6. \E U2 : ServerHolds(q, AnswerHello(cfg, e1, ch, ks, second, signs, now0), U2, V)
  BY <1>5, HelloAnswered
<1>7. ServerHolds(q, Fail(e, alert), U, V)
  BY <1>4, ServerFailed DEF InHello, InFlight
<1> QED
  BY <1>1, <1>6, <1>7

LEMMA ClientHelloHandled ==
  ASSUME NEW q, NEW U, NEW V, NEW cfg, cfg.maxTickets \in Nat, NEW e, InHello(q, e, U, V),
         NEW m, MessageTyped(m), m.mt = "CH", NEW signs, NEW now0
  PROVE  \E U2 : ServerHolds(q, HandleClientHello(cfg, e, m, signs, now0), U2, V)
<1> DEFINE second == e.st = "EXPECT_SECOND_CLIENT_HELLO"
           ech    == OpenEch(cfg, e, m, second)
           ch     == IF ech.accepted THEN m.ech[1].inner[1] ELSE m
           opened == [e EXCEPT !.ech = ech]
           alert  == EchAlert(cfg, e, m, second)
           called == OnClientHello(cfg, opened, ch)
           e1     == IF second THEN opened ELSE called
           cs     == ChooseCipher(cfg, ch.ciphers)
           tests  == <<
             <<second /\ e.ech.on /\ m.ech = <<>>, "MISSING_EXTENSION">>,
             <<m.ech # <<>> /\ m.ech[1].typ # "outer", "ILLEGAL_PARAMETER">>,
             <<second /\ e.ech.on /\ ~(Opens(cfg, m) /\ m.ech[1].second), "DECRYPT_ERROR">>,
             <<m.ech = <<>> /\ e.ech.offered, "ILLEGAL_PARAMETER">> >>
<1>1. HandleClientHello(cfg, e, m, signs, now0) =
         IF alert # "none" THEN Fail(opened, alert)
         ELSE ReadHello(cfg, e1, ch, cs, second, signs, now0)
  BY DEF HandleClientHello
<1>2. alert = FirstAlert(tests)
  BY DEF EchAlert
<1>3. DOMAIN tests = 1..4
      /\ \A i \in 1..4 : tests[i][2] \notin {"IN_PROGRESS", "OK", "ASYNC_OPERATION",
                                             "STATELESS_RETRY"}
  OBVIOUS
<1> HIDE DEF tests, alert, cs
<1>4. alert \notin {"IN_PROGRESS", "OK", "ASYNC_OPERATION", "STATELESS_RETRY"}
  BY <1>2, <1>3, AlertIs
<1>5. ch.tickets \in Nat \X Nat
  <2>1. ech.accepted = (Opens(cfg, m) /\ (second => e.ech.on))
    BY DEF OpenEch, NoEch
  <2>2. ASSUME ech.accepted PROVE m.ech[1].inner[1].tickets \in Nat \X Nat
    BY <2>1, <2>2 DEF Opens, MessageTyped, EchTyped, HelloTyped
  <2> HIDE DEF ech
  <2> QED
    BY <2>2 DEF MessageTyped, HelloTyped
<1> HIDE DEF ech, ch
<1>6. InHello(q, opened, U, V)
  <2>1. /\ ServerShape(opened) /\ opened.enc = e.enc /\ opened.out = e.out
        /\ opened.st = e.st /\ opened.ret = e.ret
    BY DEF InHello, InFlight, ServerShape, ServerFields
  <2> HIDE DEF opened
  <2> QED
    BY <2>1, FlightQuiet DEF InHello
<1> HIDE DEF opened
<1>7. InHello(q, e1, U, V)
  <2>1. /\ ServerShape(called) /\ called.enc = opened.enc /\ called.out = opened.out
        /\ called.st = opened.st /\ called.ret = opened.ret
    BY <1>6 DEF OnClientHello, InHello, InFlight, ServerShape, ServerFields
  <2> HIDE DEF called
  <2> QED
    BY <1>6, <2>1, FlightQuiet DEF InHello
<1> HIDE DEF e1, second
<1>8. \E U2 : ServerHolds(q, ReadHello(cfg, e1, ch, cs, second, signs, now0), U2, V)
  BY <1>5, <1>7, HelloRead
<1>9. ServerHolds(q, Fail(opened, alert), U, V)
  BY <1>4, <1>6, ServerFailed DEF InHello, InFlight
<1> QED
  BY <1>1, <1>8, <1>9

-----------------------------------------------------------------------------
(* The client's second flight, and after the handshake. *)

LEMMA SecondFlightHandled ==
  ASSUME NEW q, NEW U, NEW V, NEW cfg, NEW e, ServerHolds(q, e, U, V), Open(e),
         e.st \in ServerLateStates, NEW m
  PROVE  /\ ServerHolds(q, HandleEndOfEarlyData(e, m), U, V)
         /\ ServerHolds(q, HandleClientCertificate(cfg, e, m), U, V)
         /\ ServerHolds(q, HandleClientCertificateVerify(e, m), U, V)
         /\ ServerHolds(q, HandleClientFinished(e, m), U, V)
         /\ ServerHolds(q, HandleKeyUpdate(e, m), U, V)
         /\ ServerHolds(q, Deliver(e, m), U, V)
<1>1. /\ ServerShape(e) /\ Sending(q, e.out, e.enc, U) /\ Apart(U, V, TRUE)
  BY DEF ServerHolds
<1>2. \A alert \in {"CERTIFICATE_REQUIRED", "DECRYPT_ERROR", "HANDSHAKE_FAILURE",
                    "UNEXPECTED_MESSAGE"} : ServerHolds(q, Fail(e, alert), U, V)
  BY <1>1, ServerFailed
<1>3. \A st \in ServerLateStates : ServerHolds(q, Absorb(e, m, st), U, V)
  <2> TAKE st \in ServerLateStates
  <2> DEFINE e2 == Absorb(e, m, st)
  <2>1. /\ ServerShape(e2) /\ e2.enc = e.enc /\ e2.out = e.out /\ e2.st = st /\ e2.ret = e.ret
    BY <1>1 DEF Absorb, ServerShape, ServerFields, ServerStates
  <2> HIDE DEF e2
  <2> QED
    BY <2>1, ServerQuiet DEF e2
<1>4. ServerHolds(q, HandleEndOfEarlyData(e, m), U, V)
  <2> DEFINE key == SetupTraffic(e.cs[1], e.pend[1], 2)
             e2  == HandleEndOfEarlyData(e, m)
  <2>1. Traffic(key)
    BY TrafficIs
  <2> HIDE DEF key
  <2>2. /\ ServerShape(e2) /\ e2.enc = e.enc /\ e2.out = e.out
        /\ e2.st = "EXPECT_FINISHED" /\ e2.ret = e.ret
    BY <1>1, <2>1 DEF HandleEndOfEarlyData, key, Absorb, ServerShape, ServerFields,
                      ServerStates, ServerLateStates
  <2> HIDE DEF e2
  <2> QED
    BY <2>2, ServerQuiet DEF e2, ServerLateStates
<1>5. ServerHolds(q, HandleClientCertificate(cfg, e, m), U, V)
  BY <1>2, <1>3 DEF HandleClientCertificate, ServerLateStates
<1>6. ServerHolds(q, HandleClientCertificateVerify(e, m), U, V)
  BY <1>2, <1>3 DEF HandleClientCertificateVerify, ServerLateStates
<1>7. ServerHolds(q, HandleClientFinished(e, m), U, V)
  <2> DEFINE key == SetupTraffic(e.cs[1], e.pendApp[1], 3)
             e2  == [Absorb(e, m, "POST_HANDSHAKE") EXCEPT
                       !.dec = key, !.pendApp = <<>>, !.ret = "OK"]
  <2>1. Traffic(key)
    BY TrafficIs
  <2>2. HandleClientFinished(e, m) = IF m.mac # VerifyData(e.sched, e.dec.secret)
                                     THEN Fail(e, "HANDSHAKE_FAILURE") ELSE e2
    BY DEF HandleClientFinished
  <2> HIDE DEF key
  <2>3. /\ ServerShape(e2) /\ e2.enc = e.enc /\ e2.out = e.out
        /\ e2.st = "POST_HANDSHAKE" /\ e2.ret = "OK"
    BY <1>1, <2>1 DEF Absorb, ServerShape, ServerFields, ServerStates, ServerLateStates
  <2> HIDE DEF e2
  <2>4. ServerHolds(q, e2, U, V)
    BY <2>3, ServerQuiet DEF ServerLateStates
  <2> QED
    BY <1>2, <2>2, <2>4
<1>8. ServerHolds(q, HandleKeyUpdate(e, m), U, V)
  <2> DEFINE e2 == HandleKeyUpdate(e, m)
  <2>1. Traffic(UpdateKey(e.dec))
    BY TrafficUpdated
  <2>2. /\ ServerShape(e2) /\ e2.enc = e.enc /\ e2.out = e.out /\ e2.st = e.st /\ e2.ret = "OK"
    BY <1>1, <2>1 DEF HandleKeyUpdate, ServerShape, ServerFields
  <2> HIDE DEF e2
  <2> QED
    BY <2>2, ServerQuiet DEF e2
<1>9. ServerHolds(q, Deliver(e, m), U, V)
  <2> DEFINE e2 == [e EXCEPT !.got = Append(@, m), !.ret = "OK"]
  <2>1. /\ ServerShape(e2) /\ e2.enc = e.enc /\ e2.out = e.out /\ e2.st = e.st /\ e2.ret = "OK"
    BY <1>1 DEF ServerShape, ServerFields
  <2>2. Deliver(e, m) \in {e2, Fail(e, "UNEXPECTED_MESSAGE")}
    BY DEF Deliver
  <2> HIDE DEF e2
  <2>3. ServerHolds(q, e2, U, V)
    BY <2>1, ServerQuiet
  <2> QED
    BY <1>2, <2>2, <2>3
<1> QED
  BY <1>4, <1>5, <1>6, <1>7, <1>8, <1>9

LEMMA ServerHandles ==
  ASSUME NEW q, NEW U, NEW V, NEW cfg, cfg.maxTickets \in Nat,
         NEW e, ServerHolds(q, e, U, V), Open(e), NEW m, MessageTyped(m), NEW signs, NEW now0
  PROVE  \E U2 : ServerHolds(q, ServerHandle(cfg, e, m, signs, now0), U2, V)
<1> DEFINE e2 == ServerHandle(cfg, e, m, signs, now0)
<1>1. /\ ServerShape(e) /\ Sending(q, e.out, e.enc, U) /\ Apart(U, V, TRUE)
      /\ ServerStage(e, U)
  BY DEF ServerHolds, GoesOn
<1>2. /\ ServerHolds(q, Fail(e, "HANDSHAKE_FAILURE"), U, V)
      /\ ServerHolds(q, Fail(e, "UNEXPECTED_MESSAGE"), U, V)
  BY <1>1, ServerFailed
<1>3. CASE e.st \in ServerHelloStates
  <2>1. e2 = IF m.mt = "CH" THEN HandleClientHello(cfg, e, m, signs, now0)
             ELSE Fail(e, "HANDSHAKE_FAILURE")
    BY <1>3 DEF ServerHandle, ServerHelloStates
  <2>2. InHello(q, e, U, V)
    BY <1>1, <1>3 DEF InHello, InFlight, ServerStage, ServerHelloStates, ServerLateStates, Open
  <2>3. m.mt = "CH" => \E U2 : ServerHolds(q, HandleClientHello(cfg, e, m, signs, now0), U2, V)
    BY <2>2, ClientHelloHandled
  <2> QED
    BY <1>2, <2>1, <2>3
<1>4. CASE e.st \in ServerLateStates
  <2>1. e2 \in {HandleEndOfEarlyData(e, m), HandleClientCertificate(cfg, e, m),
                HandleClientCertificateVerify(e, m), HandleClientFinished(e, m),
                HandleKeyUpdate(e, m), Fail(e, "HANDSHAKE_FAILURE"),
                Fail(e, "UNEXPECTED_MESSAGE")}
    BY <1>4 DEF ServerHandle, ServerLateStates
  <2> HIDE DEF e2
  <2>2. /\ ServerHolds(q, HandleEndOfEarlyData(e, m), U, V)
        /\ ServerHolds(q, HandleClientCertificate(cfg, e, m), U, V)
        /\ ServerHolds(q, HandleClientCertificateVerify(e, m), U, V)
        /\ ServerHolds(q, HandleClientFinished(e, m), U, V)
        /\ ServerHolds(q, HandleKeyUpdate(e, m), U, V)
    BY <1>4, SecondFlightHandled
  <2> QED
    BY <1>2, <2>1, <2>2 DEF e2
<1>5. CASE e.st = "GENERATING_CERTIFICATE_VERIFY"
  <2>1. e2 = Fail(e, "UNEXPECTED_MESSAGE")
    BY <1>5 DEF ServerHandle
  <2> QED
    BY <1>2, <2>1
<1> QED
  BY <1>1, <1>3, <1>4, <1>5 DEF ServerShape, ServerStates

LEMMA ServerOpened ==
  ASSUME NEW q, NEW U, NEW V, NEW e, ServerHolds(q, e, U, V), Open(e)
  PROVE  ServerHolds(q, Opened(e), U, V) /\ Open(Opened(e))
<1> DEFINE e2 == Opened(e)
<1>1. Same(e, e2, {"dec"}) /\ e2.dec = [e.dec EXCEPT !.seq = @ + 1]
  BY DEF Opened, Same, ServerHolds, ServerShape, ServerFields
<1> HIDE DEF e2
<1>2. Traffic(e2.dec)
  BY <1>1 DEF Traffic, ServerHolds, ServerShape
<1>3. ServerShape(e2) /\ e2.enc = e.enc /\ e2.out = e.out /\ e2.st = e.st /\ e2.ret = e.ret
  BY <1>1, <1>2 DEF Same, ServerHolds, ServerShape, ServerFields
<1> QED
  BY <1>3, ServerQuiet DEF e2

LEMMA ServerReads ==
  ASSUME NEW q, NEW U, NEW V, S.maxTickets \in Nat, NEW e, ServerHolds(q, e, U, V), Open(e),
         NEW r, MessageTyped(r.msg), NEW signs
  PROVE  \E U2 : ServerHolds(q, Input(e, TRUE, r, signs), U2, V)
<1> DEFINE e2 == Input(e, TRUE, r, signs)
           skipped == [e EXCEPT !.skipped = <<e.skipped[1] + 1>>]
<1>1. ASSUME NEW x, ServerHolds(q, x, U, V), Open(x)
      PROVE  \E U2 : ServerHolds(q, Content(x, TRUE, r.msg, signs), U2, V)
  <2>1. Content(x, TRUE, r.msg, signs) \in
           {Fail(x, "PEER_ALERT"), Deliver(x, r.msg), ServerHandle(S, x, r.msg, signs, ServerNow)}
    BY DEF Content
  <2>2. \E U2 : ServerHolds(q, ServerHandle(S, x, r.msg, signs, ServerNow), U2, V)
    BY <1>1, ServerHandles
  <2>3. /\ ServerHolds(q, Fail(x, "PEER_ALERT"), U, V)
        /\ ServerHolds(q, Fail(x, "UNEXPECTED_MESSAGE"), U, V)
    <3>1. ServerShape(x) /\ Sending(q, x.out, x.enc, U) /\ Apart(U, V, TRUE)
      BY <1>1 DEF ServerHolds
    <3> QED
      BY <3>1, ServerFailed
  <2>4. ServerHolds(q, Deliver(x, r.msg), U, V)
    <3>1. CASE x.st \in ServerLateStates
      BY <1>1, <3>1, SecondFlightHandled
    <3>2. CASE x.st \notin ServerLateStates
      <4>1. Deliver(x, r.msg) = Fail(x, "UNEXPECTED_MESSAGE")
        BY <3>2 DEF Deliver, ServerLateStates
      <4> QED
        BY <2>3, <4>1
    <3> QED
      BY <3>1, <3>2
  <2> QED
    BY <2>1, <2>2, <2>3, <2>4
<1>2. Skip(e) \in {skipped, Fail(skipped, "HANDSHAKE_FAILURE")}
  BY DEF Skip
<1>3. /\ ServerShape(skipped) /\ skipped.enc = e.enc /\ skipped.out = e.out
      /\ skipped.st = e.st /\ skipped.ret = e.ret
  BY DEF ServerHolds, ServerShape, ServerFields
<1> HIDE DEF skipped
<1>4. ServerHolds(q, skipped, U, V)
  BY <1>3, ServerQuiet
<1>5. e2 \in {e, Fail(e, "HANDSHAKE_FAILURE"), Fail(e, "PEER_ALERT"), Fail(e, "BAD_RECORD_MAC"),
              Fail(e, "UNEXPECTED_MESSAGE"), Content(Opened(e), TRUE, r.msg, signs),
              Content(e, TRUE, r.msg, signs), Skip(e)}
  BY DEF Input
<1> HIDE DEF e2
<1>6. /\ ServerHolds(q, Fail(e, "HANDSHAKE_FAILURE"), U, V)
      /\ ServerHolds(q, Fail(e, "PEER_ALERT"), U, V)
      /\ ServerHolds(q, Fail(e, "BAD_RECORD_MAC"), U, V)
      /\ ServerHolds(q, Fail(e, "UNEXPECTED_MESSAGE"), U, V)
      /\ ServerHolds(q, Fail(skipped, "HANDSHAKE_FAILURE"), U, V)
  <2>1. /\ ServerShape(e) /\ Sending(q, e.out, e.enc, U) /\ Apart(U, V, TRUE)
        /\ ServerShape(skipped) /\ Sending(q, skipped.out, skipped.enc, U)
    BY <1>4 DEF ServerHolds
  <2> QED
    BY <2>1, ServerFailed
<1>7. /\ \E U2 : ServerHolds(q, Content(Opened(e), TRUE, r.msg, signs), U2, V)
      /\ \E U2 : ServerHolds(q, Content(e, TRUE, r.msg, signs), U2, V)
  BY <1>1, ServerOpened
<1> QED
  BY <1>2, <1>4, <1>5, <1>6, <1>7 DEF e2

ServerRests(q, e, U, V) ==
    /\ ServerShape(e) /\ e.out = <<>> /\ Traffic(e.enc)
    /\ Open(e) => ServerHolds(q, e, U, V)

LEMMA NewServerRests ==
  ASSUME NEW q, NEW U, NEW V, NEW cfg, NEW b, NEW e, e = [NewServer(cfg) EXCEPT !.asserts = b],
         IsSeq(q), Numbered(q, U), Apart(U, V, TRUE),
         Unused(U, "s_hs_traffic"), Unused(U, "s_ap_traffic")
  PROVE  ServerRests(q, e, U, V)
<1>1. /\ ServerFields \subseteq DOMAIN e /\ e.st = "EXPECT_CLIENT_HELLO"
      /\ e.ret = "IN_PROGRESS" /\ e.enc = NoTraffic /\ e.dec = NoTraffic /\ e.out = <<>>
      /\ e.tickets = 0
  BY DEF NewServer, ServerFields
<1>2. Traffic(NoTraffic) /\ NoTraffic.aead = <<>>
  BY TrafficIs
<1>3. ServerShape(e)
  BY <1>1, <1>2 DEF ServerShape, ServerStates, ServerHelloStates
<1>4. IsSeq(<<>>) /\ q \o <<>> = q
  BY EmptyIsSeq, SeqSumEmpty
<1>5. Sending(q, e.out, e.enc, U)
  BY <1>1, <1>2, <1>4 DEF Sending, UsesKey
<1>6. ServerStage(e, U)
  BY <1>1 DEF ServerStage, ServerHelloStates, ServerLateStates
<1> QED
  BY <1>1, <1>2, <1>3, <1>5, <1>6 DEF ServerRests, ServerHolds

\* What a step of the server leaves: its records go on their way, and after a
\* stateless retry it starts again.
LEMMA ServerSentOn ==
  ASSUME NEW q, NEW U, NEW V, NEW f, ServerShape(f), Traffic(f.enc), IsSeq(q), IsSeq(f.out),
         Numbered(q \o f.out, U), Apart(U, V, TRUE), GoesOn(f) => ServerHolds(q, f, U, V)
  PROVE  ServerRests(q \o f.out, Renewed(f), U, V)
<1> DEFINE e == Sent(f)
           all == q \o f.out
<1>1. /\ ServerShape(e) /\ e.out = <<>> /\ e.enc = f.enc /\ e.st = f.st /\ e.ret = f.ret
  BY DEF Sent, ServerShape, ServerFields
<1>2. IsSeq(all) /\ all \o <<>> = all /\ IsSeq(<<>>)
  BY SeqSum, SeqSumEmpty, EmptyIsSeq
<1>3. CASE f.ret = "STATELESS_RETRY"
  <2> DEFINE anew == [NewServer(S) EXCEPT !.asserts = f.asserts]
  <2>1. Unused(U, "s_hs_traffic") /\ Unused(U, "s_ap_traffic")
    BY <1>3 DEF GoesOn, ServerHolds, ServerStage, ServerHelloStates, ServerLateStates
  <2>2. ServerRests(all, anew, U, V)
    BY <1>2, <2>1, NewServerRests
  <2> QED
    BY <1>3, <2>2 DEF Renewed
<1>4. CASE f.ret # "STATELESS_RETRY"
  <2> HIDE DEF e
  <2>1. ASSUME Open(f) PROVE ServerHolds(all, e, U, V)
    <3>1. ServerHolds(q, f, U, V) /\ ServerStage(f, U)
      BY <2>1 DEF GoesOn, ServerHolds
    <3>2. Sending(all, e.out, e.enc, U)
      BY <1>1, <1>2, <3>1 DEF ServerHolds, Sending
    <3> HIDE DEF all
    <3> QED
      BY <1>1, <3>1, <3>2 DEF ServerHolds, ServerStage
  <2>2. ServerRests(all, e, U, V)
    BY <1>1, <2>1 DEF ServerRests, Open
  <2> QED
    BY <1>4, <2>2 DEF Renewed, e
<1> QED
  BY <1>3, <1>4

LEMMA ServerFinishes ==
  ASSUME NEW q, NEW U, NEW V, NEW e, ServerHolds(q, e, U, V), NEW before, NEW f,
         f = Finish(before, e, TRUE)
  PROVE  /\ ServerRests(q \o f.out, Renewed(f), U, V) /\ Numbered(q \o f.out, U)
         /\ Apart(U, V, TRUE)
<1>1. /\ ServerShape(e) /\ Sending(q, e.out, e.enc, U) /\ Apart(U, V, TRUE)
      /\ {"enc", "out", "ret"} \subseteq DOMAIN e
  BY DEF ServerHolds, ServerShape, ServerFields
<1>2. \/ f = e
      \/ /\ Same(e, f, {"out"}) /\ ~Open(f)
         /\ IsSeq(f.out) /\ Numbered(q \o f.out, U)
  BY <1>1, FinishSends
<1>2a. f = e \/ e.ret # "STATELESS_RETRY"
  BY DEF Finish
<1>3. /\ ServerShape(f) /\ f.enc = e.enc /\ IsSeq(f.out) /\ Numbered(q \o f.out, U)
      /\ GoesOn(f) => ServerHolds(q, f, U, V)
  BY <1>1, <1>2, <1>2a DEF Same, Sending, ServerShape, ServerFields, GoesOn
<1> QED
  BY <1>1, <1>3, ServerSentOn DEF Sending

\* The end of a deferred signature, also of one that fails.
LEMMA ServerResumes ==
  ASSUME NEW q, NEW U, NEW V, NEW e, ServerHolds(q, e, U, V), NEW signs,
         signs = "fails" => ~GoesOn(e), NEW rest \in {<<>>, <<Unfinished>>},
         NEW f, f = Resumed(e, signs, rest)
  PROVE  /\ ServerRests(q \o f.out, Renewed(f), U, V) /\ Numbered(q \o f.out, U)
         /\ Apart(U, V, TRUE)
<1> DEFINE m == [mt |-> "CV"]
<1>1. /\ ServerShape(e) /\ Sending(q, e.out, e.enc, U) /\ Apart(U, V, TRUE)
      /\ {"enc", "out", "ret"} \subseteq DOMAIN e
  BY DEF ServerHolds, ServerShape, ServerFields
<1>2. IsSeq(rest) /\ Numbered(q \o rest, U)
  <2>1. Sending(q, <<>>, e.enc, U)
    BY <1>1, OutputDropped
  <2>2. MessageTyped(m)
    BY DEF MessageTyped
  <2>3. Unfinished = Record(m) /\ Append(<<>>, Record(m)) = <<Record(m)>>
    BY DEF Unfinished
  <2> HIDE DEF m
  <2>4. Sending(q, Append(<<>>, Record(m)), e.enc, U)
    BY <2>1, <2>2, PlainSends
  <2> QED
    BY <2>1, <2>3, <2>4 DEF Sending
<1>3. CASE signs # "fails"
  <2>1. f = e
    BY <1>3 DEF Resumed
  <2> QED
    BY <1>1, <2>1, ServerSentOn DEF Sending
<1>4. CASE signs = "fails"
  <2>1. Same(e, f, {"out"}) /\ f.out = rest
    BY <1>1, <1>4 DEF Resumed, Same
  <2>2. ServerShape(f) /\ f.enc = e.enc /\ ~GoesOn(f)
    BY <1>1, <1>4, <2>1 DEF Same, ServerShape, ServerFields, GoesOn, Open
  <2> QED
    BY <1>1, <1>2, <2>1, <2>2, ServerSentOn DEF Sending
<1> QED
  BY <1>3, <1>4

LEMMA ServerSends ==
  ASSUME NEW q, NEW U, NEW V, NEW e, ServerHolds(q, e, U, V), e.ret = "OK",
         NEW m, MessageTyped(m), NEW f, f = PtlsSend(e, m)
  PROVE  \E U2 : ServerRests(q \o f.out, Renewed(f), U2, V) /\ Numbered(q \o f.out, U2)
                 /\ Apart(U2, V, TRUE)
<1>1. /\ ServerShape(e) /\ Sending(q, e.out, e.enc, U) /\ Apart(U, V, TRUE)
      /\ {"enc", "out"} \subseteq DOMAIN e /\ ServerStage(e, U)
  BY DEF ServerHolds, ServerShape, ServerFields, GoesOn, Open
<1>1a. e.enc.aead # <<>> /\ e.st \in ServerLateStates
  BY <1>1 DEF ServerStage
<1>2. /\ Same(e, f, {"enc", "out", "needsKU", "reqKU", "sent"})
      /\ f.enc.aead # <<>>
      /\ \E U2 : /\ Apart(U2, V, TRUE)
                 /\ Sending(q, f.out, f.enc, U2)
                 /\ \A label : Unused(U, label) => Unused(U2, label)
  BY <1>1, <1>1a, PtlsSendSends
<1>3. PICK U2 : /\ Apart(U2, V, TRUE) /\ Sending(q, f.out, f.enc, U2)
                /\ \A label : Unused(U, label) => Unused(U2, label)
  BY <1>2
<1>4. /\ ServerShape(f) /\ f.st = e.st /\ f.ret = e.ret
  BY <1>1, <1>2 DEF Same, ServerShape, ServerFields
<1>5. ServerHolds(q, f, U2, V)
  BY <1>1, <1>1a, <1>2, <1>3, <1>4 DEF ServerHolds, ServerStage, ServerHelloStates, ServerLateStates
<1> QED
  BY <1>3, <1>4, <1>5, ServerSentOn DEF Sending

-----------------------------------------------------------------------------
(* Both ends and the records between them. *)

\* U: the secrets the client has sealed with on this connection, V: the server.
Wire(q1, q2, c, s, U, V) ==
    /\ Apart(U, V, FALSE) /\ Numbered(q1, U) /\ Numbered(q2, V)
    /\ ClientRests(q1, c, U, V) /\ ServerRests(q2, s, V, U)

Between(q1, q2, c, s) == \E U, V : Wire(q1, q2, c, s, U, V)

IInv ==
    /\ plan \in Plans /\ conn \in 1..Len(plan) /\ Len(store) <= 1
    /\ Between(toSrv, toCli, cli, srv)

LEMMA SettingsAre ==
  ASSUME plan \in Plans, conn \in 1..Len(plan)
  PROVE  C.tickets \in Nat \X Nat /\ S.maxTickets \in Nat
<1>1. plan \in Seq(Connections)
  BY PlansAssumption
<1>2. plan[conn] \in Connections
  BY <1>1
<1>3. plan[conn].c \in ClientSettings /\ plan[conn].s \in ServerSettings
  BY <1>2 DEF Connections
<1>4. plan[conn].c.tickets \in Nat \X Nat
  BY <1>3 DEF ClientSettings
<1>5. C.tickets = plan[conn].c.tickets
  BY DEF C, ClientConfig
<1>6. S.maxTickets \in Nat
  BY <1>3 DEF S, ServerSettings
<1> QED
  BY <1>4, <1>5, <1>6

\* A record is taken from the stream.
LEMMA NumberedTail ==
  ASSUME NEW q, NEW U, Numbered(q, U), q # <<>>
  PROVE  Numbered(Tail(q), U) /\ MessageTyped(Head(q).msg)
<1>1. /\ IsSeq(Tail(q)) /\ Len(Tail(q)) = Len(q) - 1 /\ Len(q) \in Nat \ {0}
      /\ \A i \in 1..Len(Tail(q)) : Tail(q)[i] = q[i + 1]
      /\ Head(q) = q[1]
  BY SeqTail DEF Numbered
<1> DEFINE t == Tail(q)
<1>2. \A i \in 1..Len(t) : t[i] = q[i + 1] /\ i + 1 \in 1..Len(q)
  BY <1>1
<1>3. \A i, j \in 1..Len(t) : i + 1 = j + 1 => i = j
  BY <1>1
<1>4. MessageTyped(Head(q).msg)
  BY <1>1 DEF Numbered
<1> HIDE DEF t
<1>5. Numbered(t, U)
  BY <1>1, <1>2, <1>3 DEF Numbered, t
<1> QED
  BY <1>4, <1>5 DEF t

LEMMA SendingTail ==
  ASSUME NEW q, NEW U, NEW out, NEW tp, Sending(q, out, tp, U), out = <<>>, q # <<>>
  PROVE  Sending(Tail(q), out, tp, U)
<1>1. /\ IsSeq(q) /\ IsSeq(out) /\ Traffic(tp) /\ q \o out = q
      /\ Numbered(q, U) /\ UsesKey(q, tp, U)
  BY SeqSumEmpty DEF Sending
<1>2. /\ IsSeq(Tail(q)) /\ Len(Tail(q)) = Len(q) - 1 /\ Len(q) \in Nat \ {0}
      /\ \A i \in 1..Len(Tail(q)) : Tail(q)[i] = q[i + 1]
      /\ Tail(q) \o out = Tail(q)
  BY <1>1, SeqTail, SeqSumEmpty
<1> DEFINE t == Tail(q)
<1>3. \A i \in 1..Len(t) : t[i] = q[i + 1] /\ i + 1 \in 1..Len(q)
  BY <1>2
<1>4. Numbered(t, U)
  BY <1>1, NumberedTail
<1> HIDE DEF t
<1>5. UsesKey(t, tp, U)
  BY <1>1, <1>3 DEF UsesKey
<1> QED
  BY <1>1, <1>2, <1>4, <1>5 DEF Sending, t

LEMMA ClientTakes ==
  ASSUME NEW q1, NEW q2, NEW c, NEW s, NEW U, NEW V, Wire(q1, q2, c, s, U, V), q2 # <<>>
  PROVE  Wire(q1, Tail(q2), c, s, U, V)
<1>1. Numbered(Tail(q2), V)
  BY NumberedTail DEF Wire
<1>2. ASSUME Open(s) PROVE ServerHolds(Tail(q2), s, V, U)
  BY <1>2, SendingTail DEF Wire, ServerRests, ServerHolds
<1> QED
  BY <1>1, <1>2 DEF Wire, ServerRests

LEMMA ServerTakes ==
  ASSUME NEW q1, NEW q2, NEW c, NEW s, NEW U, NEW V, Wire(q1, q2, c, s, U, V), q1 # <<>>
  PROVE  Wire(Tail(q1), q2, c, s, U, V)
<1>1. Numbered(Tail(q1), U)
  BY NumberedTail DEF Wire
<1>2. ASSUME Open(c) PROVE ClientHolds(Tail(q1), c, U, V)
  BY <1>2, SendingTail DEF Wire, ClientRests, ClientHolds
<1> QED
  BY <1>1, <1>2 DEF Wire, ClientRests

LEMMA ClientMoves ==
  ASSUME NEW q1, NEW q2, NEW c, NEW s, NEW U, NEW V, Wire(q1, q2, c, s, U, V),
         NEW q, NEW c2, NEW U2, ClientRests(q, c2, U2, V), Numbered(q, U2), Apart(U2, V, FALSE)
  PROVE  Between(q, q2, c2, s)
<1>1. Apart(V, U2, TRUE)
  BY ApartTurned DEF Apart, Labels
<1>2. ServerRests(q2, s, V, U2)
  BY <1>1 DEF Wire, ServerRests, ServerHolds
<1> QED
  BY <1>2 DEF Wire, Between

LEMMA ServerMoves ==
  ASSUME NEW q1, NEW q2, NEW c, NEW s, NEW U, NEW V, Wire(q1, q2, c, s, U, V),
         NEW q, NEW s2, NEW V2, ServerRests(q, s2, V2, U), Numbered(q, V2), Apart(V2, U, TRUE)
  PROVE  Between(q1, q, c, s2)
<1>1. Apart(U, V2, FALSE)
  BY DEF Apart, Labels
<1>2. ClientRests(q1, c, U, V2)
  BY <1>1 DEF Wire, ClientRests, ClientHolds
<1> QED
  BY <1>1, <1>2 DEF Wire, Between

LEMMA NothingYet ==
  ASSUME NEW c, NEW s
  PROVE  Between(<<>>, <<>>, NewClient(c), NewServer(s))
<1>1. Apart({}, {}, FALSE) /\ Apart({}, {}, TRUE)
  BY DEF Apart, Closed
<1>2. Numbered(<<>>, {}) /\ IsSeq(<<>>) /\ <<>> \o <<>> = <<>> /\ Len(<<>>) = 0
  BY EmptyIsSeq, SeqSumEmpty DEF Numbered
<1>3. Traffic(NoTraffic) /\ NoTraffic.aead = <<>>
  BY TrafficIs
<1>4. \A label : Unused({}, label)
  BY DEF Unused
<1>5. ClientRests(<<>>, NewClient(c), {}, {})
  <2> DEFINE e == NewClient(c)
  <2>1. /\ ClientFields \subseteq DOMAIN e /\ e.st = "HANDSHAKE_START"
        /\ e.ret = "IN_PROGRESS" /\ e.enc = NoTraffic /\ e.dec = NoTraffic /\ e.out = <<>>
        /\ e.pend = <<>> /\ e.usingEarly = FALSE /\ e.ech = NoEch
    BY DEF NewClient, ClientFields
  <2> HIDE DEF e
  <2>2. {"first"} \subseteq DOMAIN NoEch /\ EchTyped(NoEch.first)
    BY DEF NoEch, EchTyped
  <2>3. ClientShape(e)
    BY <1>3, <2>1, <2>2 DEF ClientShape, ClientStates, HelloStates
  <2>4. Sending(<<>>, e.out, e.enc, {})
    BY <1>2, <1>3, <2>1 DEF Sending, UsesKey
  <2>5. ClientStage(e, {})
    BY <1>4, <2>1 DEF ClientStage, FlightStates
  <2> QED
    BY <1>1, <1>3, <2>1, <2>3, <2>4, <2>5 DEF ClientRests, ClientHolds, e
<1>6. ServerRests(<<>>, NewServer(s), {}, {})
  <2> DEFINE e == NewServer(s)
  <2>1. e = [e EXCEPT !.asserts = e.asserts]
    BY DEF NewServer
  <2> QED
    BY <1>1, <1>2, <1>4, <2>1, NewServerRests
<1> QED
  BY <1>1, <1>2, <1>5, <1>6 DEF Wire, Between

-----------------------------------------------------------------------------
(* The steps. *)

LEMMA InitHolds == Init => IInv
<1> SUFFICES ASSUME Init PROVE IInv
  OBVIOUS
<1>1. plan \in Seq(Connections) /\ plan # <<>>
  BY PlansAssumption DEF Init
<1>2. Len(plan) \in Nat \ {0}
  BY <1>1, EmptySeq
<1>3. Len(store) <= 1 /\ conn \in 1..Len(plan)
  BY <1>2 DEF Init
<1>4. Between(toSrv, toCli, cli, srv)
  BY NothingYet DEF Init
<1> QED
  BY <1>3, <1>4 DEF IInv, Init

LEMMA ClientSteps ==
  ASSUME IInv, Client
  PROVE  Between(toSrv', toCli', cli', srv')
<1>1. PICK U, V : Wire(toSrv, toCli, cli, srv, U, V)
  BY DEF IInv, Between
<1>2. C.tickets \in Nat \X Nat
  BY SettingsAre DEF IInv
<1>3. Open(cli) => ClientHolds(toSrv, cli, U, V)
  BY <1>1 DEF Wire, ClientRests
<1>4. CASE ClientStart
  <2> DEFINE f == SendClientHello(C, cli, now, FALSE, <<>>)
  <2>1. /\ ClientHolds(toSrv, cli, U, V) /\ cli.st = "HANDSHAKE_START"
        /\ cli' = Sent(f) /\ toSrv' = toSrv \o f.out /\ srv' = srv /\ toCli' = toCli
    BY <1>3, <1>4 DEF ClientStart, ClientGoes
  <2>2. /\ ClientShape(cli) /\ Sending(toSrv, cli.out, cli.enc, U) /\ Apart(U, V, FALSE)
        /\ Unused(U, "c_e_traffic") /\ Unused(U, "c_hs_traffic") /\ Unused(U, "c_ap_traffic")
        /\ cli.ret # "OK"
    BY <2>1 DEF ClientHolds, ClientStage, HelloStates
  <2>3. PICK U2 : ClientHolds(toSrv, f, U2, V)
    BY <1>2, <2>2, HelloIsSent
  <2> HIDE DEF f
  <2>4. /\ ClientRests(toSrv \o f.out, Sent(f), U2, V) /\ Numbered(toSrv \o f.out, U2)
        /\ Apart(U2, V, FALSE)
    BY <2>3, ClientSentOn DEF ClientHolds, Sending
  <2> QED
    BY <1>1, <2>1, <2>4, ClientMoves
<1>5. CASE ClientReceive
  <2> DEFINE e == Input(cli, FALSE, Head(toCli), "none")
             f == Finish(cli, e, FALSE)
  <2>1. /\ ClientHolds(toSrv, cli, U, V) /\ toCli # <<>>
        /\ cli' = Sent(f) /\ toSrv' = toSrv \o f.out /\ srv' = srv /\ toCli' = Tail(toCli)
    BY <1>3, <1>5 DEF ClientReceive, ClientGoes
  <2>2. PICK U2 : ClientHolds(toSrv, e, U2, V)
    BY <1>2, <2>1, ClientReads
  <2> HIDE DEF e
  <2>3. /\ ClientRests(toSrv \o f.out, Sent(f), U2, V) /\ Numbered(toSrv \o f.out, U2)
        /\ Apart(U2, V, FALSE)
    BY <2>2, ClientFinishes
  <2> HIDE DEF f
  <2>4. Wire(toSrv, Tail(toCli), cli, srv, U, V)
    BY <1>1, <2>1, ClientTakes
  <2> QED
    BY <2>1, <2>3, <2>4, ClientMoves
<1>6. ASSUME NEW m, MessageTyped(m), NEW f, f = PtlsSend(cli, m), ClientGoes(f),
             Open(cli), cli.enc.aead # <<>>, srv' = srv, toCli' = toCli
      PROVE  Between(toSrv', toCli', cli', srv')
  <2>1. PICK U2 : /\ ClientRests(toSrv \o f.out, Sent(f), U2, V) /\ Numbered(toSrv \o f.out, U2)
                  /\ Apart(U2, V, FALSE)
    BY <1>3, <1>6, ClientSends
  <2> QED
    BY <1>1, <1>6, <2>1, ClientMoves DEF ClientGoes
<1>7. CASE ClientSendEarly
  <2> DEFINE m == Data(TRUE, Len(cli.sent) + 1)
  <2>1. MessageTyped(m)
    BY DEF Data, MessageTyped
  <2>2. Open(cli) /\ cli.enc.aead # <<>>
    BY <1>3, <1>7 DEF ClientSendEarly, ClientHolds, ClientStage
  <2>3. ClientGoes(PtlsSend(cli, m)) /\ srv' = srv /\ toCli' = toCli
    BY <1>7 DEF ClientSendEarly
  <2> HIDE DEF m
  <2> QED
    BY <1>6, <2>1, <2>2, <2>3
<1>8. CASE ClientSend
  <2> DEFINE m == Data(FALSE, Len(AppSent(cli)) + 1)
  <2>1. MessageTyped(m)
    BY DEF Data, MessageTyped
  <2>2. Open(cli) /\ cli.enc.aead # <<>>
    BY <1>3, <1>8 DEF ClientSend, ClientHolds, ClientStage, Open
  <2>3. ClientGoes(PtlsSend(cli, m)) /\ srv' = srv /\ toCli' = toCli
    BY <1>8 DEF ClientSend
  <2> HIDE DEF m
  <2> QED
    BY <1>6, <2>1, <2>2, <2>3
<1>9. ASSUME NEW c2, ClientRests(toSrv, c2, U, V), cli' = c2,
             UNCHANGED <<srv, toSrv, toCli>>
      PROVE  Between(toSrv', toCli', cli', srv')
  BY <1>1, <1>9 DEF Wire, Between
<1>10. CASE ClientUpdateKey
  <2> DEFINE c2 == [cli EXCEPT !.needsKU = TRUE, !.reqKU = TRUE]
  <2>1. /\ cli' = c2 /\ UNCHANGED <<srv, toSrv, toCli>> /\ ClientHolds(toSrv, cli, U, V)
    BY <1>3, <1>10 DEF ClientUpdateKey, Open
  <2>2. /\ ClientShape(c2) /\ c2.enc = cli.enc /\ c2.out = cli.out /\ c2.pend = cli.pend
        /\ c2.usingEarly = cli.usingEarly /\ c2.st = cli.st /\ c2.ret = cli.ret
    BY <2>1 DEF ClientHolds, ClientShape, ClientFields
  <2> HIDE DEF c2
  <2>3. ClientRests(toSrv, c2, U, V)
    BY <1>1, <2>1, <2>2 DEF Wire, ClientRests, ClientHolds, ClientStage
  <2> QED
    BY <1>9, <2>1, <2>3
<1>11. CASE ClientEof
  <2> DEFINE c2 == [cli EXCEPT !.ret = "EOF"]
  <2>1. /\ cli' = c2 /\ UNCHANGED <<srv, toSrv, toCli>> /\ ClientShape(cli) /\ Traffic(cli.enc)
        /\ cli.out = <<>>
    BY <1>1, <1>11 DEF ClientEof, Wire, ClientRests
  <2>2. /\ ClientShape(c2) /\ c2.enc = cli.enc /\ c2.out = cli.out /\ c2.ret = "EOF"
    BY <2>1 DEF ClientShape, ClientFields
  <2> HIDE DEF c2
  <2>3. ClientRests(toSrv, c2, U, V)
    BY <2>1, <2>2 DEF ClientRests, Open
  <2> QED
    BY <1>9, <2>1, <2>3
<1> QED
  BY <1>4, <1>5, <1>7, <1>8, <1>10, <1>11 DEF Client

LEMMA ServerSteps ==
  ASSUME IInv, Server
  PROVE  Between(toSrv', toCli', cli', srv')
<1>1. PICK U, V : Wire(toSrv, toCli, cli, srv, U, V)
  BY DEF IInv, Between
<1>2. S.maxTickets \in Nat
  BY SettingsAre DEF IInv
<1>3. Open(srv) => ServerHolds(toCli, srv, V, U)
  BY <1>1 DEF Wire, ServerRests
<1>4. CASE ServerReceive
  <2>1. PICK signs \in S.signs :
           ServerGoes(Finish(srv, Input(srv, TRUE, Head(toSrv), signs), TRUE))
    BY <1>4 DEF ServerReceive
  <2> DEFINE e == Input(srv, TRUE, Head(toSrv), signs)
             f == Finish(srv, e, TRUE)
  <2>2. /\ ServerHolds(toCli, srv, V, U) /\ Open(srv) /\ toSrv # <<>>
        /\ srv' = Renewed(f) /\ toCli' = toCli \o f.out /\ cli' = cli /\ toSrv' = Tail(toSrv)
    BY <1>3, <1>4, <2>1 DEF ServerReceive, ServerGoes
  <2>3. MessageTyped(Head(toSrv).msg)
    BY <1>1, <2>2, NumberedTail DEF Wire
  <2>4. PICK V2 : ServerHolds(toCli, e, V2, U)
    BY <1>2, <2>2, <2>3, ServerReads
  <2> HIDE DEF e
  <2>5. /\ ServerRests(toCli \o f.out, Renewed(f), V2, U) /\ Numbered(toCli \o f.out, V2)
        /\ Apart(V2, U, TRUE)
    BY <2>4, ServerFinishes
  <2> HIDE DEF f
  <2>6. Wire(Tail(toSrv), toCli, cli, srv, U, V)
    BY <1>1, <2>2, ServerTakes
  <2> QED
    BY <2>2, <2>5, <2>6, ServerMoves
<1>5. CASE ServerResume
  <2>1. PICK signs \in S.signs \ {"later"}, rest \in {<<>>, <<Unfinished>>} :
           ServerGoes(Resumed(SignAndFinish(S, srv, signs, ServerNow), signs, rest))
    BY <1>5 DEF ServerResume
  <2> DEFINE e == SignAndFinish(S, srv, signs, ServerNow)
             f == Resumed(e, signs, rest)
  <2>2. /\ ServerHolds(toCli, srv, V, U) /\ srv.ret = "ASYNC_OPERATION"
        /\ srv' = Renewed(f) /\ toCli' = toCli \o f.out /\ cli' = cli /\ toSrv' = toSrv
    BY <1>3, <1>5, <2>1 DEF ServerResume, ServerGoes, Open
  <2>3. InFlight(toCli, srv, V, U)
    BY <2>2 DEF InFlight, ServerHolds, ServerStage, ServerLateStates, GoesOn, Open
  <2>4. PICK V2 : ServerHolds(toCli, e, V2, U)
    BY <2>3, FlightSigned
  <2>5. signs = "fails" => ~GoesOn(e)
    BY <2>2 DEF SignAndFinish, Fail, GoesOn, Open, ServerHolds, ServerShape, ServerFields
  <2> HIDE DEF e
  <2>6. /\ ServerRests(toCli \o f.out, Renewed(f), V2, U) /\ Numbered(toCli \o f.out, V2)
        /\ Apart(V2, U, TRUE)
    BY <2>4, <2>5, ServerResumes
  <2> HIDE DEF f
  <2> QED
    BY <1>1, <2>2, <2>6, ServerMoves
<1>6. CASE ServerSend
  <2> DEFINE m == Data(FALSE, Len(srv.sent) + 1)
             f == PtlsSend(srv, m)
  <2>1. MessageTyped(m)
    BY DEF Data, MessageTyped
  <2>2. /\ ServerHolds(toCli, srv, V, U) /\ srv.ret = "OK"
        /\ srv' = Renewed(f) /\ toCli' = toCli \o f.out /\ cli' = cli /\ toSrv' = toSrv
    BY <1>3, <1>6 DEF ServerSend, ServerGoes, Open
  <2> HIDE DEF m
  <2>3. PICK V2 : /\ ServerRests(toCli \o f.out, Renewed(f), V2, U)
                  /\ Numbered(toCli \o f.out, V2) /\ Apart(V2, U, TRUE)
    BY <2>1, <2>2, ServerSends
  <2> HIDE DEF f
  <2> QED
    BY <1>1, <2>2, <2>3, ServerMoves
<1> QED
  BY <1>4, <1>5, <1>6 DEF Server

LEMMA NextHolds == IInv /\ [Next]_vars => IInv'
<1> SUFFICES ASSUME IInv, [Next]_vars PROVE IInv'
  OBVIOUS
<1>1. CASE Client
  <2>1. UNCHANGED <<plan, conn, store>>
    BY <1>1 DEF Client, ClientStart, ClientReceive, ClientSendEarly, ClientSend,
                ClientUpdateKey, ClientEof
  <2>2. Between(toSrv, toCli, cli, srv)'
    BY <1>1, ClientSteps
  <2> QED
    BY <2>1, <2>2 DEF IInv
<1>2. CASE Server
  <2>1. UNCHANGED <<plan, conn, store>>
    BY <1>2 DEF Server, ServerReceive, ServerResume, ServerSend
  <2>2. Between(toSrv, toCli, cli, srv)'
    BY <1>2, ServerSteps
  <2> QED
    BY <2>1, <2>2 DEF IInv
<1>3. CASE Reconnect
  <2>1. /\ plan' = plan /\ conn' = conn + 1 /\ conn < Len(plan)
        /\ store' = store \/ store' = <<cli.saved[Len(cli.saved)]>>
        /\ toSrv' = <<>> /\ toCli' = <<>>
        /\ cli' = NewClient(plan[conn + 1].c) /\ srv' = NewServer(plan[conn + 1].s)
    BY <1>3 DEF Reconnect, Quiet
  <2>2. Between(toSrv, toCli, cli, srv)'
    BY <2>1, NothingYet
  <2>3. Len(plan) \in Nat
    BY PlansAssumption DEF IInv
  <2>4. Len(store') <= 1
    <3> DEFINE kept == <<cli.saved[Len(cli.saved)]>>
    <3>1. store' = store \/ store' = kept
      BY <2>1
    <3>2. Len(kept) = 1
      BY EmptyIsSeq, SeqAppended
    <3> HIDE DEF kept
    <3>3. Len(store') = Len(store) \/ Len(store') = 1
      BY <3>1, <3>2
    <3>4. CASE Len(store') = 1
      BY <3>4
    <3>5. CASE Len(store') = Len(store)
      BY <3>5 DEF IInv
    <3> QED
      BY <3>3, <3>4, <3>5
  <2> QED
    BY <2>1, <2>2, <2>3, <2>4 DEF IInv
<1>4. CASE UNCHANGED vars
  BY <1>4 DEF IInv, vars
<1> QED
  BY <1>1, <1>2, <1>3, <1>4 DEF Next

-----------------------------------------------------------------------------
\* Both ends are always in a state of their state machines, with the numbers
\* and epochs of their keys in range, and nothing is left unsent between two
\* calls of picotls.
THEOREM TypeCorrect == Spec => []TypeOK
<1>1. IInv => TypeOK
  <2> SUFFICES ASSUME IInv PROVE TypeOK
    OBVIOUS
  <2>1. PICK U, V : Wire(toSrv, toCli, cli, srv, U, V)
    BY DEF IInv, Between
  <2>2. /\ cli.st \in ClientStates /\ Traffic(cli.enc) /\ Traffic(cli.dec) /\ cli.out = <<>>
        /\ srv.st \in ServerStates /\ Traffic(srv.enc) /\ Traffic(srv.dec) /\ srv.out = <<>>
    BY <2>1 DEF Wire, ClientRests, ClientShape, ServerRests, ServerShape
  <2>3. \A e \in Ends : e.out = <<>> /\ e.enc.seq \in Nat /\ e.dec.seq \in Nat
                        /\ e.enc.epoch \in 0..3 /\ e.dec.epoch \in 0..3
    BY <2>2 DEF Ends, Traffic
  <2> QED
    BY <2>2, <2>3 DEF IInv, TypeOK, ClientStates, HelloStates, FlightStates,
                      ServerStates, ServerHelloStates, ServerLateStates
<1> QED
  BY <1>1, InitHolds, NextHolds, PTL DEF Spec

\* No two different records under way carry one key and one sequence number, in
\* whatever direction: retries, early data, key updates and alerts included.
THEOREM KeysNumberOnce == Spec => []NonceUnique
<1>1. IInv => NonceUnique
  <2> SUFFICES ASSUME IInv,
                      NEW r1 \in ToSet(toSrv) \cup ToSet(toCli),
                      NEW r2 \in ToSet(toSrv) \cup ToSet(toCli),
                      r1.key # <<>>, r1.key = r2.key, r1.seq = r2.seq
               PROVE  r1 = r2
    BY DEF NonceUnique
  <2>1. PICK U, V : Wire(toSrv, toCli, cli, srv, U, V)
    BY DEF IInv, Between
  <2>2. Numbered(toSrv, U) /\ Numbered(toCli, V) /\ U \cap V = {}
    BY <2>1 DEF Wire, Apart
  <2>3. /\ \A r \in ToSet(toSrv) : \E i \in 1..Len(toSrv) : r = toSrv[i]
        /\ \A r \in ToSet(toCli) : \E i \in 1..Len(toCli) : r = toCli[i]
    BY <2>2 DEF ToSet, Numbered, IsSeq
  <2>4. CASE r1 \in ToSet(toSrv) /\ r2 \in ToSet(toSrv)
    BY <2>2, <2>3, <2>4 DEF Numbered
  <2>5. CASE r1 \in ToSet(toCli) /\ r2 \in ToSet(toCli)
    BY <2>2, <2>3, <2>5 DEF Numbered
  <2>6. /\ \A r \in ToSet(toSrv) : r.key # <<>> => r.key[2] \in U
        /\ \A r \in ToSet(toCli) : r.key # <<>> => r.key[2] \in V
    BY <2>2, <2>3 DEF Numbered
  <2> QED
    BY <2>2, <2>4, <2>5, <2>6
<1> QED
  BY <1>1, InitHolds, NextHolds, PTL DEF Spec
=============================================================================
